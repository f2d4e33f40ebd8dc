------------------------------ MODULE Delivery ------------------------------
(***************************************************************************)
(* What a ferrorag Pipeline promises to the program that runs it, with no  *)
(* tasks, no channels and no dead-letter worker: every item the source     *)
(* yields is, in the end, delivered to the caller in source order, written *)
(* to the dead-letter queue (DLQ), or filtered out by a node; nothing      *)
(* disappears unless a fault has happened; and the ExecutionSummary that   *)
(* comes back counts exactly what was delivered and what was dead-lettered *)
(* (crates/core/src/lib.rs:7-10, pipeline.rs:15-21).                      *)
(***************************************************************************)
EXTENDS Naturals, FiniteSets, Sequences, Functions

CONSTANT NumItems          \* how many items the source can yield

VARIABLES
  accepted,    \* items 1..accepted have been pulled from the source
  delivered,   \* the sequence handed to the caller of execute/collect/for_each
  dead,        \* items the DLQ has written
  notices,     \* DLQ records that carry no item (a source or a flush error)
  filtered,    \* items a node consumed on purpose
  lost,        \* items that vanished without a trace
  faulty,      \* has a panic, a DLQ failure or an expired grace period happened
  returned,    \* has the ExecutionSummary been returned
  summary      \* the ExecutionSummary

vars == <<accepted, delivered, dead, notices, filtered, lost, faulty,
          returned, summary>>

Settled  == Range(delivered) \cup dead \cup filtered \cup lost
InFlight == (1..accepted) \ Settled

Init ==
  /\ accepted = 0
  /\ delivered = <<>>
  /\ dead = {} /\ filtered = {} /\ lost = {}
  /\ notices = 0
  /\ faulty = FALSE
  /\ returned = FALSE
  /\ summary = [ok |-> 0, err |-> 0]

Accept ==
  /\ accepted < NumItems
  /\ returned => faulty
  /\ accepted' = accepted + 1
  /\ UNCHANGED <<delivered, dead, notices, filtered, lost, faulty, returned,
                 summary>>

\* Items come out in the order the source yielded them.
Deliver(x) ==
  /\ ~returned
  /\ \A y \in Range(delivered) : y < x
  /\ delivered' = Append(delivered, x)
  /\ UNCHANGED <<accepted, dead, notices, filtered, lost, faulty, returned,
                 summary>>

DeadLetter(x) ==
  /\ dead' = dead \cup {x}
  /\ UNCHANGED <<accepted, delivered, notices, filtered, lost, faulty, returned,
                 summary>>

\* A record about no particular item; after the return only if faulty.
Notice ==
  /\ returned => faulty
  /\ notices' = notices + 1
  /\ UNCHANGED <<accepted, delivered, dead, filtered, lost, faulty, returned,
                 summary>>

Filter(x) ==
  /\ filtered' = filtered \cup {x}
  /\ UNCHANGED <<accepted, delivered, dead, notices, lost, faulty, returned,
                 summary>>

\* A fault, and what it or an earlier one destroys.
Fault ==
  /\ faulty' = TRUE
  /\ \E S \in SUBSET InFlight : lost' = lost \cup S
  /\ UNCHANGED <<accepted, delivered, dead, notices, filtered, returned, summary>>

\* Without a fault the summary is exact and nothing is still in flight.
Return ==
  /\ ~returned
  /\ returned' = TRUE
  /\ summary' \in [ok : {Len(delivered)}, err : Nat]
  /\ faulty' \in {faulty, TRUE}
  /\ ~faulty' => /\ InFlight = {}
                 /\ summary'.err = Cardinality(dead) + notices
  /\ UNCHANGED <<accepted, delivered, dead, notices, filtered, lost>>

Next ==
  \/ Accept
  \/ \E x \in InFlight : Deliver(x) \/ DeadLetter(x) \/ Filter(x)
  \/ Notice
  \/ Fault
  \/ Return

Spec == Init /\ [][Next]_vars
=============================================================================
