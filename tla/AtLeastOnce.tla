---------------------------- MODULE AtLeastOnce ----------------------------
(***************************************************************************)
(* What a queue and its consumer together promise whoever publishes a       *)
(* message (queues/base.py, lines 4-7, and workers/dispatcher.py, lines     *)
(* 3-4): the message is owed until the work it asks for is done or until it *)
(* is parked for a human, and once it is no longer owed it never comes      *)
(* back.  Nothing is said of claims, attempts, containers or crashes.       *)
(***************************************************************************)
EXTENDS FiniteSets

CONSTANTS
    Items,       \* the messages
    Needs,       \* Needs[m]: the pieces of work m asks for
    Workable     \* the messages whose work can be done at all

VARIABLES
    unsent,      \* messages not published yet
    owed,        \* messages somebody still has to see to
    parked,      \* messages that were dead-lettered
    worked       \* pieces of work that have been done

ledger == <<unsent, owed, parked, worked>>

Init ==
    /\ owed = Items \ unsent
    /\ unsent \subseteq Items
    /\ parked = {}
    /\ worked = {}

Publish(m) ==
    /\ m \in unsent
    /\ unsent' = unsent \ {m}
    /\ owed' = owed \cup {m}
    /\ UNCHANGED parked

(* The message is done with: all it asked for has been worked off. *)
Finish(m) ==
    /\ m \in owed \cap Workable
    /\ Needs[m] \subseteq worked'
    /\ owed' = owed \ {m}
    /\ UNCHANGED <<unsent, parked>>

(* The message is given up on.  A consumer that took too long may park one  *)
(* that another has been given meanwhile, which then stays owed.            *)
Park(m) ==
    /\ parked' = parked \cup {m}
    /\ owed' \in {owed, owed \ {m}}
    /\ UNCHANGED unsent

(* Work is done at any time, by anyone, whoever it was given to. *)
Next ==
    /\ worked \subseteq worked'
    /\ \/ \E m \in Items : Publish(m) \/ Finish(m) \/ Park(m)
       \/ UNCHANGED <<unsent, owed, parked>>

Spec == Init /\ [][Next]_ledger

=============================================================================
