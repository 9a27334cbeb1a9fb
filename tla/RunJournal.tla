----------------------------- MODULE RunJournal ------------------------------
(***************************************************************************)
(* What run attribution promises when every successful poll reports the    *)
(* process start time: each successful poll joins the run of the poll      *)
(* before it exactly when the process has not changed, opens a run no      *)
(* remembered poll is in otherwise, and carries a restart event exactly    *)
(* when there was a poll before it and the process has changed.            *)
(* Crashes of StatLite, failed transactions and orphaned app_runs rows are *)
(* invisible here.  Retention prunes the oldest entries; what the monitor  *)
(* compares with is forgotten only once nothing stored remembers it.       *)
(***************************************************************************)
EXTENDS Naturals

CONSTANTS Starts,  \* process start times
          Runs,    \* app run ids
          Ids      \* poll ids

VARIABLES journal, \* poll id -> [start, run, restart], the successful polls
          last     \* the observation the next one is compared with

Nothing == [start |-> 0, run |-> 0]
Entry(start, run, restart) == [start |-> start, run |-> run, restart |-> restart]

Init == journal = <<>> /\ last = Nothing

\* The next observation is last', and its entry is the newest.
Append(id) ==
  /\ id \in Ids /\ \A i \in DOMAIN journal : i < id
  /\ last' \in [start : Starts, run : Runs]
  /\ IF last'.start = last.start
       THEN last'.run = last.run
       ELSE last'.run # last.run /\ \A i \in DOMAIN journal : journal[i].run # last'.run
  /\ journal' = [i \in DOMAIN journal \cup {id} |->
                   IF i = id
                     THEN Entry(last'.start, last'.run,
                                last # Nothing /\ last'.start # last.start)
                     ELSE journal[i]]

Prune(keep) ==
  /\ keep # DOMAIN journal
  /\ \A i \in DOMAIN journal \ keep, j \in keep : i < j
  /\ journal' = [i \in keep |-> journal[i]]
  /\ UNCHANGED last \/ (keep = {} /\ last' = Nothing)

Forget == journal = <<>> /\ last' = Nothing /\ UNCHANGED journal

Next ==
  \/ \E id \in DOMAIN journal' : Append(id)
  \/ \E keep \in SUBSET DOMAIN journal : Prune(keep)
  \/ Forget

Spec == Init /\ [][Next]_<<journal, last>>
=============================================================================
