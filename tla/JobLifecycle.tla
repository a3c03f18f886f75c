----------------------------- MODULE JobLifecycle -----------------------------
(***************************************************************************)
(* What the render queue promises of one row of render_jobs: a job is      *)
(* queued, is run by one worker at a time, is handed out at most           *)
(* MAX_ATTEMPTS times, and once complete or failed it stays so until it is *)
(* purged.  An inline render inserts its row already running and never     *)
(* puts it in the queue.                                                   *)
(***************************************************************************)
EXTENDS Naturals

CONSTANTS Jobs, MAX_ATTEMPTS

VARIABLES phase, tries

Phases == {"new", "queued", "running", "complete", "failed", "gone"}

Init ==
  /\ phase = [j \in Jobs |-> "new"]
  /\ tries = [j \in Jobs |-> 0]

Insert(j) == phase[j] = "new" /\ phase'[j] \in {"queued", "running"} /\ tries'[j] = 0

Take(j) ==
  /\ phase[j] = "queued"
  /\ phase'[j] = "running"
  /\ tries[j] < MAX_ATTEMPTS
  /\ tries'[j] = tries[j] + 1

End(j) == phase[j] = "running" /\ phase'[j] \in {"complete", "failed"} /\ tries'[j] = tries[j]

(* The worker died: back in the queue while attempts are left. *)
GiveBack(j) ==
  /\ phase[j] = "running"
  /\ phase'[j] = "queued"
  /\ tries[j] \in 1..(MAX_ATTEMPTS - 1)
  /\ tries'[j] = tries[j]

Remove(j) == phase[j] # "new" /\ phase'[j] = "gone" /\ tries'[j] = 0

JobStep(j) ==
  \/ Insert(j) \/ Take(j) \/ End(j) \/ GiveBack(j) \/ Remove(j)
  \/ phase'[j] = phase[j] /\ tries'[j] = tries[j]

(* One commit may move several rows, each by a legal step. *)
Next ==
  /\ phase' \in [Jobs -> Phases]
  /\ tries' \in [Jobs -> Nat]
  /\ \A j \in Jobs : JobStep(j)

Spec == Init /\ [][Next]_<<phase, tries>>
=============================================================================
