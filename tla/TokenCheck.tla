------------------------------ MODULE TokenCheck ------------------------------
(***************************************************************************)
(* What the JSON API promises of its bearer tokens: a call is let in if    *)
(* the presented token is valid when its row is read and the organization  *)
(* has nothing against its owner when the policy is read.  Nothing is      *)
(* remembered from one call to the next.                                   *)
(***************************************************************************)
CONSTANTS Tokens, Raws, Calls, None

VARIABLES
  token,    (* table api_tokens                                            *)
  strict,   (* the organization requires two-factor authentication         *)
  mfa,      (* the owner of the tokens has it                              *)
  raw,      (* what each call presents                                     *)
  verdict   (* where each call stands                                      *)

vars == <<token, strict, mfa, raw, verdict>>

(* The rows that stand behind a presented token, and that are valid. *)
Behind(r) == {t \in Tokens : token[t].hash = r /\ token[t].state = "live" /\ ~token[t].expired}

Permitted == ~strict \/ mfa

Init ==
  /\ token = [t \in Tokens |->
                [state |-> "none", hash |-> None, expired |-> FALSE, recent |-> FALSE]]
  /\ strict \in BOOLEAN /\ mfa \in BOOLEAN
  /\ raw = [c \in Calls |-> None]
  /\ verdict = [c \in Calls |-> "none"]

(* Administrators and time change the rows and the policy; a token that has
   lost its validity never gets it back. *)
Elsewhere ==
  /\ \A t \in Tokens : token[t].state # "none" =>
       /\ token'[t].hash = token[t].hash
       /\ token[t].state # "live" => token'[t].state # "live"
       /\ token[t].expired => token'[t].expired
  /\ UNCHANGED <<raw, verdict>>

Ask(c) ==
  /\ verdict[c] = "none"
  /\ \E r \in Raws : raw' = [raw EXCEPT ![c] = r]
  /\ verdict' = [verdict EXCEPT ![c] = "open"]
  /\ UNCHANGED <<token, strict, mfa>>

Check(c) ==
  /\ verdict[c] = "open"
  /\ verdict' = [verdict EXCEPT ![c] = IF Behind(raw[c]) # {} THEN "valid" ELSE "refused"]
  /\ UNCHANGED <<token, strict, mfa, raw>>

(* Nothing is held against a call whose token is deleted under it. *)
Decide(c) ==
  /\ verdict[c] = "valid"
  /\ \/ Permitted /\ verdict' = [verdict EXCEPT ![c] = "served"]
     \/ ~Permitted /\ verdict' = [verdict EXCEPT ![c] = "refused"]
     \/ (\E t \in Tokens : token[t].hash = raw[c] /\ token[t].state = "deleted")
          /\ \E v \in {"served", "failed"} : verdict' = [verdict EXCEPT ![c] = v]
  /\ UNCHANGED <<token, strict, mfa, raw>>

(* Answered, or their process died. *)
End(C) ==
  /\ raw' = [c \in Calls |-> IF c \in C THEN None ELSE raw[c]]
  /\ verdict' = [c \in Calls |-> IF c \in C THEN "none" ELSE verdict[c]]
  /\ UNCHANGED <<token, strict, mfa>>

Next ==
  \/ Elsewhere
  \/ \E c \in Calls : Ask(c) \/ Check(c) \/ Decide(c)
  \/ \E C \in SUBSET Calls : End(C)

Spec == Init /\ [][Next]_vars
=============================================================================
