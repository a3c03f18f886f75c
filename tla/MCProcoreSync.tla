---------------------------- MODULE MCProcoreSync ----------------------------
(* Two requests over one connection: a project and its bid package are listed,
   one per page. *)
EXTENDS ProcoreSync, TLC

CONSTANTS g1, tower, annex, package

MCListings == "projects" :> <<tower>> @@ tower :> <<package>>

MCMaxTokens == g1 :> 2 @@ Service :> 1

Symmetry == Permutations(Requests)

Only(ops) == \A r \in Requests : req[r].op \in {"idle"} \union ops

(* A sync and a push meet in the connection alone, as two of either do: once
   projects are here or the scope is edited, only those are in progress, over a
   connection that a person has made without accidents.  Procore's projects come
   and go, its packages stay. *)
Quiet == conn.grant = Person /\ lost = {} /\ ~overlapped

Bounded ==
  /\ Here("projects") # {} \/ remote # Listings => Quiet /\ Only({"sync"})
  /\ scope # [content |-> 0, version |-> 0, synced |-> None] => Quiet /\ Only({"push"})
  /\ (\E r \in Requests : req[r].op = "sync") => Only({"sync", "callback", "service", "disconnect"})
  /\ remote[tower] = Listings[tower] /\ package \notin ToSet(remote["projects"])
=============================================================================
