------------------------------ MODULE ProcoreSync ------------------------------
(***************************************************************************)
(* The connection of an organization to Procore and what runs over it      *)
(* (services/procore_client.py, services/procore_sync.py,                  *)
(* models/procore.py, blueprints/procore/routes.py).                       *)
(*                                                                         *)
(* A request loads the row of its connection once and again after each of  *)
(* its commits, and writes the columns it has assigned.  It is split at    *)
(* every call of Procore and at every commit.  A token may have expired    *)
(* whenever one looks, since calls take their time.                        *)
(*                                                                         *)
(* Procore is external: refresh tokens rotate, so each opens the next one  *)
(* of its chain once; a listing is served page by page as it is then.      *)
(* Scopes are edited by ScopeLifecycle and ItemTree; the one here belongs  *)
(* to a linked project.  Fields of projects other than their Procore id,   *)
(* and which of its companies an organization has chosen, are left out.    *)
(***************************************************************************)
EXTENDS Naturals, Sequences, FiniteSets, SequencesExt

CONSTANTS
  Requests,    (* requests in progress                                     *)
  Grants,      (* bound: authorizations ever given by a person             *)
  Ids,         (* Procore's projects and bid packages                      *)
  Listings,    (* what Procore lists at the start, by list                 *)
  PerPage,     (* MAX_PER_PAGE                                             *)
  MaxPages,    (* MAX_PAGES                                                *)
  MaxTokens,   (* bound: tokens ever issued, by chain                      *)
  MaxChanges,  (* bound: changes of the listings                           *)
  MaxEdits,    (* bound: edits of the scope                                *)
  MaxVersion,  (* bound: row_version of the scope                          *)
  None

Service == "client_credentials"
Person == "authorization_code"
Chains == Grants \union {Service}
Lists == DOMAIN Listings

ASSUME ProcoreAssumption ==
  /\ Service \notin Grants /\ None \notin Grants \union Ids
  /\ "projects" \in Lists /\ Lists \subseteq Ids \union {"projects"}
  /\ Listings \in [Lists -> Seq(Ids)] /\ \A l \in Lists : IsInjective(Listings[l])
  /\ PerPage \in Nat \ {0} /\ MaxPages \in Nat \ {0}
  /\ MaxTokens \in [Chains -> Nat] /\ MaxChanges \in Nat
  /\ MaxEdits \in Nat /\ MaxVersion \in Nat

VARIABLES
  conn,      (* the row of table procore_connections                       *)
  current,   (* Procore: the newest token of each chain, 0 before          *)
  remote,    (* Procore: the listings                                      *)
  local,     (* rows of projects and bid_packages by list and Procore id   *)
  scope,     (* the row of table scopes                                    *)
  req,       (* the requests                                               *)
  lost,      (* history: chains whose newest token went astray             *)
  overlapped,(* history: the last disconnection met another request        *)
  changes    (* bound                                                      *)

vars == <<conn, current, remote, local, scope, req, lost, overlapped, changes>>

\* The access and the refresh token of one answer have the same number.
Tokens == Chains \X Nat

Row ==
  [exists : BOOLEAN, grant : {Person, Service}, active : BOOLEAN,
   access : Tokens \union {None}, refresh : Tokens \union {None}, error : BOOLEAN]

NoRow == [exists |-> FALSE, grant |-> Person, active |-> TRUE,
          access |-> None, refresh |-> None, error |-> FALSE]

\* The row with its lines; `synced` is a history, the content attached last.
ScopeRow == [content : Nat, version : Nat, synced : Nat \union {None}]

ASSUME NoneAssumption ==
  None \notin Row /\ None \notin Tokens /\ None \notin Nat /\ None \notin ScopeRow

(* `row` is the connection as loaded, None before, and `to` what the session
   makes of it; `then` where a refresh leads; `left` the further calls; `known`
   the ids found here; `seen` the scope as loaded, None once a commit has expired
   it, and `doc` the content rendered.  Histories: `moved` the listing changed since its first page, `raced`
   another sync wrote since `known` was read, `quiet` the scope was edited
   without its row, `reloaded` its row was loaded after the rendering. *)
Request ==
  [op : {"idle", "index", "callback", "service", "disconnect", "sync", "push"},
   at : {"idle", "exchange", "token", "check", "send", "answered", "apply", "merge", "touch",
         "render", "record", "commit", "done", "failed"},
   row : Row \union {None}, to : Row \union {None}, then : {"check", "send"},
   retried : BOOLEAN, left : Nat, list : Lists \union {None}, flat : BOOLEAN,
   got : Seq(Ids), page : Nat, known : SUBSET Ids, moved : BOOLEAN, raced : BOOLEAN,
   doc : Nat \union {None}, seen : ScopeRow \union {None}, quiet : BOOLEAN, reloaded : BOOLEAN]

Idle ==
  [op |-> "idle", at |-> "idle", row |-> None, to |-> None, then |-> "check",
   retried |-> FALSE, left |-> 0, list |-> None, flat |-> FALSE, got |-> <<>>, page |-> 1,
   known |-> {}, moved |-> FALSE, raced |-> FALSE, doc |-> None, seen |-> None,
   quiet |-> FALSE, reloaded |-> FALSE]

TypeOK ==
  /\ conn \in Row
  /\ current \in [Chains -> Nat]
  /\ remote \in [Lists -> Seq(Ids)] /\ local \in [Lists -> [Ids -> Nat]]
  /\ scope \in ScopeRow
  /\ req \in [Requests -> Request]
  /\ lost \subseteq Chains /\ overlapped \in BOOLEAN /\ changes \in Nat

Init ==
  /\ conn = NoRow
  /\ current = [c \in Chains |-> 0]
  /\ remote = Listings
  /\ local = [l \in Lists |-> [i \in Ids |-> 0]]
  /\ scope = [content |-> 0, version |-> 0, synced |-> None]
  /\ req = [r \in Requests |-> Idle]
  /\ lost = {} /\ overlapped = FALSE /\ changes = 0

-----------------------------------------------------------------------------
(* The row in a session. *)

Loaded(x) == IF x.row = None THEN [x EXCEPT !.row = conn, !.to = conn] ELSE x

Written(x) ==
  IF x.row.exists THEN [c \in DOMAIN conn |-> IF x.to[c] # x.row[c] THEN x.to[c] ELSE conn[c]]
  ELSE x.to

\* An organization has one row.
Conflict(x) == ~x.row.exists /\ conn.exists

\* Mutant: the refresh token of a connection is never replaced.
ApplyTokenResponseKeeps(row, t) ==
  [row EXCEPT !.access = t, !.error = FALSE, !.refresh = IF @ = None THEN t ELSE @]

\* A service account is answered without a refresh token.
ApplyTokenResponse(row, t) ==
  [row EXCEPT !.access = t, !.error = FALSE, !.refresh = IF t[1] = Service THEN @ ELSE t]

\* Mutant: the refresh token stays.
DisconnectHalf(row) == [row EXCEPT !.access = None, !.active = FALSE]

Disconnect(row) == [row EXCEPT !.access = None, !.refresh = None, !.active = FALSE]

\* Active, with a token that has not expired or may be refreshed.
IsConnected(row) == row.active /\ row.access # None

\* The request has a new token which is not in the table.
Holds(x) == x.row # None /\ x.to.refresh # x.row.refresh /\ x.to.refresh # None

Unchanged == UNCHANGED <<conn, current, remote, local, scope, overlapped, changes>>

-----------------------------------------------------------------------------
(* Requests arrive. *)

Submit(r, x) ==
  /\ req[r].op = "idle" /\ req' = [req EXCEPT ![r] = x]
  /\ UNCHANGED <<conn, current, remote, local, scope, lost, overlapped, changes>>

Connected(op) == [Idle EXCEPT !.op = op, !.at = "check", !.row = conn, !.to = conn]

\* The settings page asks for the person and the companies.
SubmitIndex(r) == IsConnected(conn) /\ Submit(r, [Connected("index") EXCEPT !.left = 1])

Here(l) == {i \in Ids : local[l][i] > 0}

\* All projects, or the bid packages of a project that is here.
SubmitSync(r) ==
  /\ IsConnected(conn)
  /\ \E l \in {"projects"} \union (Lists \intersect Here("projects")) :
       Submit(r, [Connected("sync") EXCEPT !.list = l])

\* The scope is loaded with its lines before Procore is asked anything.
SubmitPush(r) ==
  IsConnected(conn) /\ Submit(r, [Connected("push") EXCEPT !.seen = scope])

\* Procore sends the person back with a code.
SubmitCallback(r) ==
  Submit(r, [Idle EXCEPT
    !.op = "callback", !.at = "exchange", !.row = conn, !.left = 1,
    !.to = [conn EXCEPT !.exists = TRUE, !.grant = Person, !.active = TRUE]])

SubmitService(r) ==
  Submit(r, [Idle EXCEPT
    !.op = "service", !.at = "token", !.row = conn,
    !.to = [conn EXCEPT !.exists = TRUE, !.grant = Service, !.active = TRUE]])

SubmitDisconnect(r) ==
  conn.exists /\ Submit(r, [Idle EXCEPT !.op = "disconnect", !.at = "commit", !.row = conn,
                                        !.to = Disconnect(conn)])

-----------------------------------------------------------------------------
(* Tokens. *)

Issued(c) ==
  /\ current[c] < MaxTokens[c]
  /\ current' = [current EXCEPT ![c] = @ + 1]

ExchangeCode(r) ==
  LET x == req[r]
  IN /\ x.at = "exchange"
     /\ \E g \in Grants :
          /\ current[g] = 0 /\ Issued(g)
          /\ req' = [req EXCEPT ![r] =
                       [x EXCEPT !.at = "check", !.to = ApplyTokenResponse(x.to, <<g, 1>>)]]
     /\ UNCHANGED <<conn, remote, local, scope, lost, overlapped, changes>>

\* The chain that the request asks for a token, if Procore accepts that.
Asked(x) ==
  IF x.to.grant = Service THEN {Service}
  ELSE {c \in Grants : x.to.refresh # None /\ x.to.refresh = <<c, current[c]>>}

Over(x, at) == [Idle EXCEPT !.op = x.op, !.at = at]

\* Over with an error, which the settings page alone writes down.
Failed(x) ==
  IF x.op = "index" THEN [x EXCEPT !.at = "commit", !.to.error = TRUE] ELSE Over(x, "failed")

\* Procore has accepted: the answer arrives, or does not.
Refresh(r, then, again) ==
  LET x == Loaded(req[r])
  IN /\ \E c \in Asked(x) :
          /\ Issued(c)
          /\ \/ /\ req' = [req EXCEPT ![r] =
                             [x EXCEPT !.at = "answered", !.then = then, !.retried = again,
                                       !.to = ApplyTokenResponse(x.to, <<c, current[c] + 1>>)]]
                /\ UNCHANGED lost
             \/ /\ req' = [req EXCEPT ![r] = Failed(x)]
                /\ lost' = lost \union {c}
     /\ UNCHANGED <<conn, remote, local, scope, overlapped, changes>>

Mint(r) == req[r].at = "token" /\ Refresh(r, "check", FALSE)

\* ensure_token(): the call follows.
RefreshExpired(r) == req[r].at = "check" /\ Refresh(r, "send", req[r].retried)

CanCall(r) == req[r].at \in {"check", "send"} /\ Loaded(req[r]).to.access # None

\* The call is made once more.
RefreshOn401(r) == CanCall(r) /\ ~req[r].retried /\ Refresh(r, "check", TRUE)

\* Refused, out of reach, or out of tokens.
Fail(r) ==
  /\ req[r].at \in {"exchange", "token", "check", "send"}
  /\ req' = [req EXCEPT ![r] = Failed(Loaded(req[r]))]
  /\ lost' = IF Holds(req[r]) THEN lost \union {req[r].to.refresh[1]} ELSE lost
  /\ Unchanged

\* The request is over and its uncommitted work is gone.
End(r) ==
  /\ req' = [req EXCEPT ![r] = Idle]
  /\ lost' = IF Holds(req[r]) THEN lost \union {req[r].to.refresh[1]} ELSE lost
  /\ Unchanged

\* The refreshed token is committed, with all that the session has assigned.
Store(r) ==
  LET x == req[r]
  IN /\ x.at = "answered" /\ ~Conflict(x)
     /\ conn' = Written(x)
     /\ req' = [req EXCEPT ![r] =
                  [x EXCEPT !.at = x.then, !.row = None, !.to = None, !.seen = None,
                            !.reloaded = (x.doc # None)]]
     /\ UNCHANGED <<current, remote, local, scope, lost, overlapped, changes>>

Stale(x) == \E c \in {"grant", "active", "access", "refresh"} : conn[c] # x.row[c]

Commit(r) ==
  LET x == Loaded(req[r])
  IN /\ x.at = "commit" /\ ~Conflict(x)
     /\ conn' = Written(x)
     /\ overlapped' = IF x.op # "disconnect" THEN overlapped
                      ELSE Stale(x) \/ \E q \in Requests \ {r} : req[q].op # "idle"
     /\ req' = [req EXCEPT ![r] = Over(x, "done")]
     /\ UNCHANGED <<current, remote, local, scope, lost, changes>>

\* The second row of an organization, or its process dies.
Refuse(r) == req[r].at \in {"answered", "commit"} /\ Conflict(Loaded(req[r])) /\ End(r)

Die(r) == req[r].at \notin {"idle", "done", "failed"} /\ End(r)

Respond(r) == req[r].at \in {"done", "failed"} /\ End(r)

-----------------------------------------------------------------------------
(* Calls that are answered. *)

\* On to the next call of the request.
NextCall(x) == [x EXCEPT !.at = "check", !.retried = FALSE]

\* me(), companies().
Identify(r) ==
  /\ CanCall(r) /\ req[r].op \in {"index", "callback", "service"}
  /\ LET x == Loaded(req[r])
     IN req' = [req EXCEPT ![r] =
                  IF x.left > 0 THEN [NextCall(x) EXCEPT !.left = @ - 1]
                  ELSE IF x.op = "index" THEN Over(x, "done") ELSE [x EXCEPT !.at = "commit"]]
  /\ UNCHANGED lost /\ Unchanged

\* Mutant: a page begins with the last record of the one before.
FirstOfOverlap(page) == (page - 1) * PerPage + (IF page > 1 THEN 0 ELSE 1)

FirstOf(page) == (page - 1) * PerPage + 1

UpTo(l, n) == IF n <= Len(remote[l]) THEN n ELSE Len(remote[l])

Batch(l, page) == SubSeq(remote[l], FirstOf(page), UpTo(l, page * PerPage))

\* Mutant: a full page ends the listing if it is as long as the others.
GoesOnNever(batch, page) == Len(batch) > PerPage

GoesOn(batch, page) == Len(batch) = PerPage /\ page < MaxPages

\* paginated()
FetchPage(r) ==
  /\ CanCall(r) /\ req[r].op = "sync"
  /\ LET x == Loaded(req[r])
         batch == Batch(x.list, x.page)
     IN req' = [req EXCEPT ![r] =
                  IF GoesOn(batch, x.page)
                  THEN [NextCall(x) EXCEPT !.got = @ \o batch, !.page = @ + 1]
                  ELSE [x EXCEPT !.at = "apply", !.got = @ \o batch]]
  /\ UNCHANGED lost /\ Unchanged

\* The other endpoint of bid_packages().
FallBack(r) ==
  /\ CanCall(r) /\ req[r].op = "sync" /\ req[r].list # "projects" /\ ~req[r].flat
  /\ req' = [req EXCEPT ![r] = [NextCall(Loaded(@)) EXCEPT !.flat = TRUE, !.got = <<>>,
                                                           !.page = 1, !.moved = FALSE]]
  /\ UNCHANGED lost /\ Unchanged

\* What is rendered is what was loaded, or is loaded now if a commit expired it.
Render(r) ==
  LET x == req[r]
      seen == IF x.seen = None THEN scope ELSE x.seen
  IN /\ x.at = "render"
     /\ req' = [req EXCEPT ![r] = [NextCall(x) EXCEPT !.doc = seen.content, !.seen = seen]]
     /\ UNCHANGED lost /\ Unchanged

\* commitments(), then upload_commitment_attachment().
Push(r) ==
  /\ CanCall(r) /\ req[r].op = "push"
  /\ LET x == Loaded(req[r])
     IN req' = [req EXCEPT ![r] = [x EXCEPT !.at = IF x.doc = None THEN "render" ELSE "record"]]
  /\ UNCHANGED lost /\ Unchanged

-----------------------------------------------------------------------------
(* What is written here. *)

ReadRows(r) ==
  /\ req[r].at = "apply"
  /\ req' = [req EXCEPT ![r].at = "merge", ![r].known = Here(req[r].list)]
  /\ UNCHANGED lost /\ Unchanged

\* sync_projects(), sync_bid_packages(): what is known is updated in place.
WriteRows(r) ==
  LET x == req[r]
      new(i) == IF i \in x.known THEN 0 ELSE Cardinality({n \in DOMAIN x.got : x.got[n] = i})
  IN /\ x.at = "merge"
     /\ local' = [local EXCEPT ![x.list] = [i \in Ids |-> @[i] + new(i)]]
     /\ req' = [q \in Requests |->
                  IF q = r THEN IF x.list = "projects" THEN [x EXCEPT !.at = "touch"]
                                ELSE Over(x, "done")
                  ELSE IF req[q].at = "merge" /\ req[q].list = x.list
                       THEN [req[q] EXCEPT !.raced = TRUE] ELSE req[q]]
     /\ UNCHANGED <<conn, current, remote, scope, lost, overlapped, changes>>

TouchConnection(r) ==
  /\ req[r].at = "touch"
  /\ conn' = [conn EXCEPT !.error = FALSE]
  /\ req' = [req EXCEPT ![r] = Over(@, "done")]
  /\ UNCHANGED <<current, remote, local, scope, lost, overlapped, changes>>

\* Mutant: the row is written whatever its version.
CurrentVersionAny(x) == TRUE

CurrentVersion(x) == x.seen = None \/ x.seen.version = scope.version

\* push_scope(): the scope is written under its version, or the request fails.
Record(r) ==
  LET x == req[r]
  IN /\ x.at = "record" /\ scope.version < MaxVersion
     /\ IF CurrentVersion(x)
        THEN /\ scope' = [scope EXCEPT !.version = @ + 1, !.synced = x.doc]
             /\ req' = [req EXCEPT ![r] = Over(x, "done")]
        ELSE /\ req' = [req EXCEPT ![r] = Idle]
             /\ UNCHANGED scope
     /\ UNCHANGED <<conn, current, remote, local, lost, overlapped, changes>>

\* By the person who edited it last, a line is edited without the scope's row.
EditScope(quiet) ==
  /\ scope.content < MaxEdits /\ scope.version < MaxVersion
  /\ scope' = [scope EXCEPT !.content = @ + 1, !.version = IF quiet THEN @ ELSE @ + 1]
  /\ req' = [r \in Requests |-> IF req[r].op = "push" /\ quiet
                                THEN [req[r] EXCEPT !.quiet = TRUE] ELSE req[r]]
  /\ UNCHANGED <<conn, current, remote, local, lost, overlapped, changes>>

\* The request has asked for a page.
Reads(x) == x.got # <<>> \/ x.at \in {"apply", "merge"}

\* Procore's people work on, too.
ChangeListing(l) ==
  /\ changes < MaxChanges /\ changes' = changes + 1
  /\ \/ \E i \in Ids \ ToSet(remote[l]) : remote' = [remote EXCEPT ![l] = <<i>> \o @]
     \/ remote[l] # <<>> /\ remote' = [remote EXCEPT ![l] = Tail(@)]
  /\ req' = [r \in Requests |-> IF req[r].list = l /\ Reads(req[r])
                                THEN [req[r] EXCEPT !.moved = TRUE] ELSE req[r]]
  /\ UNCHANGED <<conn, current, local, scope, lost, overlapped>>

Next ==
  \/ \E r \in Requests :
       \/ SubmitIndex(r) \/ SubmitSync(r) \/ SubmitPush(r)
       \/ SubmitCallback(r) \/ SubmitService(r) \/ SubmitDisconnect(r)
       \/ ExchangeCode(r) \/ Mint(r) \/ RefreshExpired(r) \/ RefreshOn401(r)
       \/ Fail(r) \/ Store(r) \/ Commit(r) \/ Refuse(r) \/ Die(r) \/ Respond(r)
       \/ Identify(r) \/ FetchPage(r) \/ FallBack(r) \/ Render(r) \/ Push(r)
       \/ ReadRows(r) \/ WriteRows(r) \/ TouchConnection(r) \/ Record(r)
  \/ \E quiet \in BOOLEAN : EditScope(quiet)
  \/ \E l \in Lists : ChangeListing(l)

Spec == Init /\ [][Next]_vars

-----------------------------------------------------------------------------
(* Properties. *)

\* The program does not lose a connection it has: while a person's connection is
\* active, the stored refresh token is the one Procore will accept, unless a
\* request that has the next one is about to store it, that answer was lost on
\* the way or with its process, or a disconnection met another request
\* (ensure_token, request, apply_token_response).
ChainKept ==
  conn.active /\ conn.grant = Person /\ conn.access # None =>
    IF conn.refresh = None THEN overlapped
    ELSE LET newest == <<conn.refresh[1], current[conn.refresh[1]]>>
         IN \/ conn.refresh = newest \/ newest[1] \in lost
            \/ \E r \in Requests : Holds(req[r]) /\ req[r].to.refresh = newest

\* A connection that was given up holds no token, unless another request was in
\* progress or had written meanwhile (disconnect).
ForgottenOnDisconnect ==
  ~conn.active => overlapped \/ (conn.access = None /\ conn.refresh = None)

Wrote(r, l) ==
  /\ req[r].at = "merge" /\ req[r].list = l
  /\ req'[r].at \in {"touch", "done"}

\* A sync makes no second project or bid package for a Procore record, unless the
\* listing changed since its first page or another sync wrote since it looked
\* (sync_projects, sync_bid_packages, paginated).
ImportedOnce ==
  [][\A r \in Requests, l \in Lists :
       Wrote(r, l) /\ ~req[r].moved /\ ~req[r].raced
         => \A i \in Ids : local[l][i] <= 1 => local'[l][i] <= 1]_vars

\* A sync misses nothing of a listing that stays as it was at its first page, up to
\* MAX_PAGES pages (paginated, sync_projects, sync_bid_packages).
ImportedAll ==
  [][\A r \in Requests, l \in Lists :
       Wrote(r, l) /\ ~req[r].moved =>
         ToSet(SubSeq(remote[l], 1, UpTo(l, MaxPages * PerPage))) \subseteq Here(l)']_vars

\* A scope that is marked as attached is so with its present content, unless it
\* was edited without its row, or the row was read again after the rendering
\* because a refreshed token was committed (push_scope).
AttachedIsCurrent ==
  [][\A r \in Requests :
       req[r].at = "record" /\ req'[r].at = "done" /\ req[r].doc # scope.content
         => req[r].quiet \/ req[r].reloaded]_vars

\* docs/integrations.md:64, "Any integration failure is recorded against the
\* connection and shown on the Procore settings page, so a sync that has been
\* quietly failing for a week is visible": a sync of a connected organization
\* that Procore refuses leaves the error in the connection's row.
FailuresRecorded ==
  [][\A r \in Requests :
       req[r].op = "sync" /\ conn.exists /\ req[r].at # "failed" /\ req'[r].at = "failed"
         => conn'.error]_vars
=============================================================================
