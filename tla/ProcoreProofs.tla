---------------------------- MODULE ProcoreProofs ----------------------------
(***************************************************************************)
(* Theorems about ProcoreSync, for any number of requests, grants and      *)
(* records, whatever is listed.                                            *)
(*                                                                         *)
(* That a chain is kept rests on a token being in one place until it is    *)
(* stored (Alone): the request that holds the newest token of a chain is   *)
(* the only one that does, so no other can use it up.  That a connection   *)
(* is forgotten rests on what a session can still bring back once it is    *)
(* given up (GivenUp, Unlinked).                                           *)
(*                                                                         *)
(* What a sync imports rests on what it has read so far being the          *)
(* beginning of the listing, unless that has changed (Listed).             *)
(***************************************************************************)
EXTENDS ProcoreSync, SequenceTheorems, FiniteSetTheorems, TLAPS

Live(x) == x.at \notin {"idle", "done", "failed"}

(* Where a request stands, by its kind. *)
Staged(x) ==
  /\ x.row = None <=> x.to = None
  /\ ~Live(x) => x.row = None
  /\ x.at \in {"exchange", "token", "answered"} => x.row # None
  /\ x.at = "exchange" => x.op = "callback" /\ x.to.grant = Person
  /\ x.at = "token" => x.op = "service"
  /\ x.at \in {"apply", "merge", "touch"} => x.op = "sync"
  /\ x.at \in {"render", "record"} => x.op = "push"
  /\ x.at = "record" => x.doc # None
  /\ Live(x) => x.op # "idle"
  /\ Live(x) /\ x.op = "sync" => x.list \in Lists
  /\ Live(x) /\ x.op = "disconnect" =>
       x.at = "commit" /\ x.row # None /\ x.to = Disconnect(x.row)
  /\ x.page >= 1

(* Refresh tokens are a person's, and Procore has issued them. *)
Numbered(row, cur) ==
  row.refresh # None =>
    row.refresh[1] \in Grants /\ row.refresh[2] \in 1..cur[row.refresh[1]]

Pending(x) == x.at = "exchange" \/ Holds(x)

(* What a session makes of the row it has loaded. *)
Sound(x, row, cur) ==
  /\ Live(x) /\ x.row = None => row.exists
  /\ x.row # None =>
       /\ Numbered(x.row, cur) /\ Numbered(x.to, cur)
       /\ x.to.exists /\ (x.row.exists => row.exists)
       /\ x.to.refresh = None => x.row.refresh = None \/ x.op = "disconnect"
       /\ ~x.to.active => ~x.row.active \/ x.op = "disconnect"
       /\ x.to.grant = Person /\ x.row.grant = Service => Pending(x)
       /\ ~x.row.exists => /\ x.row = NoRow
                           /\ \/ x.op = "callback" /\ Pending(x)
                              \/ x.op = "service" /\ x.to.grant = Service
  /\ Holds(x) => /\ x.to.grant = Person
                 /\ x.to.refresh[2] = cur[x.to.refresh[1]]
                 /\ x.at \in {"answered", "check", "commit"}
                 /\ x.at = "answered" \/ x.op = "callback"

(* The token that x holds is nowhere in y. *)
Apart(x, y) ==
  Holds(x) /\ y.row # None => y.row.refresh # x.to.refresh /\ y.to.refresh # x.to.refresh

Alone(row, rq) ==
  \A r \in Requests :
    /\ Holds(rq[r]) => row.refresh # rq[r].to.refresh
    /\ \A q \in Requests \ {r} : Apart(rq[r], rq[q])

Newest(row, cur, lo, rq) ==
  row.refresh # None =>
    \/ row.refresh[2] = cur[row.refresh[1]]
    \/ row.refresh[1] \in lo
    \/ \E r \in Requests : Holds(rq[r]) /\ rq[r].to.refresh[1] = row.refresh[1]

(* Given up, and nobody met: what is in progress makes it active again. *)
GivenUp(row, ov, rq) ==
  ~row.active /\ ~ov =>
    /\ row.access = None /\ row.refresh = None
    /\ \A r \in Requests : Live(rq[r]) =>
         /\ rq[r].row # None /\ rq[r].op \in {"callback", "service", "disconnect"}
         /\ rq[r].op # "disconnect" => ~rq[r].row.active /\ rq[r].to.active

(* A person's, without a token: what is in progress brings one, or is a
   service account's. *)
Unlinked(row, ov, rq) ==
  ~ov /\ row.grant = Person /\ row.refresh = None =>
    /\ row.access = None
    /\ \A r \in Requests : Live(rq[r]) =>
         /\ rq[r].row # None
         /\ \/ rq[r].op = "callback" /\ Pending(rq[r])
            \/ rq[r].op = "service" /\ rq[r].to.grant = Service /\ rq[r].row.grant = Person
            \/ rq[r].op = "disconnect"

Chained(row, cur, lo, ov, rq) ==
  /\ Numbered(row, cur) /\ (~row.exists => row = NoRow)
  /\ \A r \in Requests : Sound(rq[r], row, cur)
  /\ Alone(row, rq) /\ Newest(row, cur, lo, rq)
  /\ GivenUp(row, ov, rq) /\ Unlinked(row, ov, rq)

ChainTypes(row, cur, lo, rq) ==
  /\ row \in Row /\ cur \in [Chains -> Nat] /\ lo \subseteq Chains
  /\ rq \in [Requests -> Request]

(* As far as tokens go, y is over or goes on as x did. *)
Follows(x, y, lo) ==
  \/ ~Live(y) /\ y.row = None /\ (Holds(x) => x.to.refresh[1] \in lo)
  \/ /\ Live(x) /\ Live(y) /\ y.op = x.op /\ y.row = x.row
     /\ y.row # None =>
          /\ y.to # None
          /\ y.to.exists = x.to.exists /\ y.to.grant = x.to.grant /\ y.to.active = x.to.active
          /\ y.to.refresh = x.to.refresh
     /\ x.at = "exchange" => y.at = "exchange"
     /\ Holds(x) => /\ y.at \in {"answered", "check", "commit"}
                    /\ y.at = "answered" \/ y.op = "callback"

(* A request that is about to mark the scope has the row it rendered. *)
Rendered(x, s) ==
  x.op = "push" /\ Live(x) /\ ~x.quiet /\ ~x.reloaded =>
    /\ x.doc # None => x.seen # None
    /\ x.seen # None => /\ x.seen.version <= s.version
                        /\ x.seen.version = s.version => x.seen.content = s.content
                        /\ x.doc # None => x.doc = x.seen.content

IInv ==
  /\ TypeOK
  /\ \A r \in Requests : Staged(req[r]) /\ Rendered(req[r], scope)
  /\ Chained(conn, current, lost, overlapped, req)

-----------------------------------------------------------------------------
(* Rows and requests. *)

LEMMA Nones ==
  /\ None \notin Row /\ None \notin Tokens /\ None \notin Nat /\ None \notin ScopeRow
  /\ Service \notin Grants /\ Service # Person /\ Chains = Grants \union {Service}
BY ProcoreAssumption, NoneAssumption DEF Chains, Service, Person

LEMMA IdleTyped ==
  /\ Idle \in Request /\ Idle.op = "idle" /\ Idle.at = "idle"
  /\ Idle.row = None /\ Idle.to = None /\ Idle.page = 1
  /\ Idle.list = None /\ Idle.doc = None /\ Idle.seen = None /\ Idle.got = <<>>
  /\ ~Idle.quiet /\ ~Idle.reloaded
BY DEF Idle, Request

LEMMA NoRowTyped ==
  /\ NoRow \in Row /\ ~NoRow.exists /\ NoRow.grant = Person /\ NoRow.active
  /\ NoRow.access = None /\ NoRow.refresh = None
BY DEF NoRow, Row, Person, Service

LEMMA RowTyped ==
  ASSUME NEW row \in Row
  PROVE  /\ row # None /\ row.exists \in BOOLEAN /\ row.grant \in {Person, Service}
         /\ row.active \in BOOLEAN /\ row.access \in Tokens \union {None}
         /\ row.refresh \in Tokens \union {None} /\ row.error \in BOOLEAN
         /\ DOMAIN row = {"exists", "grant", "active", "access", "refresh", "error"}
<1>1. row # None
  BY Nones
<1> QED BY <1>1 DEF Row

LEMMA TokenTyped ==
  ASSUME NEW t \in Tokens
  PROVE  t # None /\ t[1] \in Chains /\ t[2] \in Nat /\ t = <<t[1], t[2]>>
<1>1. t # None
  BY Nones
<1> QED BY <1>1 DEF Tokens

LEMMA RequestTyped ==
  ASSUME NEW x \in Request
  PROVE  /\ x.op \in {"idle", "index", "callback", "service", "disconnect", "sync", "push"}
         /\ x.at \in {"idle", "exchange", "token", "check", "send", "answered", "apply",
                      "merge", "touch", "render", "record", "commit", "done", "failed"}
         /\ x.row \in Row \union {None} /\ x.to \in Row \union {None}
         /\ x.list \in Lists \union {None} /\ x.got \in Seq(Ids) /\ x.page \in Nat
         /\ x.known \in SUBSET Ids /\ x.doc \in Nat \union {None}
         /\ x.seen \in ScopeRow \union {None} /\ x.quiet \in BOOLEAN /\ x.reloaded \in BOOLEAN
         /\ x.left \in Nat /\ x.then \in {"check", "send"} /\ x.retried \in BOOLEAN
BY DEF Request

LEMMA LoadedTyped ==
  ASSUME NEW x \in Request, conn \in Row
  PROVE  /\ Loaded(x) \in Request
         /\ Loaded(x).row = (IF x.row = None THEN conn ELSE x.row)
         /\ Loaded(x).to = (IF x.row = None THEN conn ELSE x.to)
         /\ Loaded(x).op = x.op /\ Loaded(x).at = x.at /\ Loaded(x).list = x.list
         /\ Loaded(x).page = x.page /\ Loaded(x).got = x.got /\ Loaded(x).doc = x.doc
         /\ Loaded(x).seen = x.seen /\ Loaded(x).quiet = x.quiet
         /\ Loaded(x).reloaded = x.reloaded /\ Loaded(x).left = x.left
         /\ Loaded(x).then = x.then /\ Loaded(x).retried = x.retried
<1> DEFINE y == [x EXCEPT !.row = conn, !.to = conn]
<1>1. /\ y \in Request /\ y.row = conn /\ y.to = conn
      /\ y.op = x.op /\ y.at = x.at /\ y.list = x.list /\ y.page = x.page /\ y.got = x.got
      /\ y.doc = x.doc /\ y.seen = x.seen /\ y.quiet = x.quiet
      /\ y.reloaded = x.reloaded /\ y.left = x.left /\ y.then = x.then
      /\ y.retried = x.retried
  BY DEF Request
<1>2. Loaded(x) = IF x.row = None THEN y ELSE x
  BY DEF Loaded
<1> HIDE DEF y
<1> QED BY <1>1, <1>2

LEMMA DisconnectTyped ==
  ASSUME NEW row \in Row
  PROVE  /\ Disconnect(row) \in Row /\ ~Disconnect(row).active
         /\ Disconnect(row).access = None /\ Disconnect(row).refresh = None
         /\ Disconnect(row).exists = row.exists /\ Disconnect(row).grant = row.grant
BY DEF Disconnect, Row

LEMMA AnswerTyped ==
  ASSUME NEW row \in Row, NEW t \in Tokens
  PROVE  /\ ApplyTokenResponse(row, t) \in Row
         /\ ApplyTokenResponse(row, t).exists = row.exists
         /\ ApplyTokenResponse(row, t).grant = row.grant
         /\ ApplyTokenResponse(row, t).active = row.active
         /\ ApplyTokenResponse(row, t).refresh = (IF t[1] = Service THEN row.refresh ELSE t)
<1> DEFINE u == IF t[1] = Service THEN row.refresh ELSE t
<1>1. u \in Tokens \union {None}
  BY RowTyped
<1>2. ApplyTokenResponse(row, t) = [row EXCEPT !.access = t, !.error = FALSE, !.refresh = u]
  BY DEF ApplyTokenResponse, Row
<1> HIDE DEF u
<1>3. LET y == [row EXCEPT !.access = t, !.error = FALSE, !.refresh = u]
      IN /\ y \in Row /\ y.exists = row.exists /\ y.grant = row.grant
         /\ y.active = row.active /\ y.refresh = u
  BY <1>1 DEF Row
<1> QED BY <1>2, <1>3 DEF u

(* What is assigned is written; the rest stays as others have left it. *)
LEMMA WrittenTyped ==
  ASSUME NEW x \in Request, conn \in Row, x.row \in Row, x.to \in Row
  PROVE  /\ Written(x) \in Row
         /\ ~x.row.exists => Written(x) = x.to
         /\ x.row.exists =>
              /\ Written(x).exists = (IF x.to.exists # x.row.exists THEN x.to.exists ELSE conn.exists)
              /\ Written(x).grant = (IF x.to.grant # x.row.grant THEN x.to.grant ELSE conn.grant)
              /\ Written(x).active = (IF x.to.active # x.row.active THEN x.to.active ELSE conn.active)
              /\ Written(x).access = (IF x.to.access # x.row.access THEN x.to.access ELSE conn.access)
              /\ Written(x).refresh =
                   (IF x.to.refresh # x.row.refresh THEN x.to.refresh ELSE conn.refresh)
<1> DEFINE a == x.to
           b == x.row
<1>1. a \in Row /\ b \in Row
  OBVIOUS
<1> DEFINE w == [c \in DOMAIN conn |-> IF a[c] # b[c] THEN a[c] ELSE conn[c]]
<1>2. Written(x) = IF b.exists THEN w ELSE a
  BY DEF Written
<1> HIDE DEF a, b
<1>3. w \in Row
  BY <1>1, SMTT(30) DEF Row
<1>4. /\ w.exists = (IF a.exists # b.exists THEN a.exists ELSE conn.exists)
      /\ w.grant = (IF a.grant # b.grant THEN a.grant ELSE conn.grant)
      /\ w.active = (IF a.active # b.active THEN a.active ELSE conn.active)
      /\ w.access = (IF a.access # b.access THEN a.access ELSE conn.access)
      /\ w.refresh = (IF a.refresh # b.refresh THEN a.refresh ELSE conn.refresh)
  BY <1>1, SMTT(30) DEF Row
<1> HIDE DEF w
<1>5. b.exists \in BOOLEAN
  BY <1>1, RowTyped
<1> QED BY <1>1, <1>2, <1>3, <1>4, <1>5 DEF a, b

(* One request goes on. *)
LEMMA RequestMoves ==
  ASSUME req \in [Requests -> Request], NEW r \in Requests,
         NEW y \in Request, req' = [req EXCEPT ![r] = y]
  PROVE  /\ req' \in [Requests -> Request] /\ req'[r] = y
         /\ \A q \in Requests \ {r} : req'[q] = req[q]
OBVIOUS

-----------------------------------------------------------------------------
(* Tokens. *)

(* A request that has a token has loaded the row and goes on. *)
LEMMA HoldsLive ==
  ASSUME NEW x \in Request, Staged(x), Holds(x)
  PROVE  /\ Live(x) /\ x.row \in Row /\ x.to \in Row
         /\ x.to.refresh \in Tokens /\ x.to.refresh # x.row.refresh
BY RequestTyped, RowTyped DEF Staged, Holds

LEMMA LoadKeeps ==
  ASSUME ChainTypes(conn, current, lost, req), NEW r \in Requests, Live(req[r]), Staged(req[r]),
         Chained(conn, current, lost, overlapped, req)
  PROVE  Chained(conn, current, lost, overlapped, [req EXCEPT ![r] = Loaded(req[r])])
<1> DEFINE rq == [req EXCEPT ![r] = Loaded(req[r])]
<1>1. CASE req[r].row # None
  <2>1. Loaded(req[r]) = req[r]
    BY <1>1 DEF Loaded
  <2>2. rq = req
    BY <2>1 DEF ChainTypes
  <2> QED BY <2>2
<1>2. CASE req[r].row = None
  <2> DEFINE y == Loaded(req[r])
  <2>1. /\ y \in Request /\ y.row = conn /\ y.to = conn /\ y.op = req[r].op /\ y.at = req[r].at
        /\ conn \in Row /\ conn # None /\ ~Holds(y) /\ ~Holds(req[r])
    BY <1>2, LoadedTyped, RowTyped DEF ChainTypes, Holds
  <2>2. rq[r] = y /\ \A q \in Requests \ {r} : rq[q] = req[q]
    BY DEF ChainTypes
  <2>3. conn.exists /\ Sound(y, conn, current)
    BY <1>2, <2>1, RowTyped, Nones DEF Chained, Sound
  <2>4. \A q \in Requests : Sound(rq[q], conn, current)
    BY <2>2, <2>3 DEF Chained
  <2>5. Alone(conn, rq)
    BY <2>1, <2>2 DEF Chained, Alone, Apart
  <2>6. Newest(conn, current, lost, rq)
    BY <2>1, <2>2 DEF Chained, Newest
  <2>7. GivenUp(conn, overlapped, rq) /\ Unlinked(conn, overlapped, rq)
    BY <1>2, <2>2 DEF Chained, GivenUp, Unlinked
  <2> QED BY <2>4, <2>5, <2>6, <2>7 DEF Chained
<1> QED BY <1>1, <1>2

(* Requests that go on or end, and a note in the row. *)
LEMMA FollowsKeeps ==
  ASSUME NEW row, NEW row2, NEW cur, NEW lo, NEW lo2, NEW ov, NEW rq, NEW rq2,
         ChainTypes(row, cur, lo, rq), ChainTypes(row2, cur, lo2, rq2), lo \subseteq lo2,
         row2.exists = row.exists, row2.grant = row.grant, row2.active = row.active,
         row2.access = row.access, row2.refresh = row.refresh, ~row2.exists => row2 = NoRow,
         \A q \in Requests : Staged(rq[q]) /\ Staged(rq2[q]) /\ Follows(rq[q], rq2[q], lo2),
         Chained(row, cur, lo, ov, rq)
  PROVE  Chained(row2, cur, lo2, ov, rq2)
<1>1. \A q \in Requests : rq[q] \in Request /\ rq2[q] \in Request
  BY DEF ChainTypes
<1>2. \A q \in Requests : Live(rq2[q]) =>
        /\ Live(rq[q]) /\ rq2[q].op = rq[q].op /\ rq2[q].row = rq[q].row
        /\ rq2[q].row # None =>
             /\ rq2[q].to.exists = rq[q].to.exists /\ rq2[q].to.grant = rq[q].to.grant
             /\ rq2[q].to.active = rq[q].to.active /\ rq2[q].to.refresh = rq[q].to.refresh
        /\ Holds(rq2[q]) <=> Holds(rq[q])
        /\ Pending(rq[q]) => Pending(rq2[q])
  BY <1>1 DEF Follows, Holds, Pending
<1>3. \A q \in Requests : Holds(rq2[q]) => Live(rq2[q]) /\ rq2[q].row # None
  BY <1>1, HoldsLive, RowTyped
<1>4. \A q \in Requests : rq2[q].row # None => Live(rq2[q])
  BY DEF Staged
<1>5. \A q \in Requests : Sound(rq2[q], row2, cur)
  <2> SUFFICES ASSUME NEW q \in Requests PROVE Sound(rq2[q], row2, cur)
    OBVIOUS
  <2>1. CASE Live(rq2[q])
    <3>1. Holds(rq2[q]) => /\ rq2[q].at \in {"answered", "check", "commit"}
                           /\ rq2[q].at = "answered" \/ rq2[q].op = "callback"
      BY <1>2, <2>1 DEF Follows
    <3>2. Sound(rq[q], row, cur)
      BY DEF Chained
    <3>3. Numbered(rq[q].to, cur) /\ rq2[q].row # None => Numbered(rq2[q].to, cur)
      BY <1>2, <2>1 DEF Numbered
    <3> QED BY <1>2, <1>3, <2>1, <3>1, <3>2, <3>3, Zenon DEF Sound
  <2>2. CASE ~Live(rq2[q])
    BY <1>3, <1>4, <2>2 DEF Sound
  <2> QED BY <2>1, <2>2
<1>6. Alone(row2, rq2)
  BY <1>2, <1>3, <1>4 DEF Chained, Alone, Apart
<1>7. Newest(row2, cur, lo2, rq2)
  <2> SUFFICES ASSUME row2.refresh # None, row2.refresh[2] # cur[row2.refresh[1]],
                      row2.refresh[1] \notin lo2
               PROVE  \E q \in Requests : Holds(rq2[q])
                                           /\ rq2[q].to.refresh[1] = row2.refresh[1]
    BY DEF Newest
  <2>1. PICK q \in Requests : Holds(rq[q]) /\ rq[q].to.refresh[1] = row.refresh[1]
    BY DEF Chained, Newest
  <2>2. Live(rq2[q]) /\ Follows(rq[q], rq2[q], lo2)
    BY <2>1 DEF Follows
  <2>3. rq[q].row # None
    BY <1>1, <2>1, HoldsLive, RowTyped
  <2> QED BY <1>2, <2>1, <2>2, <2>3
<1>8. GivenUp(row2, ov, rq2)
  BY <1>2 DEF Chained, GivenUp
<1>9. Unlinked(row2, ov, rq2)
  <2> SUFFICES ASSUME ~ov, row2.grant = Person, row2.refresh = None
               PROVE  Unlinked(row2, ov, rq2)
    BY DEF Unlinked
  <2>1. /\ row.access = None
        /\ \A q \in Requests : Live(rq[q]) =>
             /\ rq[q].row # None
             /\ \/ rq[q].op = "callback" /\ Pending(rq[q])
                \/ rq[q].op = "service" /\ rq[q].to.grant = Service /\ rq[q].row.grant = Person
                \/ rq[q].op = "disconnect"
    BY DEF Chained, Unlinked
  <2> QED BY <1>2, <2>1, Zenon DEF Unlinked
<1>10. Numbered(row2, cur)
  BY DEF Chained, Numbered
<1> QED BY <1>5, <1>6, <1>7, <1>8, <1>9, <1>10 DEF Chained

(* A request begins with the row as it is. *)
LEMMA BeginKeeps ==
  ASSUME ChainTypes(conn, current, lost, req), NEW r \in Requests, ~Live(req[r]),
         \A q \in Requests : Staged(req[q]),
         Chained(conn, current, lost, overlapped, req),
         NEW y \in Request, Live(y), y.row = conn, y.to \in Row,
         y.at \in {"exchange", "token", "check", "commit"},
         \/ /\ y.op \in {"index", "sync", "push"} /\ y.to = conn /\ IsConnected(conn)
         \/ /\ y.op = "callback" /\ y.at = "exchange" /\ y.to.exists /\ y.to.grant = Person
            /\ y.to.active /\ y.to.refresh = conn.refresh
         \/ /\ y.op = "service" /\ y.to.exists /\ y.to.grant = Service
            /\ y.to.active /\ y.to.refresh = conn.refresh
         \/ /\ y.op = "disconnect" /\ conn.exists /\ y.to = Disconnect(conn)
  PROVE  Chained(conn, current, lost, overlapped, [req EXCEPT ![r] = y])
<1> DEFINE rq == [req EXCEPT ![r] = y]
<1>1. rq[r] = y /\ \A q \in Requests \ {r} : rq[q] = req[q]
  BY DEF ChainTypes
<1>2. conn \in Row /\ conn # None /\ req[r] \in Request
  BY RowTyped DEF ChainTypes
<1>3. ~Holds(y) /\ ~Holds(req[r]) /\ Numbered(y.to, current)
  BY <1>2, HoldsLive, DisconnectTyped DEF Holds, Chained, Numbered
<1>4. y.op \in {"index", "sync", "push"} => conn.exists
  BY <1>2, NoRowTyped DEF Chained, IsConnected
<1>5. Sound(y, conn, current)
  BY <1>2, <1>3, <1>4, Nones, NoRowTyped, DisconnectTyped DEF Sound, Chained, Pending
<1>6. Alone(conn, rq)
  <2> SUFFICES ASSUME NEW q \in Requests \ {r} PROVE Apart(req[q], y)
    BY <1>1, <1>3 DEF Chained, Alone, Apart
  <2>1. y.to.refresh \in {conn.refresh, None}
    BY <1>2, DisconnectTyped
  <2> QED BY <2>1 DEF Chained, Alone, Apart, Holds
<1>7. Newest(conn, current, lost, rq)
  BY <1>1, <1>3 DEF Chained, Newest
<1>8. GivenUp(conn, overlapped, rq)
  BY <1>1, <1>2 DEF Chained, GivenUp, IsConnected
<1>9. Unlinked(conn, overlapped, rq)
  BY <1>1, <1>2 DEF Chained, Unlinked, IsConnected, Pending
<1>10. \A q \in Requests : Sound(rq[q], conn, current)
  BY <1>1, <1>5 DEF Chained
<1> HIDE DEF rq
<1>11. Chained(conn, current, lost, overlapped, rq)
  BY <1>6, <1>7, <1>8, <1>9, <1>10 DEF Chained
<1> QED BY <1>11 DEF rq

(* Who presents the newest token of a chain is the only one to hold any. *)
LEMMA NewestAlone ==
  ASSUME NEW row, NEW cur, NEW lo, NEW ov, NEW rq, ChainTypes(row, cur, lo, rq),
         \A q \in Requests : Staged(rq[q]), Chained(row, cur, lo, ov, rq),
         NEW r \in Requests, NEW c \in Grants, rq[r].row # None,
         cur[c] = 0 \/ rq[r].to.refresh = <<c, cur[c]>>
  PROVE  \A q \in Requests \ {r} : Holds(rq[q]) => rq[q].to.refresh[1] # c
<1> SUFFICES ASSUME NEW q \in Requests \ {r}, Holds(rq[q]), rq[q].to.refresh[1] = c
             PROVE  FALSE
  OBVIOUS
<1>1. /\ rq[q].to.refresh \in Tokens /\ rq[q].row # None /\ rq[q].to.refresh # None
      /\ rq[q].to.refresh = <<c, rq[q].to.refresh[2]>>
  BY HoldsLive, TokenTyped, RowTyped DEF ChainTypes
<1>2. rq[q].to.refresh[2] = cur[c] /\ rq[q].to.refresh[2] \in 1..cur[c]
  BY <1>1 DEF Chained, Sound, Numbered
<1>3. rq[r].to.refresh = rq[q].to.refresh
  BY <1>1, <1>2
<1> QED BY <1>3 DEF Chained, Alone, Apart

LEMMA NumberedGrows ==
  ASSUME NEW row \in Row, NEW cur \in [Chains -> Nat], NEW c \in Chains, Numbered(row, cur)
  PROVE  Numbered(row, [cur EXCEPT ![c] = @ + 1])
BY Nones DEF Numbered

(* Procore answers with the next token of a chain. *)
LEMMA IssueKeeps ==
  ASSUME NEW row, NEW cur, NEW lo, NEW ov, NEW rq, ChainTypes(row, cur, lo, rq),
         \A q \in Requests : Staged(rq[q]), Chained(row, cur, lo, ov, rq),
         NEW r \in Requests, NEW c \in Chains, Live(rq[r]), rq[r].row # None,
         NEW y \in Request, y.row = rq[r].row, y.op = rq[r].op, y.to \in Row,
         y.to.exists = rq[r].to.exists, y.to.grant = rq[r].to.grant,
         y.to.active = rq[r].to.active,
         \/ y.at = "answered"
         \/ y.at = "check" /\ y.op = "callback",
         \/ /\ c = Service /\ rq[r].to.grant = Service /\ rq[r].at # "exchange"
            /\ y.to.refresh = rq[r].to.refresh
         \/ /\ c \in Grants /\ rq[r].to.grant = Person /\ y.to.refresh = <<c, cur[c] + 1>>
            /\ \/ cur[c] = 0 /\ rq[r].at = "exchange"
               \/ rq[r].to.refresh = <<c, cur[c]>>
  PROVE  Chained(row, [cur EXCEPT ![c] = @ + 1], lo, ov, [rq EXCEPT ![r] = y])
<1> DEFINE rq2 == [rq EXCEPT ![r] = y]
           cur2 == [cur EXCEPT ![c] = @ + 1]
<1>1. rq2[r] = y /\ \A q \in Requests \ {r} : rq2[q] = rq[q]
  BY DEF ChainTypes
<1>2. /\ row \in Row /\ rq[r] \in Request /\ rq[r].row \in Row /\ rq[r].to \in Row
      /\ \A q \in Requests : rq[q] \in Request
      /\ cur2 \in [Chains -> Nat] /\ cur2[c] = cur[c] + 1 /\ cur[c] \in Nat
      /\ \A d \in Chains \ {c} : cur2[d] = cur[d]
  BY RequestTyped DEF ChainTypes, Staged
<1>3. Live(y) /\ y.at # "exchange"
  BY DEF Live
<1>4. \A q \in Requests \ {r} : Holds(rq[q]) => rq[q].to.refresh[1] # c
  <2>1. CASE c \in Grants
    BY <2>1, Nones, NewestAlone
  <2>2. CASE c \notin Grants
    <3> SUFFICES ASSUME NEW q \in Requests \ {r}, Holds(rq[q]) PROVE rq[q].to.refresh[1] \in Grants
      BY <2>2
    <3> QED BY <1>2, HoldsLive, RowTyped, TokenTyped DEF Chained, Sound, Numbered
  <2> QED BY <2>1, <2>2
<1>5. \A q \in Requests \ {r} : Sound(rq[q], row, cur2)
  <2> SUFFICES ASSUME NEW q \in Requests \ {r} PROVE Sound(rq[q], row, cur2)
    OBVIOUS
  <2>1. Sound(rq[q], row, cur) /\ Staged(rq[q])
    BY DEF Chained
  <2>2. rq[q].row # None =>
          Numbered(rq[q].row, cur2) /\ Numbered(rq[q].to, cur2)
    BY <1>2, <2>1, NumberedGrows, RequestTyped DEF Sound, Staged, ChainTypes
  <2>3. Holds(rq[q]) => rq[q].to.refresh[2] = cur2[rq[q].to.refresh[1]]
    BY <1>2, <1>4, <2>1, HoldsLive, TokenTyped DEF Sound
  <2> HIDE DEF cur2
  <2> QED BY <2>1, <2>2, <2>3 DEF Sound
<1>6. CASE c = Service
  <2>1. /\ rq[r].to.grant = Service /\ rq[r].at # "exchange" /\ y.to.refresh = rq[r].to.refresh
        /\ ~Holds(rq[r]) /\ ~Holds(y)
    BY <1>2, <1>6, Nones, RowTyped DEF Chained, Sound, Holds
  <2>2. Sound(y, row, cur2)
    <3>1. Numbered(y.row, cur2) /\ Numbered(y.to, cur2)
      <4>1. Numbered(y.row, cur) /\ Numbered(y.to, cur)
        BY <2>1 DEF Chained, Sound, Numbered
      <4> QED BY <1>2, <4>1, NumberedGrows DEF ChainTypes
    <3> QED BY <2>1, <3>1, <1>2, <1>3, Nones DEF Chained, Sound, Pending
  <2>3. \A q \in Requests : Sound(rq2[q], row, cur2)
    BY <1>1, <1>5, <2>2
  <2>4. Alone(row, rq2)
    BY <1>1, <2>1 DEF Chained, Alone, Apart
  <2>5. Newest(row, cur2, lo, rq2)
    <3>1. row.refresh # None => row.refresh[1] \in Grants
      BY DEF Chained, Numbered
    <3> QED BY <1>1, <1>2, <1>6, <2>1, <3>1, Nones DEF Chained, Newest
  <2>6. GivenUp(row, ov, rq2)
    BY <1>1, <1>3 DEF Chained, GivenUp
  <2>7. Unlinked(row, ov, rq2)
    BY <1>1, <1>3, <2>1, Nones DEF Chained, Unlinked, Pending
  <2>8. Numbered(row, cur2)
    BY <1>2, NumberedGrows DEF Chained, ChainTypes
  <2> HIDE DEF cur2, rq2
  <2>9. Chained(row, cur2, lo, ov, rq2)
    BY <2>3, <2>4, <2>5, <2>6, <2>7, <2>8 DEF Chained
  <2> QED BY <2>9 DEF cur2, rq2
<1>7. CASE c # Service
  <2> DEFINE t == <<c, cur[c] + 1>>
  <2>1. /\ c \in Grants /\ rq[r].to.grant = Person /\ y.to.refresh = t
        /\ t \in Tokens /\ t # None /\ t[1] = c /\ t[2] = cur2[c]
    <3>1. t \in Tokens
      BY <1>2 DEF Tokens
    <3> QED BY <1>2, <1>7, <3>1, TokenTyped
  <2>2. \A z \in Row : Numbered(z, cur) => z.refresh # t
    <3> SUFFICES ASSUME NEW z \in Row, Numbered(z, cur), z.refresh = t PROVE FALSE
      OBVIOUS
    <3>1. t[2] \in 1..cur[c]
      BY <2>1 DEF Numbered
    <3> QED BY <1>2, <2>1, <3>1
  <2> HIDE DEF t
  <2>3. Numbered(rq[r].row, cur) /\ Numbered(rq[r].to, cur) /\ Numbered(row, cur)
    BY DEF Chained, Sound
  <2>4. Holds(y)
    BY <1>2, <2>1, <2>2, <2>3, RowTyped DEF Holds
  <2>5. Sound(y, row, cur2)
    <3>1. Numbered(y.row, cur2)
      BY <1>2, <2>3, NumberedGrows DEF ChainTypes
    <3>2. Numbered(y.to, cur2)
      BY <1>2, <2>1 DEF Numbered
    <3> HIDE DEF cur2
    <3>3. Sound(rq[r], row, cur)
      BY DEF Chained
    <3>4. /\ y.to.exists /\ (y.row.exists => row.exists)
          /\ ~y.to.active => ~y.row.active \/ y.op = "disconnect"
          /\ ~y.row.exists => y.row = NoRow /\ (y.op = "callback" \/ rq[r].to.grant = Service)
      BY <3>3 DEF Sound
    <3> QED BY <2>1, <2>4, <3>1, <3>2, <3>4, Nones, <1>2, RowTyped DEF Sound, Pending
  <2>6. \A q \in Requests : Sound(rq2[q], row, cur2)
    BY <1>1, <1>5, <2>5
  <2>7. Alone(row, rq2)
    <3>1. row.refresh # t
      BY <1>2, <2>2, <2>3
    <3>2. \A q \in Requests \ {r} : Apart(y, rq[q])
      <4> SUFFICES ASSUME NEW q \in Requests \ {r}, rq[q].row # None
                   PROVE  rq[q].row.refresh # t /\ rq[q].to.refresh # t
        BY <2>1 DEF Apart
      <4>1. rq[q].row \in Row /\ rq[q].to \in Row
        BY <1>2, RequestTyped DEF Staged
      <4>2. Numbered(rq[q].row, cur) /\ Numbered(rq[q].to, cur)
        BY DEF Chained, Sound
      <4> QED BY <2>2, <4>1, <4>2
    <3>3. \A q \in Requests \ {r} : Apart(rq[q], y)
      <4> SUFFICES ASSUME NEW q \in Requests \ {r}, Holds(rq[q])
                   PROVE  y.row.refresh # rq[q].to.refresh /\ y.to.refresh # rq[q].to.refresh
        BY DEF Apart
      <4>1. Apart(rq[q], rq[r])
        BY DEF Chained, Alone
      <4>2. rq[q].to.refresh # t
        BY <1>4, <2>1
      <4> QED BY <2>1, <4>1, <4>2 DEF Apart
    <3> QED BY <1>1, <2>1, <3>1, <3>2, <3>3 DEF Chained, Alone
  <2>8. Newest(row, cur2, lo, rq2)
    <3> SUFFICES ASSUME row.refresh # None, row.refresh[1] # c
                 PROVE  Newest(row, cur2, lo, rq2)
      BY <1>1, <2>1, <2>4 DEF Newest
    <3>1. row.refresh[1] \in Chains /\ cur2[row.refresh[1]] = cur[row.refresh[1]]
      BY <1>2, RowTyped, TokenTyped
    <3>2. Holds(rq[r]) => rq[r].to.refresh[1] = c
      <4>1. rq[r].to.refresh = <<c, cur[c]>> => rq[r].to.refresh[1] = c
        OBVIOUS
      <4>2. Holds(rq[r]) => rq[r].at # "exchange"
        BY DEF Chained, Sound
      <4> QED BY <1>7, <4>1, <4>2
    <3> QED BY <1>1, <3>1, <3>2 DEF Chained, Newest
  <2>9. GivenUp(row, ov, rq2)
    BY <1>1, <1>3 DEF Chained, GivenUp
  <2>10. Unlinked(row, ov, rq2)
    <3> SUFFICES ASSUME ~ov, row.grant = Person, row.refresh = None PROVE Unlinked(row, ov, rq2)
      BY DEF Unlinked
    <3>1. Unlinked(row, ov, rq)
      BY DEF Chained
    <3>2. Pending(y)
      BY <2>4 DEF Pending
    <3>3. y.op \in {"callback", "disconnect"} /\ y.row # None
      BY <2>1, <3>1, Nones DEF Unlinked
    <3> QED BY <1>1, <3>1, <3>2, <3>3 DEF Unlinked
  <2>11. Numbered(row, cur2)
    BY <1>2, NumberedGrows DEF Chained, ChainTypes
  <2> HIDE DEF cur2, rq2
  <2>12. Chained(row, cur2, lo, ov, rq2)
    BY <2>6, <2>7, <2>8, <2>9, <2>10, <2>11 DEF Chained
  <2> QED BY <2>12 DEF cur2, rq2
<1> QED BY <1>6, <1>7

(* Procore has issued a token that does not arrive. *)
LEMMA LoseKeeps ==
  ASSUME NEW row, NEW cur, NEW lo, NEW ov, NEW rq, ChainTypes(row, cur, lo, rq),
         \A q \in Requests : Staged(rq[q]), Chained(row, cur, lo, ov, rq),
         NEW r \in Requests, NEW c \in Chains, Live(rq[r]), rq[r].row # None,
         rq[r].at # "exchange", NEW y \in Request, Staged(y),
         Follows(rq[r], y, lo \union {c}), ~Holds(y), ~Live(y) \/ rq[r].op = "index",
         c = Service \/ (c \in Grants /\ rq[r].to.refresh = <<c, cur[c]>>)
  PROVE  Chained(row, [cur EXCEPT ![c] = @ + 1], lo \union {c}, ov, [rq EXCEPT ![r] = y])
<1> DEFINE lo2 == lo \union {c}
           cur2 == [cur EXCEPT ![c] = @ + 1]
           rq2 == [rq EXCEPT ![r] = y]
<1>1. rq2[r] = y /\ \A q \in Requests \ {r} : rq2[q] = rq[q]
  BY DEF ChainTypes
<1>2. /\ row \in Row /\ \A q \in Requests : rq[q] \in Request
      /\ cur2 \in [Chains -> Nat] /\ \A d \in Chains \ {c} : cur2[d] = cur[d]
      /\ ChainTypes(row, cur, lo2, rq2)
  BY DEF ChainTypes
<1>3. \A q \in Requests \ {r} : Follows(rq[q], rq[q], lo2)
  BY <1>2, HoldsLive, RequestTyped, Nones DEF Follows, Staged, Chained, Sound
<1>4. Chained(row, cur, lo2, ov, rq2)
  <2>1. \A q \in Requests : Staged(rq2[q]) /\ Follows(rq[q], rq2[q], lo2)
    BY <1>1, <1>3
  <2>2. ~row.exists => row = NoRow
    BY DEF Chained
  <2> HIDE DEF rq2, lo2
  <2> QED BY <1>2, <2>1, <2>2, FollowsKeeps, lo \subseteq lo2 DEF lo2
<1>5. \A q \in Requests : Holds(rq2[q]) => rq2[q].to.refresh[1] # c
  <2> SUFFICES ASSUME NEW q \in Requests \ {r}, Holds(rq[q]) PROVE rq[q].to.refresh[1] # c
    BY <1>1
  <2>1. CASE c \in Grants
    BY <2>1, Nones, NewestAlone
  <2>2. CASE c \notin Grants
    BY <1>2, <2>2, HoldsLive, RowTyped, TokenTyped DEF Chained, Sound, Numbered
  <2> QED BY <2>1, <2>2
<1>6. \A q \in Requests : Sound(rq2[q], row, cur2)
  <2> SUFFICES ASSUME NEW q \in Requests PROVE Sound(rq2[q], row, cur2)
    OBVIOUS
  <2>1. Sound(rq2[q], row, cur) /\ Staged(rq2[q]) /\ rq2[q] \in Request
    BY <1>1, <1>2, <1>4 DEF Chained
  <2>2. rq2[q].row # None => Numbered(rq2[q].row, cur2) /\ Numbered(rq2[q].to, cur2)
    BY <1>2, <2>1, NumberedGrows, RequestTyped DEF Sound, Staged, ChainTypes
  <2>3. Holds(rq2[q]) => rq2[q].to.refresh[2] = cur2[rq2[q].to.refresh[1]]
    <3> SUFFICES ASSUME Holds(rq2[q]) PROVE rq2[q].to.refresh[2] = cur2[rq2[q].to.refresh[1]]
      OBVIOUS
    <3>1. rq2[q].to.refresh[1] \in Chains \ {c}
      BY <1>5, <2>1, HoldsLive, TokenTyped
    <3>2. cur2[rq2[q].to.refresh[1]] = cur[rq2[q].to.refresh[1]]
      BY <1>2, <3>1
    <3> HIDE DEF cur2
    <3> QED BY <2>1, <3>2 DEF Sound
  <2> HIDE DEF cur2, rq2
  <2> QED BY <2>1, <2>2, <2>3 DEF Sound
<1>7. Newest(row, cur2, lo2, rq2)
  BY <1>2, <1>4, TokenTyped, RowTyped DEF Chained, Newest
<1>8. Numbered(row, cur2)
  BY <1>2, NumberedGrows DEF Chained, ChainTypes
<1> HIDE DEF cur2, lo2, rq2
<1>9. Chained(row, cur2, lo2, ov, rq2)
  BY <1>4, <1>6, <1>7, <1>8 DEF Chained
<1> QED BY <1>9 DEF cur2, lo2, rq2

(* A session commits, and is over or calls again. *)
LEMMA WriteKeeps ==
  ASSUME NEW rq, NEW ov, ChainTypes(conn, current, lost, rq),
         \A q \in Requests : Staged(rq[q]), Chained(conn, current, lost, overlapped, rq),
         NEW r \in Requests, rq[r].row # None, rq[r].at \in {"answered", "commit"},
         ~Conflict(rq[r]), NEW y \in Request, y.row = None, y.to = None,
         Live(y) => y.op = rq[r].op /\ y.op # "disconnect",
         \/ rq[r].op # "disconnect" /\ ov = overlapped
         \/ /\ rq[r].op = "disconnect" /\ ~Live(y)
            /\ ~ov => /\ \A q \in Requests \ {r} : ~Live(rq[q])
                      /\ conn.active = rq[r].row.active /\ conn.access = rq[r].row.access
                      /\ conn.refresh = rq[r].row.refresh
  PROVE  Chained(Written(rq[r]), current, lost, ov, [rq EXCEPT ![r] = y])
<1> DEFINE x == rq[r]
           w == Written(x)
           rq2 == [rq EXCEPT ![r] = y]
<1>1. rq2[r] = y /\ \A q \in Requests \ {r} : rq2[q] = rq[q]
  BY DEF ChainTypes
<1>2. /\ conn \in Row /\ x \in Request /\ \A q \in Requests : rq[q] \in Request
      /\ x.row \in Row /\ x.to \in Row /\ Live(x) /\ Staged(x) /\ x.at # "exchange"
      /\ Sound(x, conn, current) /\ ~Holds(y)
  BY RequestTyped DEF ChainTypes, Staged, Live, Holds, Chained
<1>3. /\ w \in Row
      /\ ~x.row.exists => w = x.to
      /\ x.row.exists =>
           /\ w.exists = (IF x.to.exists # x.row.exists THEN x.to.exists ELSE conn.exists)
           /\ w.grant = (IF x.to.grant # x.row.grant THEN x.to.grant ELSE conn.grant)
           /\ w.active = (IF x.to.active # x.row.active THEN x.to.active ELSE conn.active)
           /\ w.access = (IF x.to.access # x.row.access THEN x.to.access ELSE conn.access)
           /\ w.refresh = (IF x.to.refresh # x.row.refresh THEN x.to.refresh ELSE conn.refresh)
  BY <1>2, WrittenTyped
<1>4. ~x.row.exists => conn = NoRow /\ x.row = NoRow
  BY <1>2 DEF Chained, Sound, Conflict
<1>5. x.op = "disconnect" => /\ x.row.exists /\ x.to.refresh = None /\ x.to.access = None
                             /\ ~x.to.active /\ x.to.grant = x.row.grant
  BY <1>2, DisconnectTyped DEF Staged, Sound
<1> HIDE DEF x, w
<1>6. w.exists
  BY <1>2, <1>3, RowTyped DEF Sound
<1>7. Numbered(w, current)
  <2>1. w.refresh \in {x.to.refresh, conn.refresh}
    BY <1>2, <1>3, RowTyped
  <2>2. Numbered(x.to, current) /\ Numbered(conn, current)
    BY <1>2, RowTyped DEF Chained, Sound
  <2> QED BY <2>1, <2>2 DEF Numbered
<1>8. /\ Holds(x) => w.refresh = x.to.refresh
      /\ ~Holds(x) /\ x.op # "disconnect" => w.refresh = conn.refresh
      /\ x.op = "disconnect" /\ w.refresh # None => w.refresh = conn.refresh
  <2>1. x.row # None /\ x.row.exists \in BOOLEAN
    BY <1>2, RowTyped
  <2>2. x.to.refresh = None => x.row.refresh = None \/ x.op = "disconnect"
    BY <1>2, <2>1 DEF Sound
  <2>3. CASE x.row.exists
    BY <1>2, <1>3, <1>5, <2>1, <2>2, <2>3 DEF Holds
  <2>4. CASE ~x.row.exists
    BY <1>3, <1>4, <1>5, <2>1, <2>2, <2>4, NoRowTyped DEF Holds
  <2> QED BY <2>1, <2>3, <2>4
<1>9. \A q \in Requests : Sound(rq2[q], w, current)
  <2>1. Sound(y, w, current)
    BY <1>2, <1>6 DEF Sound
  <2> QED BY <1>1, <1>6, <2>1 DEF Chained, Sound
<1>10. Alone(w, rq2)
  <2>1. \A q \in Requests \ {r} : Holds(rq[q]) => w.refresh # rq[q].to.refresh
    <3> SUFFICES ASSUME NEW q \in Requests \ {r}, Holds(rq[q]) PROVE w.refresh # rq[q].to.refresh
      OBVIOUS
    <3>1. rq[q].to.refresh \notin {None, conn.refresh, x.to.refresh}
      BY <1>2, HoldsLive, RowTyped, TokenTyped DEF Chained, Alone, Apart, x
    <3> QED BY <1>8, <3>1
  <2> QED BY <1>1, <1>2, <2>1 DEF Chained, Alone, Apart
<1>11. Newest(w, current, lost, rq2)
  <2>1. CASE Holds(x)
    BY <1>2, <1>8, <2>1 DEF Sound, Newest
  <2>2. CASE ~Holds(x)
    BY <1>1, <1>8, <2>2 DEF Chained, Newest, x
  <2> QED BY <2>1, <2>2
<1>12. CASE x.op # "disconnect"
  <2>1. ov = overlapped
    BY <1>12 DEF x
  <2>2. GivenUp(w, ov, rq2)
    <3> SUFFICES ASSUME ~w.active, ~ov PROVE FALSE
      BY DEF GivenUp
    <3>1. x.row.exists
      BY <1>2, <1>3, <1>4, <1>12, NoRowTyped DEF Sound
    <3>2. ~conn.active
      BY <1>2, <1>3, <1>12, <3>1, RowTyped DEF Sound
    <3>3. ~x.row.active /\ x.to.active
      BY <1>2, <1>12, <2>1, <3>2 DEF Chained, GivenUp, x
    <3> QED BY <1>3, <3>1, <3>3
  <2>3. Unlinked(w, ov, rq2)
    <3> SUFFICES ASSUME ~ov, w.grant = Person, w.refresh = None PROVE FALSE
      BY DEF Unlinked
    <3>1. ~Holds(x) /\ conn.refresh = None /\ x.to.refresh = x.row.refresh
      BY <1>2, <1>3, <1>4, <1>8, <1>12, NoRowTyped, RowTyped DEF Holds, Sound
    <3>2. ~Pending(x)
      BY <1>2, <3>1 DEF Pending
    <3>3. CASE conn.grant = Person
      <4>1. x.op = "service" /\ x.to.grant = Service /\ x.row.grant = Person
        BY <1>2, <1>12, <2>1, <3>1, <3>2, <3>3 DEF Chained, Unlinked, x
      <4> QED BY <1>3, <4>1, Nones
    <3>4. CASE conn.grant # Person
      <4>1. x.row.exists
        BY <1>4, <3>4, NoRowTyped
      <4>2. x.to.grant = Person /\ x.row.grant = Service
        BY <1>2, <1>3, <3>4, <4>1, RowTyped
      <4> QED BY <1>2, <3>2, <4>2, RowTyped DEF Sound
    <3> QED BY <3>3, <3>4
  <2> HIDE DEF rq2
  <2>4. Chained(w, current, lost, ov, rq2)
    BY <1>6, <1>7, <1>9, <1>10, <1>11, <2>2, <2>3 DEF Chained
  <2> QED BY <2>4 DEF w, x, rq2
<1>13. CASE x.op = "disconnect"
  <2>1. ~ov => /\ \A q \in Requests : ~Live(rq2[q])
               /\ w.access = None /\ w.refresh = None
    <3>1. ~Live(y)
      BY <1>13 DEF x
    <3>2. ~ov => /\ \A q \in Requests \ {r} : ~Live(rq[q])
                 /\ conn.active = x.row.active /\ conn.access = x.row.access
                 /\ conn.refresh = x.row.refresh
      BY <1>13 DEF x
    <3> QED BY <1>1, <1>3, <1>5, <1>13, <3>1, <3>2
  <2>2. GivenUp(w, ov, rq2) /\ Unlinked(w, ov, rq2)
    BY <2>1 DEF GivenUp, Unlinked
  <2> HIDE DEF rq2
  <2>3. Chained(w, current, lost, ov, rq2)
    BY <1>6, <1>7, <1>9, <1>10, <1>11, <2>2 DEF Chained
  <2> QED BY <2>3 DEF w, x, rq2
<1> QED BY <1>12, <1>13

-----------------------------------------------------------------------------
(* Steps. *)

LEMMA SelfFollows ==
  ASSUME NEW x \in Request, NEW lo, NEW row, NEW cur, Staged(x), Sound(x, row, cur)
  PROVE  Follows(x, x, lo)
BY HoldsLive, RequestTyped, RowTyped DEF Follows, Staged, Sound

LEMMA LoadedStaged ==
  ASSUME TypeOK, NEW r \in Requests, Staged(req[r]), Rendered(req[r], scope), Live(req[r])
  PROVE  LET x == Loaded(req[r])
         IN /\ x \in Request /\ x.row \in Row /\ x.to \in Row /\ Staged(x) /\ Live(x)
            /\ Rendered(x, scope) /\ (Holds(x) <=> Holds(req[r]))
<1> DEFINE x0 == req[r]
           x == Loaded(x0)
<1>1. conn \in Row /\ x0 \in Request
  BY DEF TypeOK
<1>2. /\ x \in Request
      /\ x.row = (IF x0.row = None THEN conn ELSE x0.row)
      /\ x.to = (IF x0.row = None THEN conn ELSE x0.to)
      /\ x.op = x0.op /\ x.at = x0.at /\ x.list = x0.list /\ x.page = x0.page
      /\ x.doc = x0.doc /\ x.seen = x0.seen /\ x.quiet = x0.quiet
      /\ x.reloaded = x0.reloaded
  BY <1>1, LoadedTyped
<1> HIDE DEF x
<1>3. x.row \in Row /\ x.to \in Row /\ x.row # None /\ x.to # None
  BY <1>1, <1>2, RequestTyped, RowTyped DEF Staged
<1>4. Live(x) /\ (Holds(x) <=> Holds(x0))
  BY <1>2, <1>3 DEF Live, Holds
<1>5. Staged(x)
  BY <1>2, <1>3, <1>4 DEF Staged, Live
<1>6. Rendered(x, scope)
  BY <1>2, <1>4 DEF Rendered
<1> QED BY <1>2, <1>3, <1>4, <1>5, <1>6 DEF x

(* One request goes on, or is over, and no token changes its place. *)
LEMMA GoesOnKeeps ==
  ASSUME IInv, NEW r \in Requests, NEW y \in Request, req' = [req EXCEPT ![r] = y],
         Staged(y), Rendered(y, scope),
         \/ Follows(req[r], y, lost')
         \/ Live(req[r]) /\ Follows(Loaded(req[r]), y, lost'),
         lost \subseteq lost', lost' \subseteq Chains, Unchanged
  PROVE  IInv'
<1>1. /\ conn \in Row /\ current \in [Chains -> Nat] /\ req \in [Requests -> Request]
      /\ lost \subseteq Chains
      /\ \A q \in Requests : /\ req[q] \in Request /\ Staged(req[q]) /\ Rendered(req[q], scope)
                             /\ Sound(req[q], conn, current)
  BY DEF IInv, TypeOK, Chained
<1>2. req' \in [Requests -> Request] /\ req'[r] = y /\ \A q \in Requests \ {r} : req'[q] = req[q]
  BY <1>1, RequestMoves
<1>3. \A q \in Requests \ {r} : Follows(req[q], req'[q], lost')
  BY <1>1, <1>2, SelfFollows
<1>4. ~conn.exists => conn = NoRow
  BY DEF IInv, Chained
<1>5. ChainTypes(conn, current, lost, req) /\ ChainTypes(conn, current, lost', req')
  BY <1>1, <1>2 DEF ChainTypes
<1>6. \A q \in Requests : Staged(req'[q]) /\ Rendered(req'[q], scope)
  BY <1>1, <1>2
<1>7. Chained(conn, current, lost', overlapped, req')
  <2>1. CASE Follows(req[r], y, lost')
    <3>1. \A q \in Requests : Staged(req[q]) /\ Staged(req'[q]) /\ Follows(req[q], req'[q], lost')
      BY <1>1, <1>2, <1>3, <1>6, <2>1
    <3>2. Chained(conn, current, lost, overlapped, req)
      BY DEF IInv
    <3> QED BY <1>4, <1>5, <3>1, <3>2, FollowsKeeps
  <2>2. CASE Live(req[r]) /\ Follows(Loaded(req[r]), y, lost')
    <3> DEFINE x == Loaded(req[r])
               rq == [req EXCEPT ![r] = x]
    <3>1. x \in Request /\ Staged(x)
      BY <1>1, <2>2, LoadedStaged DEF IInv
    <3>2. /\ rq \in [Requests -> Request] /\ rq[r] = x
          /\ \A q \in Requests \ {r} : rq[q] = req[q]
      BY <1>1, <3>1
    <3>3. Chained(conn, current, lost, overlapped, rq)
      BY <1>1, <1>5, <2>2, LoadKeeps DEF IInv
    <3>4. ChainTypes(conn, current, lost, rq)
      BY <1>1, <3>2 DEF ChainTypes
    <3>5. Follows(x, y, lost')
      BY <2>2
    <3> HIDE DEF x, rq
    <3>6. \A q \in Requests : Staged(rq[q]) /\ Staged(req'[q]) /\ Follows(rq[q], req'[q], lost')
      BY <1>1, <1>2, <1>3, <1>6, <3>1, <3>2, <3>5
    <3> QED BY <1>4, <1>5, <3>3, <3>4, <3>6, FollowsKeeps
  <2> QED BY <2>1, <2>2
<1>8. TypeOK'
  BY <1>2 DEF IInv, TypeOK, Unchanged
<1>9. Chained(conn, current, lost, overlapped, req)'
  <2>1. conn' = conn /\ current' = current /\ overlapped' = overlapped
    BY DEF Unchanged
  <2> QED BY <1>7, <2>1
<1>10. scope' = scope
  BY DEF Unchanged
<1> QED BY <1>6, <1>8, <1>9, <1>10 DEF IInv

LEMMA OverTyped ==
  ASSUME NEW x \in Request, NEW at \in {"done", "failed"}
  PROVE  /\ Over(x, at) \in Request /\ Over(x, at).at = at /\ ~Live(Over(x, at))
         /\ Over(x, at).row = None /\ Over(x, at).to = None
         /\ ~Holds(Over(x, at)) /\ Staged(Over(x, at))
         /\ \A s : Rendered(Over(x, at), s)
<1> DEFINE y == Over(x, at)
<1>1. y \in Request /\ y.at = at /\ y.row = None /\ y.to = None /\ y.page = 1
  <2>1. x.op \in {"idle", "index", "callback", "service", "disconnect", "sync", "push"}
    BY RequestTyped
  <2> DEFINE i == Idle
  <2>2. y = [i EXCEPT !.op = x.op, !.at = at] /\ i \in Request
    BY IdleTyped DEF Over
  <2> HIDE DEF y, i
  <2>3. y \in Request
    <3> DEFINE o == x.op
               z == [i EXCEPT !.op = o]
    <3>1. z \in Request
      <4>1. o \in {"idle", "index", "callback", "service", "disconnect", "sync", "push"}
        BY <2>1
      <4> HIDE DEF o
      <4> QED BY <2>2, <4>1 DEF Request
    <3>2. y = [z EXCEPT !.at = at]
      BY <2>2 DEF Request
    <3>3. at \in {"idle", "exchange", "token", "check", "send", "answered", "apply", "merge",
                 "touch", "render", "record", "commit", "done", "failed"}
      OBVIOUS
    <3> HIDE DEF z
    <3> QED BY <3>1, <3>2, <3>3 DEF Request
  <2>4. y.at = at
    BY <2>2 DEF Request
  <2>5. y.row = i.row /\ y.to = i.to /\ y.page = i.page
    BY <2>2 DEF Request
  <2> QED BY <2>3, <2>4, <2>5, IdleTyped DEF i
<1> HIDE DEF y
<1>2. ~Live(y) /\ ~Holds(y)
  BY <1>1 DEF Live, Holds
<1>3. Staged(y) /\ \A s : Rendered(y, s)
  BY <1>1, <1>2 DEF Staged, Rendered, Live
<1> QED BY <1>1, <1>2, <1>3 DEF y

LEMMA IdleOver == ~Live(Idle) /\ ~Holds(Idle) /\ Staged(Idle) /\ \A s : Rendered(Idle, s)
BY IdleTyped DEF Live, Holds, Staged, Rendered

(* The settings page notes its failure, and other requests are over. *)
LEMMA FailedTyped ==
  ASSUME NEW x \in Request, x.row \in Row, x.to \in Row, Staged(x), Live(x),
         x.at # "answered", NEW row, NEW cur, Sound(x, row, cur), NEW lo,
         Holds(x) => x.to.refresh[1] \in lo
  PROVE  /\ Failed(x) \in Request /\ Staged(Failed(x)) /\ ~Holds(Failed(x))
         /\ \A s : Rendered(Failed(x), s)
         /\ Follows(x, Failed(x), lo)
         /\ ~Live(Failed(x)) \/ x.op = "index"
<1>1. CASE x.op = "index"
  <2> DEFINE y == Failed(x)
  <2>1. y = [x EXCEPT !.at = "commit", !.to.error = TRUE]
    BY <1>1 DEF Failed
  <2> DEFINE u == [x.to EXCEPT !.error = TRUE]
  <2>2. /\ u \in Row /\ u.exists = x.to.exists /\ u.grant = x.to.grant
        /\ u.active = x.to.active /\ u.refresh = x.to.refresh
    BY DEF Row
  <2>3. y = [x EXCEPT !.at = "commit", !.to = u]
    BY <2>1 DEF Request
  <2> HIDE DEF u, y
  <2>4. /\ y \in Request /\ y.at = "commit" /\ y.to = u /\ y.op = "index" /\ y.row = x.row
        /\ y.page = x.page
    BY <1>1, <2>2, <2>3 DEF Request
  <2>5. ~Holds(x) /\ x.row # None /\ u # None /\ x.at # "exchange"
    BY <1>1, <2>2, RowTyped DEF Sound, Staged
  <2>6. Live(y) /\ ~Holds(y) /\ Staged(y) /\ \A s : Rendered(y, s)
    BY <2>2, <2>4, <2>5 DEF Live, Holds, Staged, Rendered
  <2>7. Follows(x, y, lo)
    BY <1>1, <2>2, <2>4, <2>5, <2>6 DEF Follows
  <2> QED BY <1>1, <2>4, <2>6, <2>7 DEF y
<1>2. CASE x.op # "index"
  <2>1. Failed(x) = Over(x, "failed")
    BY <1>2 DEF Failed
  <2> QED BY <2>1, OverTyped DEF Follows
<1> QED BY <1>1, <1>2

LEMMA HoldsChain ==
  ASSUME NEW x \in Request, Staged(x), Holds(x)
  PROVE  x.to.refresh[1] \in Chains
BY HoldsLive, TokenTyped

LEMMA EndStep ==
  ASSUME IInv, NEW r \in Requests, End(r)
  PROVE  IInv'
<1>1. req[r] \in Request /\ Staged(req[r]) /\ lost \subseteq Chains
  BY DEF IInv, TypeOK
<1>2. lost' \subseteq Chains /\ lost \subseteq lost' /\ Follows(req[r], Idle, lost')
  BY <1>1, HoldsChain, IdleTyped, IdleOver DEF End, Follows
<1> QED BY <1>2, IdleTyped, IdleOver, GoesOnKeeps DEF End

LEMMA FailStep ==
  ASSUME IInv, NEW r \in Requests, Fail(r)
  PROVE  IInv'
<1> DEFINE x == Loaded(req[r])
<1>1. req[r] \in Request /\ Staged(req[r]) /\ Rendered(req[r], scope) /\ lost \subseteq Chains
      /\ Live(req[r]) /\ ChainTypes(conn, current, lost, req)
  BY DEF IInv, TypeOK, Fail, Live, ChainTypes
<1>2. /\ x \in Request /\ x.row \in Row /\ x.to \in Row /\ Staged(x) /\ Live(x)
      /\ Holds(x) <=> Holds(req[r])
  BY <1>1, LoadedStaged DEF IInv
<1>3. x.at = req[r].at /\ (Holds(req[r]) => x.to = req[r].to)
  BY <1>1, LoadedTyped DEF IInv, TypeOK, Holds
<1>4. Sound(x, conn, current)
  <2>1. Chained(conn, current, lost, overlapped, [req EXCEPT ![r] = x])
    BY <1>1, LoadKeeps DEF IInv
  <2>2. [req EXCEPT ![r] = x][r] = x
    BY DEF IInv, TypeOK
  <2> HIDE DEF x
  <2> QED BY <2>1, <2>2 DEF Chained
<1>5. lost' \subseteq Chains /\ lost \subseteq lost' /\ (Holds(x) => x.to.refresh[1] \in lost')
  BY <1>1, <1>2, <1>3, HoldsChain DEF Fail
<1>6. x.at # "answered"
  BY <1>3 DEF Fail
<1> HIDE DEF x
<1>7. /\ Failed(x) \in Request /\ Staged(Failed(x)) /\ Rendered(Failed(x), scope)
      /\ Follows(x, Failed(x), lost')
  BY <1>2, <1>4, <1>5, <1>6, FailedTyped
<1> QED BY <1>1, <1>5, <1>7, GoesOnKeeps DEF Fail, x

(* What is known of the request that makes a call. *)
LEMMA Calling ==
  ASSUME IInv, NEW r \in Requests, Live(req[r]), req[r].at # "exchange"
  PROVE  LET x == Loaded(req[r])
         IN /\ x \in Request /\ x.row \in Row /\ x.to \in Row /\ x.row # None /\ x.to # None
            /\ Staged(x) /\ Rendered(x, scope) /\ Live(x)
            /\ x.op = req[r].op /\ x.at = req[r].at /\ x.list = req[r].list
            /\ x.page = req[r].page /\ x.got = req[r].got /\ x.doc = req[r].doc
            /\ x.seen = req[r].seen /\ x.left = req[r].left
            /\ Holds(x) /\ x.at # "answered" => x.op = "callback"
            /\ Sound(x, conn, current)
<1> DEFINE x == Loaded(req[r])
           rq == [req EXCEPT ![r] = x]
<1>1. req[r] \in Request /\ Staged(req[r]) /\ Rendered(req[r], scope) /\ conn \in Row
      /\ ChainTypes(conn, current, lost, req) /\ TypeOK
  BY DEF IInv, TypeOK, ChainTypes
<1>2. /\ x \in Request /\ x.row \in Row /\ x.to \in Row /\ Staged(x) /\ Live(x)
      /\ Rendered(x, scope)
  BY <1>1, LoadedStaged
<1>3. Chained(conn, current, lost, overlapped, rq) /\ rq[r] = x
  BY <1>1, LoadKeeps DEF IInv, ChainTypes
<1>4. /\ x.op = req[r].op /\ x.at = req[r].at /\ x.list = req[r].list
      /\ x.page = req[r].page /\ x.got = req[r].got /\ x.doc = req[r].doc
      /\ x.seen = req[r].seen /\ x.left = req[r].left
  BY <1>1, LoadedTyped
<1> HIDE DEF x, rq
<1>5. Sound(x, conn, current) /\ (Holds(x) /\ x.at # "answered" => x.op = "callback")
  BY <1>3 DEF Chained, Sound
<1> QED BY <1>2, <1>4, <1>5, RowTyped DEF x

LEMMA NextCallTyped ==
  ASSUME NEW x \in Request
  PROVE  /\ NextCall(x) \in Request /\ NextCall(x).at = "check"
         /\ NextCall(x).op = x.op /\ NextCall(x).row = x.row /\ NextCall(x).to = x.to
         /\ NextCall(x).list = x.list /\ NextCall(x).page = x.page /\ NextCall(x).got = x.got
         /\ NextCall(x).doc = x.doc /\ NextCall(x).seen = x.seen
         /\ NextCall(x).quiet = x.quiet /\ NextCall(x).reloaded = x.reloaded
         /\ NextCall(x).left = x.left
<1>1. NextCall(x) \in Request
  BY DEF NextCall, Request
<1>2. NextCall(x).at = "check"
  BY DEF NextCall, Request
<1>3. /\ NextCall(x).op = x.op /\ NextCall(x).row = x.row /\ NextCall(x).to = x.to
      /\ NextCall(x).list = x.list /\ NextCall(x).page = x.page /\ NextCall(x).got = x.got
      /\ NextCall(x).doc = x.doc /\ NextCall(x).seen = x.seen
      /\ NextCall(x).quiet = x.quiet /\ NextCall(x).reloaded = x.reloaded
      /\ NextCall(x).left = x.left
  BY DEF NextCall, Request
<1> QED BY <1>1, <1>2, <1>3

LEMMA IdentifyStep ==
  ASSUME IInv, NEW r \in Requests, Identify(r)
  PROVE  IInv'
<1> DEFINE x == Loaded(req[r])
<1>1. Live(req[r]) /\ req[r].at \in {"check", "send"} /\ lost \subseteq Chains
  BY DEF IInv, TypeOK, Identify, CanCall, Live
<1>2. /\ x \in Request /\ x.row # None /\ x.to # None /\ Staged(x) /\ Rendered(x, scope)
      /\ Live(x) /\ x.op = req[r].op /\ x.at = req[r].at
      /\ Holds(x) => x.op = "callback"
  BY <1>1, Calling
<1>3. x.op \in {"index", "callback", "service"} /\ x.at \in {"check", "send"}
  BY <1>1, <1>2 DEF Identify
<1> DEFINE y == IF x.left > 0 THEN [NextCall(x) EXCEPT !.left = @ - 1]
                ELSE IF x.op = "index" THEN Over(x, "done") ELSE [x EXCEPT !.at = "commit"]
<1>4. req' = [req EXCEPT ![r] = y] /\ lost' = lost /\ Unchanged
  BY DEF Identify
<1> HIDE DEF x
<1>5. CASE x.left <= 0 /\ x.op = "index"
  <2>1. y = Over(x, "done") /\ ~Holds(x)
    BY <1>2, <1>5, RequestTyped
  <2>2. /\ y \in Request /\ Staged(y) /\ Rendered(y, scope) /\ Follows(x, y, lost')
    BY <1>2, <2>1, OverTyped DEF Follows
  <2> HIDE DEF y
  <2> QED BY <1>1, <1>4, <2>2, GoesOnKeeps DEF x
<1>6. CASE ~(x.left <= 0 /\ x.op = "index")
  <2>1. /\ y \in Request /\ y.at \in {"check", "commit"} /\ y.op = x.op /\ y.row = x.row
        /\ y.to = x.to /\ y.page = x.page
    <3>1. CASE x.left > 0
      <4>1. y = [NextCall(x) EXCEPT !.left = @ - 1]
        BY <3>1
      <4> DEFINE z == NextCall(x)
      <4>2. z \in Request /\ z.left = x.left /\ x.left - 1 \in Nat
        BY <1>2, <3>1, NextCallTyped, RequestTyped
      <4>3. /\ z.at = "check" /\ z.op = x.op /\ z.row = x.row /\ z.to = x.to /\ z.page = x.page
        BY <1>2, NextCallTyped
      <4> HIDE DEF y, z
      <4>4. y = [z EXCEPT !.left = @ - 1]
        BY <4>1 DEF z
      <4> QED BY <4>2, <4>3, <4>4 DEF Request
    <3>2. CASE ~(x.left > 0)
      <4>1. y = [x EXCEPT !.at = "commit"]
        BY <1>2, <1>6, <3>2, RequestTyped
      <4> HIDE DEF y
      <4> QED BY <1>2, <4>1 DEF Request
    <3> QED BY <3>1, <3>2
  <2> HIDE DEF y
  <2>2. Live(y) /\ Staged(y) /\ Rendered(y, scope) /\ Follows(x, y, lost')
    BY <1>2, <1>3, <2>1 DEF Live, Staged, Rendered, Follows
  <2> QED BY <1>1, <1>4, <2>1, <2>2, GoesOnKeeps DEF x
<1> QED BY <1>5, <1>6

LEMMA BatchTyped ==
  ASSUME TypeOK, NEW l \in Lists, NEW page \in Nat, page >= 1
  PROVE  Batch(l, page) \in Seq(Ids)
<1>1. PerPage \in Nat /\ remote[l] \in Seq(Ids)
  BY ProcoreAssumption DEF TypeOK
<1>2. (page - 1) * PerPage \in Nat /\ page * PerPage \in Nat
  BY <1>1
<1>3. FirstOf(page) \in Nat /\ FirstOf(page) >= 1
  BY <1>2 DEF FirstOf
<1>4. UpTo(l, page * PerPage) \in Nat /\ UpTo(l, page * PerPage) <= Len(remote[l])
  BY <1>1, <1>2, LenProperties DEF UpTo
<1>5. \A i \in FirstOf(page)..UpTo(l, page * PerPage) : i \in 1..Len(remote[l])
  BY <1>1, <1>3, <1>4, LenProperties
<1> QED BY <1>1, <1>3, <1>4, <1>5, SubSeqProperties DEF Batch

LEMMA FetchPageStep ==
  ASSUME IInv, NEW r \in Requests, FetchPage(r)
  PROVE  IInv'
<1> DEFINE x == Loaded(req[r])
           batch == Batch(x.list, x.page)
<1>1. Live(req[r]) /\ req[r].at \in {"check", "send"} /\ lost \subseteq Chains
  BY DEF IInv, TypeOK, FetchPage, CanCall, Live
<1>2. /\ x \in Request /\ x.row # None /\ x.to # None /\ Staged(x) /\ Rendered(x, scope)
      /\ Live(x) /\ x.op = "sync" /\ x.at \in {"check", "send"} /\ ~Holds(x)
  BY <1>1, Calling DEF FetchPage
<1> DEFINE y == IF GoesOn(batch, x.page)
                THEN [NextCall(x) EXCEPT !.got = @ \o batch, !.page = @ + 1]
                ELSE [x EXCEPT !.at = "apply", !.got = @ \o batch]
<1>3. req' = [req EXCEPT ![r] = y] /\ lost' = lost /\ Unchanged
  BY DEF FetchPage
<1> HIDE DEF x
<1>4. batch \in Seq(Ids) /\ x.list \in Lists
  BY <1>2, BatchTyped, RequestTyped DEF IInv, Staged
<1>5. x.got \o batch \in Seq(Ids)
  BY <1>2, <1>4, RequestTyped, ConcatProperties
<1> DEFINE got == x.got \o batch
<1>6. /\ y \in Request /\ y.at \in {"check", "apply"} /\ y.op = x.op /\ y.row = x.row
      /\ y.to = x.to /\ y.page >= 1 /\ y.list = x.list
  <2>1. y = IF GoesOn(batch, x.page) THEN [NextCall(x) EXCEPT !.got = got, !.page = x.page + 1]
            ELSE [x EXCEPT !.at = "apply", !.got = got]
    BY <1>2, NextCallTyped DEF Request
  <2>2. got \in Seq(Ids) /\ x.page \in Nat /\ x.page >= 1
    BY <1>2, <1>5, RequestTyped DEF Staged
  <2> HIDE DEF got, batch, y
  <2>3. CASE GoesOn(batch, x.page)
    <3> DEFINE z == NextCall(x)
    <3>1. /\ z \in Request /\ z.at = "check" /\ z.op = x.op /\ z.row = x.row /\ z.to = x.to
          /\ z.list = x.list
      BY <1>2, NextCallTyped
    <3>2. y = [z EXCEPT !.got = got, !.page = x.page + 1]
      BY <2>1, <2>3
    <3> HIDE DEF z
    <3>3. y \in Request
      <4> DEFINE n == x.page + 1
      <4>1. n \in Nat
        BY <2>2
      <4> HIDE DEF n
      <4> QED BY <2>2, <3>1, <3>2, <4>1 DEF Request, n
    <3>4. y.page = x.page + 1
      BY <2>2, <3>1, <3>2 DEF Request
    <3>5. y.at = z.at /\ y.op = z.op /\ y.row = z.row /\ y.to = z.to /\ y.list = z.list
      BY <2>2, <3>1, <3>2 DEF Request
    <3> QED BY <1>2, <2>2, <3>1, <3>3, <3>4, <3>5
  <2>4. CASE ~GoesOn(batch, x.page)
    BY <1>2, <2>1, <2>2, <2>4 DEF Request
  <2> QED BY <2>3, <2>4
<1> HIDE DEF y
<1>7. Live(y) /\ Staged(y) /\ Rendered(y, scope) /\ Follows(x, y, lost')
  BY <1>2, <1>4, <1>6 DEF Live, Staged, Rendered, Follows
<1> QED BY <1>1, <1>3, <1>6, <1>7, GoesOnKeeps DEF x

LEMMA FallBackStep ==
  ASSUME IInv, NEW r \in Requests, FallBack(r)
  PROVE  IInv'
<1> DEFINE x == Loaded(req[r])
           y == [NextCall(x) EXCEPT !.flat = TRUE, !.got = <<>>, !.page = 1, !.moved = FALSE]
<1>1. Live(req[r]) /\ req[r].at \in {"check", "send"} /\ lost \subseteq Chains
  BY DEF IInv, TypeOK, FallBack, CanCall, Live
<1>2. /\ x \in Request /\ x.row # None /\ x.to # None /\ Staged(x) /\ Rendered(x, scope)
      /\ Live(x) /\ x.op = "sync" /\ x.at \in {"check", "send"} /\ ~Holds(x)
  BY <1>1, Calling DEF FallBack
<1>3. req' = [req EXCEPT ![r] = y] /\ lost' = lost /\ Unchanged
  BY DEF FallBack
<1> HIDE DEF x
<1>4. /\ y \in Request /\ y.at = "check" /\ y.op = x.op /\ y.row = x.row
      /\ y.to = x.to /\ y.page = 1 /\ y.list = x.list
  <2> DEFINE z == NextCall(x)
  <2>1. /\ z \in Request /\ z.at = "check" /\ z.op = x.op /\ z.row = x.row /\ z.to = x.to
        /\ z.list = x.list
    BY <1>2, NextCallTyped
  <2>2. <<>> \in Seq(Ids)
    OBVIOUS
  <2>3. y = [z EXCEPT !.flat = TRUE, !.got = <<>>, !.page = 1, !.moved = FALSE]
    OBVIOUS
  <2> HIDE DEF z, y
  <2>4. y \in Request
    BY <2>1, <2>2, <2>3 DEF Request
  <2>5. y.page = 1
    BY <2>1, <2>3 DEF Request
  <2>6. y.at = z.at /\ y.op = z.op /\ y.row = z.row /\ y.to = z.to /\ y.list = z.list
    BY <2>1, <2>3 DEF Request
  <2> QED BY <2>1, <2>4, <2>5, <2>6
<1> HIDE DEF y
<1>5. Live(y) /\ Staged(y) /\ Rendered(y, scope) /\ Follows(x, y, lost')
  BY <1>2, <1>4 DEF Live, Staged, Rendered, Follows
<1> QED BY <1>1, <1>3, <1>4, <1>5, GoesOnKeeps DEF x

LEMMA RenderStep ==
  ASSUME IInv, NEW r \in Requests, Render(r)
  PROVE  IInv'
<1> DEFINE x == req[r]
           seen == IF x.seen = None THEN scope ELSE x.seen
           y == [NextCall(x) EXCEPT !.doc = seen.content, !.seen = seen]
<1>1. /\ x \in Request /\ Staged(x) /\ Rendered(x, scope) /\ lost \subseteq Chains
      /\ Sound(x, conn, current) /\ Live(x) /\ x.op = "push" /\ x.at = "render"
      /\ scope \in ScopeRow
  BY DEF IInv, TypeOK, Render, Live, Staged, Chained
<1>2. req' = [req EXCEPT ![r] = y] /\ lost' = lost /\ Unchanged
  BY DEF Render
<1>3. /\ seen \in ScopeRow /\ seen # None /\ seen.content \in Nat /\ scope.version \in Nat
      /\ x.seen = None => seen = scope
      /\ x.seen # None => seen = x.seen
  <2>1. seen \in ScopeRow
    BY <1>1, RequestTyped
  <2> QED BY <1>1, <2>1, Nones DEF ScopeRow
<1>4. ~Holds(x)
  BY <1>1 DEF Sound
<1> HIDE DEF x, seen
<1>5. /\ y \in Request /\ y.at = "check" /\ y.op = "push" /\ y.row = x.row /\ y.to = x.to
      /\ y.page = x.page /\ y.doc = seen.content /\ y.seen = seen
      /\ y.quiet = x.quiet /\ y.reloaded = x.reloaded
  <2> DEFINE z == NextCall(x)
  <2>1. /\ z \in Request /\ z.at = "check" /\ z.op = x.op /\ z.row = x.row /\ z.to = x.to
        /\ z.page = x.page /\ z.quiet = x.quiet /\ z.reloaded = x.reloaded
    BY <1>1, NextCallTyped
  <2>2. y = [z EXCEPT !.doc = seen.content, !.seen = seen]
    OBVIOUS
  <2> HIDE DEF z, y
  <2>3. y \in Request
    BY <1>1, <1>3, <2>1, <2>2 DEF Request
  <2>4. y.doc = seen.content /\ y.seen = seen
    BY <2>1, <2>2 DEF Request
  <2>5. /\ y.at = z.at /\ y.op = z.op /\ y.row = z.row /\ y.to = z.to /\ y.page = z.page
        /\ y.quiet = z.quiet /\ y.reloaded = z.reloaded
    BY <2>1, <2>2 DEF Request
  <2> QED BY <1>1, <2>1, <2>3, <2>4, <2>5
<1> HIDE DEF y
<1>6. Live(y) /\ Staged(y)
  BY <1>1, <1>5 DEF Live, Staged
<1>7. Follows(x, y, lost')
  BY <1>1, <1>4, <1>5, <1>6 DEF Follows, Staged
<1>8. Rendered(y, scope)
  BY <1>1, <1>3, <1>5, <1>6 DEF Rendered
<1> QED BY <1>1, <1>2, <1>5, <1>6, <1>7, <1>8, GoesOnKeeps DEF x

LEMMA PushStep ==
  ASSUME IInv, NEW r \in Requests, Push(r)
  PROVE  IInv'
<1> DEFINE x == Loaded(req[r])
           y == [x EXCEPT !.at = IF x.doc = None THEN "render" ELSE "record"]
<1>1. Live(req[r]) /\ req[r].at \in {"check", "send"} /\ lost \subseteq Chains
  BY DEF IInv, TypeOK, Push, CanCall, Live
<1>2. /\ x \in Request /\ x.row # None /\ x.to # None /\ Staged(x) /\ Rendered(x, scope)
      /\ Live(x) /\ x.op = "push" /\ x.at \in {"check", "send"} /\ ~Holds(x)
  BY <1>1, Calling DEF Push
<1>3. req' = [req EXCEPT ![r] = y] /\ lost' = lost /\ Unchanged
  BY DEF Push
<1> HIDE DEF x
<1>4. /\ y \in Request /\ y.at = (IF x.doc = None THEN "render" ELSE "record") /\ y.op = x.op
      /\ y.row = x.row /\ y.to = x.to /\ y.page = x.page /\ y.doc = x.doc
      /\ y.seen = x.seen /\ y.quiet = x.quiet /\ y.reloaded = x.reloaded
  BY <1>2 DEF Request
<1> HIDE DEF y
<1>5. Live(y) /\ Staged(y) /\ Rendered(y, scope) /\ Follows(x, y, lost')
  BY <1>2, <1>4 DEF Live, Staged, Rendered, Follows
<1> QED BY <1>1, <1>3, <1>4, <1>5, GoesOnKeeps DEF x

LEMMA ReadRowsStep ==
  ASSUME IInv, NEW r \in Requests, ReadRows(r)
  PROVE  IInv'
<1> DEFINE x == req[r]
           y == [x EXCEPT !.at = "merge", !.known = Here(x.list)]
<1>1. /\ x \in Request /\ Staged(x) /\ Rendered(x, scope) /\ lost \subseteq Chains
      /\ Sound(x, conn, current) /\ Live(x) /\ x.op = "sync" /\ x.at = "apply"
  BY DEF IInv, TypeOK, ReadRows, Live, Staged, Chained
<1>2. req' = [req EXCEPT ![r] = y] /\ lost' = lost /\ Unchanged
  BY <1>1 DEF ReadRows, IInv, TypeOK, Request
<1>3. ~Holds(x) /\ Here(x.list) \subseteq Ids
  BY <1>1 DEF Sound, Here
<1> HIDE DEF x
<1>4. /\ y \in Request /\ y.at = "merge" /\ y.op = "sync" /\ y.row = x.row /\ y.to = x.to
      /\ y.page = x.page /\ y.list = x.list
  BY <1>1, <1>3 DEF Request
<1> HIDE DEF y
<1>5. Live(y) /\ Staged(y) /\ Rendered(y, scope) /\ Follows(x, y, lost')
  BY <1>1, <1>3, <1>4 DEF Live, Staged, Rendered, Follows
<1> QED BY <1>1, <1>2, <1>4, <1>5, GoesOnKeeps DEF x

LEMMA BeginStep ==
  ASSUME IInv, NEW r \in Requests, NEW y \in Request, Submit(r, y),
         Live(y), y.row = conn, y.to \in Row, Staged(y), Rendered(y, scope),
         y.at \in {"exchange", "token", "check", "commit"},
         \/ /\ y.op \in {"index", "sync", "push"} /\ y.to = conn /\ IsConnected(conn)
         \/ /\ y.op = "callback" /\ y.at = "exchange" /\ y.to.exists /\ y.to.grant = Person
            /\ y.to.active /\ y.to.refresh = conn.refresh
         \/ /\ y.op = "service" /\ y.to.exists /\ y.to.grant = Service
            /\ y.to.active /\ y.to.refresh = conn.refresh
         \/ /\ y.op = "disconnect" /\ conn.exists /\ y.to = Disconnect(conn)
  PROVE  IInv'
<1>1. /\ ChainTypes(conn, current, lost, req) /\ \A q \in Requests : Staged(req[q])
      /\ req \in [Requests -> Request] /\ Chained(conn, current, lost, overlapped, req)
  BY DEF IInv, TypeOK, ChainTypes
<1>2. ~Live(req[r]) /\ req' = [req EXCEPT ![r] = y]
  BY <1>1 DEF Submit, Staged
<1>3. Chained(conn, current, lost, overlapped, req')
  BY <1>1, <1>2, BeginKeeps
<1>4. req' \in [Requests -> Request] /\ \A q \in Requests : Staged(req'[q]) /\ Rendered(req'[q], scope)
  BY <1>1, <1>2, RequestMoves DEF IInv
<1>5. UNCHANGED <<conn, current, remote, local, scope, lost, overlapped, changes>>
  BY DEF Submit
<1>6. TypeOK'
  BY <1>4, <1>5 DEF IInv, TypeOK
<1> QED BY <1>3, <1>4, <1>5, <1>6 DEF IInv

(* A request over a connection, as it arrives. *)
LEMMA ConnectedTyped ==
  ASSUME conn \in Row, NEW op \in {"index", "sync", "push"}
  PROVE  LET y == Connected(op)
         IN /\ y \in Request /\ y.op = op /\ y.at = "check" /\ y.row = conn /\ y.to = conn
            /\ y.page = 1 /\ y.doc = None
<1> DEFINE i == Idle
           y == Connected(op)
<1>1. y = [i EXCEPT !.op = op, !.at = "check", !.row = conn, !.to = conn] /\ i \in Request
  BY IdleTyped DEF Connected
<1> HIDE DEF i, y
<1>2. y \in Request
  <2>1. op \in {"idle", "index", "callback", "service", "disconnect", "sync", "push"}
    OBVIOUS
  <2> QED BY <1>1, <2>1 DEF Request
<1>3. y.op = op /\ y.at = "check"
  BY <1>1 DEF Request
<1>4. y.row = conn /\ y.to = conn
  BY <1>1 DEF Request
<1>5. y.page = i.page /\ y.doc = i.doc
  BY <1>1 DEF Request
<1> QED BY <1>2, <1>3, <1>4, <1>5, IdleTyped DEF i, y

LEMMA SubmitIndexStep ==
  ASSUME IInv, NEW r \in Requests, SubmitIndex(r)
  PROVE  IInv'
<1> DEFINE z == Connected("index")
           y == [z EXCEPT !.left = 1]
<1>1. conn \in Row /\ conn # None
  BY RowTyped DEF IInv, TypeOK
<1>2. /\ z \in Request /\ z.op = "index" /\ z.at = "check" /\ z.row = conn /\ z.to = conn
      /\ z.page = 1
  BY <1>1, ConnectedTyped
<1> HIDE DEF z
<1>3. /\ y \in Request /\ y.op = "index" /\ y.at = "check" /\ y.row = conn /\ y.to = conn
      /\ y.page = 1
  BY <1>2 DEF Request
<1>4. Submit(r, y) /\ IsConnected(conn)
  BY DEF SubmitIndex, z
<1> HIDE DEF y
<1>5. Live(y) /\ Staged(y) /\ Rendered(y, scope)
  BY <1>1, <1>3 DEF Live, Staged, Rendered
<1> QED BY <1>1, <1>3, <1>4, <1>5, BeginStep

LEMMA SubmitSyncStep ==
  ASSUME IInv, NEW r \in Requests, SubmitSync(r)
  PROVE  IInv'
<1>1. conn \in Row /\ conn # None /\ IsConnected(conn)
  BY RowTyped DEF IInv, TypeOK, SubmitSync
<1>2. PICK l \in {"projects"} \union (Lists \intersect Here("projects")) :
        Submit(r, [Connected("sync") EXCEPT !.list = l])
  BY DEF SubmitSync
<1> DEFINE z == Connected("sync")
           y == [z EXCEPT !.list = l]
<1>3. /\ z \in Request /\ z.op = "sync" /\ z.at = "check" /\ z.row = conn /\ z.to = conn
      /\ z.page = 1
  BY <1>1, ConnectedTyped
<1>4. l \in Lists /\ Submit(r, y)
  BY <1>2, ProcoreAssumption
<1> HIDE DEF z
<1>5. /\ y \in Request /\ y.op = "sync" /\ y.at = "check" /\ y.row = conn /\ y.to = conn
      /\ y.page = 1 /\ y.list = l
  BY <1>3, <1>4 DEF Request
<1> HIDE DEF y
<1>6. Live(y) /\ Staged(y) /\ Rendered(y, scope)
  BY <1>1, <1>4, <1>5 DEF Live, Staged, Rendered
<1> QED BY <1>1, <1>4, <1>5, <1>6, BeginStep

LEMMA SubmitPushStep ==
  ASSUME IInv, NEW r \in Requests, SubmitPush(r)
  PROVE  IInv'
<1> DEFINE z == Connected("push")
           y == [z EXCEPT !.seen = scope]
<1>1. conn \in Row /\ conn # None /\ scope \in ScopeRow /\ scope.version \in Nat
  BY RowTyped DEF IInv, TypeOK, ScopeRow
<1>2. /\ z \in Request /\ z.op = "push" /\ z.at = "check" /\ z.row = conn /\ z.to = conn
      /\ z.page = 1 /\ z.doc = None
  BY <1>1, ConnectedTyped
<1> HIDE DEF z
<1>3. /\ y \in Request /\ y.op = "push" /\ y.at = "check" /\ y.row = conn /\ y.to = conn
      /\ y.page = 1 /\ y.doc = None /\ y.seen = scope
  BY <1>1, <1>2 DEF Request
<1>4. Submit(r, y) /\ IsConnected(conn)
  BY DEF SubmitPush, z
<1> HIDE DEF y
<1>5. Live(y) /\ Staged(y) /\ Rendered(y, scope)
  BY <1>1, <1>3 DEF Live, Staged, Rendered
<1> QED BY <1>1, <1>3, <1>4, <1>5, BeginStep

LEMMA SubmitCallbackStep ==
  ASSUME IInv, NEW r \in Requests, SubmitCallback(r)
  PROVE  IInv'
<1> DEFINE i == Idle
           u == [conn EXCEPT !.exists = TRUE, !.grant = Person, !.active = TRUE]
           y == [i EXCEPT !.op = "callback", !.at = "exchange", !.row = conn, !.left = 1, !.to = u]
<1>1. conn \in Row /\ conn # None
  BY RowTyped DEF IInv, TypeOK
<1>2. u \in Row /\ u.exists /\ u.grant = Person /\ u.active /\ u.refresh = conn.refresh
  BY <1>1 DEF Row
<1>3. i \in Request /\ i.page = 1 /\ Submit(r, y)
  BY IdleTyped DEF SubmitCallback
<1> HIDE DEF i, u
<1>4. y \in Request
  BY <1>1, <1>2, <1>3 DEF Request
<1>5. y.op = "callback" /\ y.at = "exchange" /\ y.row = conn /\ y.to = u /\ y.page = i.page
  BY <1>1, <1>2, <1>3 DEF Request
<1> HIDE DEF y
<1>6. Live(y) /\ Staged(y) /\ Rendered(y, scope)
  BY <1>1, <1>2, <1>3, <1>5, RowTyped DEF Live, Staged, Rendered
<1> QED BY <1>1, <1>2, <1>3, <1>4, <1>5, <1>6, BeginStep

LEMMA SubmitServiceStep ==
  ASSUME IInv, NEW r \in Requests, SubmitService(r)
  PROVE  IInv'
<1> DEFINE i == Idle
           u == [conn EXCEPT !.exists = TRUE, !.grant = Service, !.active = TRUE]
           y == [i EXCEPT !.op = "service", !.at = "token", !.row = conn, !.to = u]
<1>1. conn \in Row /\ conn # None
  BY RowTyped DEF IInv, TypeOK
<1>2. u \in Row /\ u.exists /\ u.grant = Service /\ u.active /\ u.refresh = conn.refresh
  BY <1>1 DEF Row
<1>3. i \in Request /\ i.page = 1 /\ Submit(r, y)
  BY IdleTyped DEF SubmitService
<1> HIDE DEF i, u
<1>4. y \in Request
  BY <1>1, <1>2, <1>3 DEF Request
<1>5. y.op = "service" /\ y.at = "token" /\ y.row = conn /\ y.to = u /\ y.page = i.page
  BY <1>1, <1>2, <1>3 DEF Request
<1> HIDE DEF y
<1>6. Live(y) /\ Staged(y) /\ Rendered(y, scope)
  BY <1>1, <1>2, <1>3, <1>5, RowTyped DEF Live, Staged, Rendered
<1> QED BY <1>1, <1>2, <1>3, <1>4, <1>5, <1>6, BeginStep

LEMMA SubmitDisconnectStep ==
  ASSUME IInv, NEW r \in Requests, SubmitDisconnect(r)
  PROVE  IInv'
<1> DEFINE i == Idle
           u == Disconnect(conn)
           y == [i EXCEPT !.op = "disconnect", !.at = "commit", !.row = conn, !.to = u]
<1>1. conn \in Row /\ conn # None /\ conn.exists
  BY RowTyped DEF IInv, TypeOK, SubmitDisconnect
<1>2. u \in Row
  BY <1>1, DisconnectTyped
<1>3. i \in Request /\ i.page = 1 /\ Submit(r, y)
  BY IdleTyped DEF SubmitDisconnect
<1> HIDE DEF i, u
<1>4. y \in Request
  BY <1>1, <1>2, <1>3 DEF Request
<1>5. y.op = "disconnect" /\ y.at = "commit" /\ y.row = conn /\ y.to = u /\ y.page = i.page
  BY <1>1, <1>2, <1>3 DEF Request
<1> HIDE DEF y
<1>6. Live(y) /\ Staged(y) /\ Rendered(y, scope)
  BY <1>1, <1>2, <1>3, <1>5, RowTyped DEF Live, Staged, Rendered, u
<1> QED BY <1>1, <1>2, <1>3, <1>4, <1>5, <1>6, BeginStep DEF u

(* Where Procore and the row change as one request goes on. *)
LEMMA TokenStep ==
  ASSUME IInv, NEW r \in Requests, NEW y \in Request, req' = [req EXCEPT ![r] = y],
         Staged(y), Rendered(y, scope), conn' \in Row, current' \in [Chains -> Nat],
         lost' \subseteq Chains, overlapped' \in BOOLEAN,
         Chained(conn', current', lost', overlapped', req'),
         UNCHANGED <<remote, local, scope, changes>>
  PROVE  IInv'
<1>1. req' \in [Requests -> Request] /\ \A q \in Requests : Staged(req'[q]) /\ Rendered(req'[q], scope)
  BY RequestMoves DEF IInv, TypeOK
<1>2. TypeOK'
  BY <1>1 DEF IInv, TypeOK
<1> QED BY <1>1, <1>2 DEF IInv

LEMMA ExchangeCodeStep ==
  ASSUME IInv, NEW r \in Requests, ExchangeCode(r)
  PROVE  IInv'
<1> DEFINE x == req[r]
<1>1. PICK g \in Grants :
        /\ current[g] = 0 /\ Issued(g)
        /\ req' = [req EXCEPT ![r] =
                     [x EXCEPT !.at = "check", !.to = ApplyTokenResponse(x.to, <<g, 1>>)]]
  BY DEF ExchangeCode
<1>2. /\ x \in Request /\ x.at = "exchange" /\ Staged(x) /\ Live(x) /\ x.op = "callback"
      /\ Rendered(x, scope) /\ x.row # None /\ x.row \in Row /\ x.to \in Row
      /\ x.to.grant = Person /\ g \in Chains /\ g # Service
  BY Nones, RequestTyped DEF IInv, TypeOK, ExchangeCode, Staged, Live
<1> DEFINE t == <<g, 1>>
           u == ApplyTokenResponse(x.to, t)
           y == [x EXCEPT !.at = "check", !.to = u]
<1>3. t \in Tokens /\ t[1] = g
  BY <1>2 DEF Tokens
<1>4. /\ u \in Row /\ u.exists = x.to.exists /\ u.grant = x.to.grant /\ u.active = x.to.active
      /\ u.refresh = t
  BY <1>2, <1>3, AnswerTyped
<1>5. req' = [req EXCEPT ![r] = y]
  BY <1>1
<1> HIDE DEF u
<1>6. y \in Request
  BY <1>2, <1>4 DEF Request
<1>7. y.at = "check" /\ y.to = u /\ y.op = x.op /\ y.row = x.row /\ y.page = x.page
  BY <1>2, <1>4 DEF Request
<1> HIDE DEF y
<1>8. Staged(y) /\ Rendered(y, scope)
  BY <1>2, <1>4, <1>7, RowTyped DEF Staged, Rendered, Live
<1>9. current' = [current EXCEPT ![g] = @ + 1] /\ current[g] = 0 /\ current' \in [Chains -> Nat]
  BY <1>1, <1>2 DEF Issued, IInv, TypeOK
<1>10. /\ ChainTypes(conn, current, lost, req) /\ \A q \in Requests : Staged(req[q])
       /\ Chained(conn, current, lost, overlapped, req)
  BY DEF IInv, TypeOK, ChainTypes
<1>11. Chained(conn, current', lost, overlapped, req')
  <2>1. u.refresh = <<g, current[g] + 1>>
    BY <1>4, <1>9
  <2>2. Chained(conn, [current EXCEPT ![g] = @ + 1], lost, overlapped, [req EXCEPT ![r] = y])
    BY <1>2, <1>4, <1>6, <1>7, <1>9, <1>10, <2>1, IssueKeeps
  <2> QED BY <1>5, <1>9, <2>2
<1> QED BY <1>5, <1>6, <1>8, <1>9, <1>11, TokenStep DEF ExchangeCode, IInv, TypeOK

(* A token is asked for: the answer arrives, or does not. *)
LEMMA RefreshStep ==
  ASSUME IInv, NEW r \in Requests, NEW then \in {"check", "send"}, NEW again \in BOOLEAN,
         Refresh(r, then, again), req[r].at \in {"token", "check", "send"}
  PROVE  IInv'
<1> DEFINE x == Loaded(req[r])
           rq == [req EXCEPT ![r] = x]
<1>1. Live(req[r]) /\ req[r].at # "exchange"
  BY DEF Live
<1>2. /\ x \in Request /\ x.row \in Row /\ x.to \in Row /\ x.row # None /\ x.to # None
      /\ Staged(x) /\ Rendered(x, scope) /\ Live(x) /\ x.at = req[r].at
      /\ Sound(x, conn, current)
  BY <1>1, Calling
<1>3. /\ ChainTypes(conn, current, lost, rq) /\ rq[r] = x
      /\ \A q \in Requests : Staged(rq[q])
      /\ \A y : [rq EXCEPT ![r] = y] = [req EXCEPT ![r] = y]
  BY <1>2 DEF IInv, TypeOK, ChainTypes
<1>4. Chained(conn, current, lost, overlapped, rq)
  BY <1>1, LoadKeeps DEF IInv, TypeOK, ChainTypes
<1> DEFINE Answered(c) == [x EXCEPT !.at = "answered", !.then = then, !.retried = again,
                                    !.to = ApplyTokenResponse(x.to, <<c, current[c] + 1>>)]
<1>5. PICK c \in Asked(x) :
        /\ Issued(c)
        /\ \/ req' = [req EXCEPT ![r] = Answered(c)] /\ UNCHANGED lost
           \/ req' = [req EXCEPT ![r] = Failed(x)] /\ lost' = lost \union {c}
  BY DEF Refresh
<1>6. UNCHANGED <<conn, remote, local, scope, overlapped, changes>>
  BY DEF Refresh
<1> HIDE DEF x, rq
<1>7. /\ c \in Chains
      /\ \/ c = Service /\ x.to.grant = Service
         \/ c \in Grants /\ x.to.grant = Person /\ x.to.refresh = <<c, current[c]>>
  BY <1>2, RowTyped, Nones DEF Asked
<1>8. /\ current' = [current EXCEPT ![c] = @ + 1] /\ current' \in [Chains -> Nat]
      /\ current[c] \in Nat /\ conn \in Row /\ lost \subseteq Chains /\ overlapped \in BOOLEAN
  BY <1>5, <1>7 DEF Issued, IInv, TypeOK
<1>9. CASE req' = [req EXCEPT ![r] = Answered(c)] /\ UNCHANGED lost
  <2> DEFINE t == <<c, current[c] + 1>>
             u == ApplyTokenResponse(x.to, t)
             y == [x EXCEPT !.at = "answered", !.then = then, !.retried = again, !.to = u]
  <2>1. t \in Tokens /\ t[1] = c
    BY <1>7, <1>8 DEF Tokens
  <2>2. /\ u \in Row /\ u.exists = x.to.exists /\ u.grant = x.to.grant
        /\ u.active = x.to.active /\ u.refresh = (IF c = Service THEN x.to.refresh ELSE t)
    BY <1>2, <2>1, AnswerTyped
  <2>3. req' = [req EXCEPT ![r] = y]
    BY <1>9
  <2> HIDE DEF u, t
  <2>4. y \in Request
    BY <1>2, <2>2 DEF Request
  <2>5. y.at = "answered" /\ y.to = u
    BY <1>2, <2>2 DEF Request
  <2>6. /\ y.op = x.op /\ y.row = x.row /\ y.page = x.page /\ y.list = x.list
        /\ y.doc = x.doc /\ y.seen = x.seen /\ y.quiet = x.quiet
        /\ y.reloaded = x.reloaded
    BY <1>2, <2>2 DEF Request
  <2> HIDE DEF y
  <2>7. Staged(y) /\ Rendered(y, scope)
    BY <1>2, <2>2, <2>5, <2>6, RowTyped DEF Staged, Rendered, Live
  <2>8. Chained(conn, [current EXCEPT ![c] = @ + 1], lost, overlapped, [rq EXCEPT ![r] = y])
    <3>1. CASE c = Service
      BY <1>2, <1>3, <1>4, <1>7, <2>2, <2>4, <2>5, <2>6, <3>1, Nones, IssueKeeps
    <3>2. CASE c # Service
      BY <1>2, <1>3, <1>4, <1>7, <2>2, <2>4, <2>5, <2>6, <3>2, IssueKeeps DEF t
    <3> QED BY <3>1, <3>2
  <2>9. Chained(conn', current', lost', overlapped', req')
    BY <1>3, <1>6, <1>8, <1>9, <2>3, <2>8
  <2> QED BY <1>6, <1>8, <1>9, <2>3, <2>4, <2>7, <2>9, TokenStep
<1>10. CASE req' = [req EXCEPT ![r] = Failed(x)] /\ lost' = lost \union {c}
  <2> DEFINE y == Failed(x)
             lo == lost \union {c}
  <2>1. Holds(x) => x.to.refresh[1] \in lo
    BY <1>2, <1>7, Nones DEF Sound
  <2>2. x.at # "answered" /\ x.at # "exchange"
    BY <1>2
  <2>3. /\ y \in Request /\ Staged(y) /\ ~Holds(y) /\ Rendered(y, scope)
        /\ Follows(x, y, lo) /\ (~Live(y) \/ x.op = "index")
    BY <1>2, <2>1, <2>2, FailedTyped
  <2> HIDE DEF y
  <2>4. Chained(conn, [current EXCEPT ![c] = @ + 1], lo, overlapped, [rq EXCEPT ![r] = y])
    BY <1>2, <1>3, <1>4, <1>7, <2>2, <2>3, LoseKeeps
  <2>5. req' = [req EXCEPT ![r] = y]
    BY <1>10 DEF y
  <2>6. Chained(conn', current', lost', overlapped', req')
    BY <1>3, <1>6, <1>8, <1>10, <2>4, <2>5
  <2> QED BY <1>6, <1>7, <1>8, <1>10, <2>3, <2>5, <2>6, TokenStep
<1> QED BY <1>5, <1>9, <1>10

LEMMA StoreStep ==
  ASSUME IInv, NEW r \in Requests, Store(r)
  PROVE  IInv'
<1> DEFINE x == req[r]
           again == (x.doc # None)
           y == [x EXCEPT !.at = x.then, !.row = None, !.to = None, !.seen = None,
                          !.reloaded = again]
<1>1. /\ x \in Request /\ x.at = "answered" /\ Staged(x) /\ Live(x) /\ ~Conflict(x)
      /\ x.row # None /\ x.row \in Row /\ x.to \in Row /\ x.then \in {"check", "send"}
      /\ conn \in Row /\ current \in [Chains -> Nat] /\ lost \subseteq Chains
      /\ overlapped \in BOOLEAN
  BY RequestTyped DEF IInv, TypeOK, Store, Staged, Live
<1>2. /\ req' = [req EXCEPT ![r] = y] /\ conn' = Written(x)
      /\ UNCHANGED <<current, remote, local, scope, lost, overlapped, changes>>
  BY DEF Store
<1>3. Written(x) \in Row
  BY <1>1, WrittenTyped
<1>4. x.op # "disconnect"
  BY <1>1 DEF Staged
<1> HIDE DEF x, again
<1> DEFINE b == again
<1>5. again \in BOOLEAN
  BY DEF again
<1>6. y \in Request
  BY <1>1, <1>5 DEF Request
<1>7. y.at = x.then /\ y.seen = None /\ y.reloaded = again
  BY <1>1 DEF Request
<1>8. y.row = None /\ y.to = None
  BY <1>1 DEF Request
<1>9. y.op = x.op /\ y.page = x.page /\ y.list = x.list /\ y.doc = x.doc
  BY <1>1 DEF Request
<1> HIDE DEF y
<1>10. Staged(y) /\ Rendered(y, scope)
  BY <1>1, <1>4, <1>7, <1>8, <1>9 DEF Staged, Rendered, Live, again
<1>11. Chained(Written(x), current, lost, overlapped, [req EXCEPT ![r] = y])
  BY <1>1, <1>4, <1>6, <1>8, <1>9, WriteKeeps DEF IInv, TypeOK, ChainTypes, x
<1>12. Chained(conn', current', lost', overlapped', req')
  BY <1>2, <1>11
<1> QED BY <1>1, <1>2, <1>3, <1>6, <1>10, <1>12, TokenStep

LEMMA CommitStep ==
  ASSUME IInv, NEW r \in Requests, Commit(r)
  PROVE  IInv'
<1> DEFINE x == Loaded(req[r])
           rq == [req EXCEPT ![r] = x]
           y == Over(x, "done")
<1>1. x.at = "commit" /\ ~Conflict(x)
  BY DEF Commit
<1>2. req[r].at = "commit" /\ Live(req[r]) /\ req[r].at # "exchange"
  BY <1>1, LoadedTyped DEF Live, IInv, TypeOK
<1>3. /\ x \in Request /\ x.row \in Row /\ x.to \in Row /\ x.row # None
      /\ Staged(x) /\ Live(x) /\ x.op = req[r].op
  BY <1>2, Calling
<1>4. /\ conn' = Written(x) /\ req' = [req EXCEPT ![r] = y]
      /\ overlapped' = (IF x.op # "disconnect" THEN overlapped
                        ELSE Stale(x) \/ \E q \in Requests \ {r} : req[q].op # "idle")
      /\ UNCHANGED <<current, remote, local, scope, lost, changes>>
  BY DEF Commit
<1>5. /\ ChainTypes(conn, current, lost, rq) /\ rq[r] = x
      /\ \A q \in Requests : Staged(rq[q])
      /\ \A q \in Requests \ {r} : rq[q] = req[q]
      /\ \A z : [rq EXCEPT ![r] = z] = [req EXCEPT ![r] = z]
  BY <1>3 DEF IInv, TypeOK, ChainTypes
<1>6. Chained(conn, current, lost, overlapped, rq)
  BY <1>2, LoadKeeps DEF IInv, TypeOK, ChainTypes
<1> HIDE DEF x, rq
<1>7. /\ y \in Request /\ ~Live(y) /\ y.row = None /\ y.to = None /\ Staged(y)
      /\ Rendered(y, scope)
  BY <1>3, OverTyped
<1>8. \/ x.op # "disconnect" /\ overlapped' = overlapped
      \/ /\ x.op = "disconnect" /\ ~Live(y)
         /\ ~overlapped' => /\ \A q \in Requests \ {r} : ~Live(rq[q])
                            /\ conn.active = x.row.active /\ conn.access = x.row.access
                            /\ conn.refresh = x.row.refresh
  <2>1. CASE x.op # "disconnect"
    BY <1>4, <2>1
  <2>2. CASE x.op = "disconnect"
    <3> SUFFICES ASSUME ~overlapped'
                 PROVE  /\ \A q \in Requests \ {r} : ~Live(rq[q])
                        /\ conn.active = x.row.active /\ conn.access = x.row.access
                        /\ conn.refresh = x.row.refresh
      BY <1>7, <2>2
    <3>1. ~Stale(x) /\ \A q \in Requests \ {r} : req[q].op = "idle"
      BY <1>4, <2>2
    <3>2. \A q \in Requests \ {r} : ~Live(rq[q])
      BY <1>5, <3>1 DEF Staged
    <3>3. conn["active"] = x.row["active"] /\ conn["access"] = x.row["access"]
          /\ conn["refresh"] = x.row["refresh"]
      BY <3>1 DEF Stale
    <3> QED BY <3>2, <3>3
  <2> QED BY <2>1, <2>2
<1>9. Written(x) \in Row /\ overlapped' \in BOOLEAN
  BY <1>3, <1>4, WrittenTyped DEF IInv, TypeOK
<1> HIDE DEF y
<1>10. Chained(Written(x), current, lost, overlapped', [rq EXCEPT ![r] = y])
  BY <1>1, <1>3, <1>5, <1>6, <1>7, <1>8, WriteKeeps
<1>11. Chained(conn', current', lost', overlapped', req')
  BY <1>4, <1>5, <1>10
<1> QED BY <1>4, <1>7, <1>9, <1>11, TokenStep DEF IInv, TypeOK

-----------------------------------------------------------------------------
(* Where several requests are marked, and what is written here. *)

LEMMA MarkStep ==
  ASSUME IInv, TypeOK', UNCHANGED <<current, lost, overlapped>>,
         conn'.exists = conn.exists, conn'.grant = conn.grant, conn'.active = conn.active,
         conn'.access = conn.access, conn'.refresh = conn.refresh,
         ~conn'.exists => conn' = NoRow,
         \A q \in Requests : /\ Staged(req'[q]) /\ Rendered(req'[q], scope')
                             /\ Follows(req[q], req'[q], lost)
  PROVE  IInv'
<1>1. ChainTypes(conn, current, lost, req) /\ ChainTypes(conn', current, lost, req')
  BY DEF IInv, TypeOK, ChainTypes
<1>2. Chained(conn, current, lost, overlapped, req) /\ \A q \in Requests : Staged(req[q])
  BY DEF IInv
<1>3. Chained(conn', current, lost, overlapped, req')
  BY <1>1, <1>2, FollowsKeeps
<1>4. Chained(conn', current', lost', overlapped', req')
  BY <1>3
<1> QED BY <1>4 DEF IInv

LEMMA Kept ==
  ASSUME IInv, NEW q \in Requests
  PROVE  /\ req[q] \in Request /\ Staged(req[q]) /\ Rendered(req[q], scope)
         /\ Follows(req[q], req[q], lost)
BY SelfFollows DEF IInv, TypeOK, Chained

(* A history of a request. *)
LEMMA Marked ==
  ASSUME IInv, NEW q \in Requests, NEW y,
         \/ y = [req[q] EXCEPT !.quiet = TRUE]
         \/ y = [req[q] EXCEPT !.raced = TRUE]
         \/ y = [req[q] EXCEPT !.moved = TRUE]
  PROVE  /\ y \in Request /\ Staged(y) /\ Follows(req[q], y, lost)
         /\ y.op = req[q].op /\ y.at = req[q].at /\ y.doc = req[q].doc
         /\ y.seen = req[q].seen /\ y.reloaded = req[q].reloaded
         /\ (y.quiet = req[q].quiet \/ y.quiet)
         /\ (y = [req[q] EXCEPT !.quiet = TRUE] => y.quiet)
<1> DEFINE x == req[q]
<1>1. x \in Request /\ Staged(x) /\ Follows(x, x, lost)
  BY Kept
<1> HIDE DEF x
<1>2. /\ y \in Request /\ y.op = x.op /\ y.at = x.at /\ y.doc = x.doc /\ y.seen = x.seen
      /\ y.reloaded = x.reloaded /\ y.row = x.row /\ y.to = x.to /\ y.page = x.page
      /\ y.list = x.list
  <2>1. CASE y = [x EXCEPT !.quiet = TRUE]
    BY <1>1, <2>1 DEF Request
  <2>2. CASE y = [x EXCEPT !.raced = TRUE]
    BY <1>1, <2>2 DEF Request
  <2>3. CASE y = [x EXCEPT !.moved = TRUE]
    BY <1>1, <2>3 DEF Request
  <2> QED BY <2>1, <2>2, <2>3 DEF x
<1>3. (y.quiet = x.quiet \/ y.quiet) /\ (y = [x EXCEPT !.quiet = TRUE] => y.quiet)
  BY <1>1 DEF Request, x
<1>4. Staged(y)
  BY <1>1, <1>2 DEF Staged, Live
<1>5. Follows(x, y, lost)
  BY <1>1, <1>2 DEF Follows, Live, Holds
<1> QED BY <1>2, <1>3, <1>4, <1>5 DEF x

LEMMA EndsOver ==
  ASSUME IInv, NEW r \in Requests, ~Holds(req[r]), NEW y \in {Over(req[r], "done"), Idle}
  PROVE  y \in Request /\ Staged(y) /\ Follows(req[r], y, lost) /\ \A s : Rendered(y, s)
BY Kept, OverTyped, IdleTyped, IdleOver DEF Follows

LEMMA Tokenless ==
  ASSUME IInv, NEW r \in Requests,
         req[r].at \in {"apply", "merge", "touch", "render", "record", "send"}
  PROVE  ~Holds(req[r])
BY DEF IInv, Chained, Sound

LEMMA WriteRowsStep ==
  ASSUME IInv, NEW r \in Requests, WriteRows(r)
  PROVE  IInv'
<1> DEFINE x == req[r]
           copies(i) == Cardinality({n \in DOMAIN x.got : x.got[n] = i})
           new(i) == IF i \in x.known THEN 0 ELSE copies(i)
           y == [x EXCEPT !.at = "touch"]
<1>1. /\ x \in Request /\ Staged(x) /\ Live(x) /\ x.at = "merge" /\ x.op = "sync"
      /\ x.list \in Lists /\ ~Holds(x) /\ Follows(x, x, lost)
  BY Kept, Tokenless DEF WriteRows, Staged, Live
<1>2. \A i : copies(i) \in Nat
  <2> SUFFICES ASSUME NEW i PROVE copies(i) \in Nat
    OBVIOUS
  <2>1. x.got \in Seq(Ids)
    BY <1>1, RequestTyped
  <2>2. Len(x.got) \in Nat /\ DOMAIN x.got = 1..Len(x.got)
    BY <2>1
  <2>3. IsFiniteSet(1..Len(x.got))
    BY <2>2, FS_Interval
  <2>4. {n \in DOMAIN x.got : x.got[n] = i} \subseteq 1..Len(x.got)
    BY <2>2
  <2> QED BY <2>3, <2>4, FS_Subset, FS_CardinalityType
<1>3. \A i : new(i) \in Nat
  BY <1>2
<1>4. local' = [local EXCEPT ![x.list] = [i \in Ids |-> @[i] + new(i)]]
  BY DEF WriteRows
<1>5. local' \in [Lists -> [Ids -> Nat]]
  <2> DEFINE l == x.list
             row == [i \in Ids |-> local[l][i] + new(i)]
  <2>1. local \in [Lists -> [Ids -> Nat]] /\ l \in Lists
    BY <1>1 DEF IInv, TypeOK
  <2> HIDE DEF new
  <2>2. row \in [Ids -> Nat]
    BY <1>3, <2>1
  <2>3. local' = [local EXCEPT ![l] = row]
    BY <1>4
  <2> HIDE DEF row, l
  <2> QED BY <2>1, <2>2, <2>3
<1>6. /\ req' = [q \in Requests |->
                   IF q = r THEN IF x.list = "projects" THEN y ELSE Over(x, "done")
                   ELSE IF req[q].at = "merge" /\ req[q].list = x.list
                        THEN [req[q] EXCEPT !.raced = TRUE] ELSE req[q]]
      /\ UNCHANGED <<conn, current, remote, scope, lost, overlapped, changes>>
  BY DEF WriteRows
<1>7. y \in Request /\ Staged(y) /\ Rendered(y, scope) /\ Follows(x, y, lost)
  <2> HIDE DEF x
  <2>1. /\ y \in Request /\ y.at = "touch" /\ y.op = x.op /\ y.row = x.row /\ y.to = x.to
        /\ y.page = x.page /\ y.list = x.list
    BY <1>1 DEF Request
  <2> HIDE DEF y
  <2> QED BY <1>1, <2>1 DEF Live, Staged, Rendered, Follows
<1>8. \A q \in Requests : /\ req'[q] \in Request /\ Staged(req'[q]) /\ Rendered(req'[q], scope)
                          /\ Follows(req[q], req'[q], lost)
  <2> SUFFICES ASSUME NEW q \in Requests
               PROVE  /\ req'[q] \in Request /\ Staged(req'[q]) /\ Rendered(req'[q], scope)
                      /\ Follows(req[q], req'[q], lost)
    OBVIOUS
  <2>1. CASE q = r
    <3>1. req'[q] \in {y, Over(x, "done")}
      BY <1>6, <2>1
    <3> QED BY <1>1, <1>7, <2>1, <3>1, EndsOver
  <2>2. CASE q # r /\ req'[q] = [req[q] EXCEPT !.raced = TRUE]
    <3>1. req[q].at = "merge" \/ req'[q] = req[q]
      BY <1>6, <2>2
    <3>2. req[q].at = "merge" => req[q].op = "sync"
      BY Kept DEF Staged
    <3> QED BY <2>2, <3>1, <3>2, Kept, Marked DEF Rendered
  <2>3. CASE q # r /\ req'[q] = req[q]
    BY <2>3, Kept
  <2> QED BY <1>6, <2>1, <2>2, <2>3
<1>9. req' \in [Requests -> Request]
  BY <1>6, <1>8
<1>10. TypeOK'
  BY <1>5, <1>6, <1>9 DEF IInv, TypeOK
<1> QED BY <1>6, <1>8, <1>10, MarkStep DEF IInv, Chained

LEMMA TouchConnectionStep ==
  ASSUME IInv, NEW r \in Requests, TouchConnection(r)
  PROVE  IInv'
<1>1. /\ conn' = [conn EXCEPT !.error = FALSE] /\ req' = [req EXCEPT ![r] = Over(req[r], "done")]
      /\ UNCHANGED <<current, remote, local, scope, lost, overlapped, changes>>
      /\ conn \in Row /\ req \in [Requests -> Request] /\ ~Holds(req[r])
  BY Tokenless DEF TouchConnection, IInv, TypeOK
<1>2. /\ conn' \in Row /\ conn'.exists = conn.exists /\ conn'.grant = conn.grant
      /\ conn'.active = conn.active /\ conn'.access = conn.access
      /\ conn'.refresh = conn.refresh
  BY <1>1 DEF Row
<1>3. ~conn'.exists => conn' = NoRow
  <2> SUFFICES ASSUME ~conn.exists PROVE [conn EXCEPT !.error = FALSE] = NoRow
    BY <1>1, <1>2
  <2>1. conn = NoRow
    BY DEF IInv, Chained
  <2>2. conn.error = FALSE
    BY <2>1 DEF NoRow
  <2>3. [conn EXCEPT !.error = FALSE] = conn
    BY <1>1, <2>2 DEF Row
  <2> QED BY <2>1, <2>3
<1>4. Over(req[r], "done") \in Request
  BY <1>1, EndsOver
<1>5. \A q \in Requests : /\ Staged(req'[q]) /\ Rendered(req'[q], scope)
                          /\ Follows(req[q], req'[q], lost)
  BY <1>1, EndsOver, Kept
<1>6. TypeOK'
  BY <1>1, <1>2, <1>4 DEF IInv, TypeOK
<1> QED BY <1>1, <1>2, <1>3, <1>5, <1>6, MarkStep

(* What was rendered before an edit of the row is recognized by its version. *)
LEMMA LaterVersion ==
  ASSUME NEW x \in Request, NEW s \in ScopeRow, NEW t \in ScopeRow, Rendered(x, s),
         s.version < t.version
  PROVE  Rendered(x, t)
<1>1. x.seen # None => x.seen.version \in Nat
  BY RequestTyped DEF ScopeRow
<1> QED BY <1>1 DEF Rendered, ScopeRow

LEMMA RecordStep ==
  ASSUME IInv, NEW r \in Requests, Record(r)
  PROVE  IInv'
<1>1. /\ UNCHANGED <<conn, current, remote, local, lost, overlapped, changes>>
      /\ scope \in ScopeRow /\ req \in [Requests -> Request] /\ req[r] \in Request
      /\ ~Holds(req[r]) /\ req[r].doc # None /\ req[r].doc \in Nat \union {None}
  BY Tokenless, Kept, RequestTyped DEF Record, IInv, TypeOK, Staged
<1>2. PICK y \in {Over(req[r], "done"), Idle} : req' = [req EXCEPT ![r] = y]
  BY DEF Record
<1>3. \/ scope' = [scope EXCEPT !.version = @ + 1, !.synced = req[r].doc]
      \/ scope' = scope
  BY DEF Record
<1>4. scope' \in ScopeRow /\ (scope' = scope \/ scope.version < scope'.version)
  <2>1. CASE scope' = [scope EXCEPT !.version = @ + 1, !.synced = req[r].doc]
    <3> DEFINE d == req[r].doc
               v == scope.version + 1
    <3>1. d \in Nat /\ v \in Nat /\ scope.version < v
      BY <1>1 DEF ScopeRow
    <3>2. scope' = [scope EXCEPT !.version = v, !.synced = d]
      BY <1>1, <2>1 DEF ScopeRow
    <3> HIDE DEF d, v
    <3>3. scope' \in ScopeRow /\ scope'.version = v
      BY <1>1, <3>1, <3>2 DEF ScopeRow
    <3> QED BY <3>1, <3>3
  <2> QED BY <1>1, <1>3, <2>1
<1>5. y \in Request /\ Staged(y) /\ Follows(req[r], y, lost) /\ Rendered(y, scope')
  BY <1>1, EndsOver
<1>6. \A q \in Requests : /\ Staged(req'[q]) /\ Rendered(req'[q], scope')
                          /\ Follows(req[q], req'[q], lost)
  <2> SUFFICES ASSUME NEW q \in Requests
               PROVE  /\ Staged(req'[q]) /\ Rendered(req'[q], scope')
                      /\ Follows(req[q], req'[q], lost)
    OBVIOUS
  <2>1. CASE q = r
    BY <1>1, <1>2, <1>5, <2>1
  <2>2. CASE q # r
    <3>1. req'[q] = req[q]
      BY <1>1, <1>2, <2>2
    <3>2. Rendered(req[q], scope')
      BY <1>1, <1>4, Kept, LaterVersion
    <3> QED BY <3>1, <3>2, Kept
  <2> QED BY <2>1, <2>2
<1>7. TypeOK'
  BY <1>1, <1>2, <1>4, <1>5 DEF IInv, TypeOK
<1> QED BY <1>1, <1>6, <1>7, MarkStep DEF IInv, Chained

LEMMA EditScopeStep ==
  ASSUME IInv, NEW quiet \in BOOLEAN, EditScope(quiet)
  PROVE  IInv'
<1>1. /\ scope' = [scope EXCEPT !.content = @ + 1, !.version = IF quiet THEN @ ELSE @ + 1]
      /\ req' = [q \in Requests |-> IF req[q].op = "push" /\ quiet
                                    THEN [req[q] EXCEPT !.quiet = TRUE] ELSE req[q]]
      /\ UNCHANGED <<conn, current, remote, local, lost, overlapped, changes>>
      /\ scope \in ScopeRow
  BY DEF EditScope, IInv, TypeOK
<1>2. /\ scope' \in ScopeRow
      /\ scope'.version = (IF quiet THEN scope.version ELSE scope.version + 1)
  <2> DEFINE v == IF quiet THEN scope.version ELSE scope.version + 1
             c == scope.content + 1
  <2>1. v \in Nat /\ c \in Nat
    BY <1>1 DEF ScopeRow
  <2>2. scope' = [scope EXCEPT !.content = c, !.version = v]
    BY <1>1 DEF ScopeRow
  <2> HIDE DEF v, c
  <2>3. scope' \in ScopeRow /\ scope'.version = v
    BY <1>1, <2>1, <2>2 DEF ScopeRow
  <2> QED BY <2>3 DEF v
<1>3. \A q \in Requests : /\ req'[q] \in Request /\ Staged(req'[q]) /\ Rendered(req'[q], scope')
                          /\ Follows(req[q], req'[q], lost)
  <2> SUFFICES ASSUME NEW q \in Requests
               PROVE  /\ req'[q] \in Request /\ Staged(req'[q]) /\ Rendered(req'[q], scope')
                      /\ Follows(req[q], req'[q], lost)
    OBVIOUS
  <2>1. CASE req[q].op = "push" /\ quiet
    <3>1. req'[q] = [req[q] EXCEPT !.quiet = TRUE]
      BY <1>1, <2>1
    <3> QED BY <3>1, Marked DEF Rendered
  <2>2. CASE ~quiet
    <3>1. req'[q] = req[q] /\ scope.version < scope'.version
      BY <1>1, <1>2, <2>2 DEF ScopeRow
    <3> QED BY <1>1, <1>2, <3>1, Kept, LaterVersion
  <2>3. CASE req[q].op # "push"
    <3>1. req'[q] = req[q]
      BY <1>1, <2>3
    <3> QED BY <2>3, <3>1, Kept DEF Rendered
  <2> QED BY <2>1, <2>2, <2>3
<1>4. TypeOK'
  BY <1>1, <1>2, <1>3 DEF IInv, TypeOK
<1> QED BY <1>1, <1>3, <1>4, MarkStep DEF IInv, Chained

LEMMA ChangeListingStep ==
  ASSUME IInv, NEW l \in Lists, ChangeListing(l)
  PROVE  IInv'
<1>1. /\ changes \in Nat /\ changes' = changes + 1
      /\ req' = [q \in Requests |-> IF req[q].list = l /\ Reads(req[q])
                                    THEN [req[q] EXCEPT !.moved = TRUE] ELSE req[q]]
      /\ UNCHANGED <<conn, current, local, scope, lost, overlapped>>
      /\ remote \in [Lists -> Seq(Ids)] /\ remote[l] \in Seq(Ids)
  BY DEF ChangeListing, IInv, TypeOK
<1>2. remote' \in [Lists -> Seq(Ids)]
  <2>1. CASE \E i \in Ids \ ToSet(remote[l]) : remote' = [remote EXCEPT ![l] = <<i>> \o @]
    <3>1. PICK i \in Ids : remote' = [remote EXCEPT ![l] = <<i>> \o @]
      BY <2>1
    <3>2. <<i>> \o remote[l] \in Seq(Ids)
      BY <1>1
    <3> QED BY <1>1, <3>1, <3>2
  <2>2. CASE remote[l] # <<>> /\ remote' = [remote EXCEPT ![l] = Tail(@)]
    <3>1. Tail(remote[l]) \in Seq(Ids)
      BY <1>1, <2>2
    <3> QED BY <1>1, <2>2, <3>1
  <2> QED BY <2>1, <2>2 DEF ChangeListing
<1>3. \A q \in Requests : /\ req'[q] \in Request /\ Staged(req'[q]) /\ Rendered(req'[q], scope)
                          /\ Follows(req[q], req'[q], lost)
  <2> SUFFICES ASSUME NEW q \in Requests
               PROVE  /\ req'[q] \in Request /\ Staged(req'[q]) /\ Rendered(req'[q], scope)
                      /\ Follows(req[q], req'[q], lost)
    OBVIOUS
  <2>1. CASE req'[q] = [req[q] EXCEPT !.moved = TRUE]
    <3> DEFINE x == req[q]
               y == req'[q]
    <3>1. x \in Request /\ Rendered(x, scope) /\ y = [x EXCEPT !.moved = TRUE]
      BY <2>1, Kept
    <3> HIDE DEF x, y
    <3>2. y.quiet = x.quiet
      BY <3>1 DEF Request
    <3>3. /\ y \in Request /\ Staged(y) /\ Follows(req[q], y, lost) /\ y.op = x.op
          /\ y.at = x.at /\ y.doc = x.doc /\ y.seen = x.seen /\ y.reloaded = x.reloaded
      BY <2>1, Marked DEF x, y
    <3>4. Rendered(y, scope)
      BY <3>1, <3>2, <3>3 DEF Rendered, Live
    <3> QED BY <3>3, <3>4 DEF y
  <2>2. CASE req'[q] = req[q]
    BY <2>2, Kept
  <2> QED BY <1>1, <2>1, <2>2
<1>4. TypeOK'
  BY <1>1, <1>2, <1>3 DEF IInv, TypeOK
<1> QED BY <1>1, <1>3, <1>4, MarkStep DEF IInv, Chained

-----------------------------------------------------------------------------
(* The specification. *)

LEMMA MintStep ==
  ASSUME IInv, NEW r \in Requests,
         Mint(r) \/ RefreshExpired(r) \/ RefreshOn401(r)
  PROVE  IInv'
<1>1. req[r] \in Request
  BY Kept
<1>2. CASE Mint(r)
  BY <1>2, RefreshStep DEF Mint
<1>3. CASE RefreshExpired(r)
  BY <1>1, <1>3, RequestTyped, RefreshStep DEF RefreshExpired
<1>4. CASE RefreshOn401(r)
  BY <1>4, RefreshStep DEF RefreshOn401, CanCall
<1> QED BY <1>2, <1>3, <1>4

LEMMA InitHolds == Init => IInv
<1> SUFFICES ASSUME Init PROVE IInv
  OBVIOUS
<1>1. /\ conn = NoRow /\ conn \in Row /\ conn.refresh = None /\ conn.access = None
      /\ conn.active /\ ~conn.exists
  BY NoRowTyped DEF Init
<1>2. \A r \in Requests : req[r] = Idle
  BY DEF Init
<1>3. TypeOK
  BY <1>1, IdleTyped, ProcoreAssumption DEF Init, TypeOK, ScopeRow, Lists
<1>4. \A r \in Requests : /\ Staged(req[r]) /\ Rendered(req[r], scope)
                          /\ ~Live(req[r]) /\ ~Holds(req[r]) /\ req[r].row = None
  BY <1>2, IdleOver, IdleTyped
<1>5. Chained(conn, current, lost, overlapped, req)
  <2>1. \A r \in Requests : Sound(req[r], conn, current)
    BY <1>4 DEF Sound
  <2>2. Alone(conn, req) /\ Newest(conn, current, lost, req)
    BY <1>1, <1>4 DEF Alone, Apart, Newest
  <2>3. GivenUp(conn, overlapped, req) /\ Unlinked(conn, overlapped, req)
    BY <1>1, <1>4 DEF GivenUp, Unlinked
  <2> QED BY <1>1, <2>1, <2>2, <2>3 DEF Chained, Numbered
<1> QED BY <1>3, <1>4, <1>5 DEF IInv

LEMMA NextHolds == IInv /\ [Next]_vars => IInv'
<1> SUFFICES ASSUME IInv, [Next]_vars PROVE IInv'
  OBVIOUS
<1>1. ASSUME NEW r \in Requests,
             \/ SubmitIndex(r) \/ SubmitSync(r) \/ SubmitPush(r)
             \/ SubmitCallback(r) \/ SubmitService(r) \/ SubmitDisconnect(r)
      PROVE  IInv'
  BY <1>1, SubmitIndexStep, SubmitSyncStep, SubmitPushStep, SubmitCallbackStep,
     SubmitServiceStep, SubmitDisconnectStep
<1>2. ASSUME NEW r \in Requests,
             \/ ExchangeCode(r) \/ Mint(r) \/ RefreshExpired(r) \/ RefreshOn401(r)
             \/ Store(r) \/ Commit(r)
      PROVE  IInv'
  BY <1>2, ExchangeCodeStep, MintStep, StoreStep, CommitStep
<1>3. ASSUME NEW r \in Requests, Fail(r) \/ Refuse(r) \/ Die(r) \/ Respond(r)
      PROVE  IInv'
  BY <1>3, FailStep, EndStep DEF Refuse, Die, Respond
<1>4. ASSUME NEW r \in Requests,
             Identify(r) \/ FetchPage(r) \/ FallBack(r) \/ Render(r) \/ Push(r)
      PROVE  IInv'
  BY <1>4, IdentifyStep, FetchPageStep, FallBackStep, RenderStep, PushStep
<1>5. ASSUME NEW r \in Requests,
             ReadRows(r) \/ WriteRows(r) \/ TouchConnection(r) \/ Record(r)
      PROVE  IInv'
  BY <1>5, ReadRowsStep, WriteRowsStep, TouchConnectionStep, RecordStep
<1>6. ASSUME NEW quiet \in BOOLEAN, EditScope(quiet) PROVE IInv'
  BY <1>6, EditScopeStep
<1>7. ASSUME NEW l \in Lists, ChangeListing(l) PROVE IInv'
  BY <1>7, ChangeListingStep
<1>8. CASE UNCHANGED vars
  BY <1>8 DEF vars, IInv, TypeOK, Staged, Rendered, Live, Holds, Chained, Numbered, Sound,
              Pending, Alone, Apart, Newest, GivenUp, Unlinked
<1> QED BY <1>1, <1>2, <1>3, <1>4, <1>5, <1>6, <1>7, <1>8 DEF Next

LEMMA Inductive == Spec => []IInv
BY InitHolds, NextHolds, PTL DEF Spec

\* Every reachable state has its type: what a session loads, assigns and writes
\* back column by column is a row (procore_client.py, procore_sync.py).
THEOREM TypeCorrect == Spec => []TypeOK
<1>1. IInv => TypeOK
  BY DEF IInv
<1> QED BY <1>1, Inductive, PTL

\* While a person's connection is active, Procore accepts the stored refresh token,
\* whatever requests overlap, unless its successor is about to be stored or went
\* astray, or a disconnection met another request (ensure_token, request,
\* apply_token_response): a rotated token is in one place until it is stored.
THEOREM ChainIsKept == Spec => []ChainKept
<1>1. IInv => ChainKept
  <2> SUFFICES ASSUME IInv, conn.active, conn.grant = Person, conn.access # None
               PROVE  IF conn.refresh = None THEN overlapped
                      ELSE LET newest == <<conn.refresh[1], current[conn.refresh[1]]>>
                           IN \/ conn.refresh = newest \/ newest[1] \in lost
                              \/ \E r \in Requests : Holds(req[r]) /\ req[r].to.refresh = newest
    BY DEF ChainKept
  <2>1. /\ conn \in Row /\ overlapped \in BOOLEAN
        /\ Newest(conn, current, lost, req) /\ Unlinked(conn, overlapped, req)
        /\ \A r \in Requests : /\ req[r] \in Request /\ Staged(req[r])
                               /\ Sound(req[r], conn, current)
    BY DEF IInv, TypeOK, Chained
  <2>2. CASE conn.refresh = None
    BY <2>1, <2>2 DEF Unlinked
  <2>3. CASE conn.refresh # None
    <3> DEFINE c == conn.refresh[1]
    <3>1. conn.refresh = <<c, conn.refresh[2]>>
      BY <2>1, <2>3, RowTyped, TokenTyped
    <3>2. \A r \in Requests : Holds(req[r]) /\ req[r].to.refresh[1] = c
                                => req[r].to.refresh = <<c, current[c]>>
      <4> SUFFICES ASSUME NEW r \in Requests, Holds(req[r]), req[r].to.refresh[1] = c
                   PROVE  req[r].to.refresh = <<c, current[c]>>
        OBVIOUS
      <4>1. req[r].to.refresh \in Tokens
        BY <2>1, HoldsLive
      <4>2. req[r].to.refresh[2] = current[req[r].to.refresh[1]]
        BY <2>1 DEF Sound
      <4> QED BY <4>1, <4>2, TokenTyped
    <3> QED BY <2>1, <2>3, <3>1, <3>2 DEF Newest
  <2> QED BY <2>2, <2>3
<1> QED BY <1>1, Inductive, PTL

\* A connection that was given up holds no token, unless the disconnection met
\* another request (disconnect, Connection.disconnect): nothing that begins later
\* brings one back without making the connection active again.
THEOREM Forgotten == Spec => []ForgottenOnDisconnect
<1>1. IInv => ForgottenOnDisconnect
  BY DEF IInv, TypeOK, Chained, GivenUp, ForgottenOnDisconnect
<1> QED BY <1>1, Inductive, PTL

\* A scope is marked as attached with its present content, unless it was edited
\* without its row or its row was read again after the rendering (push_scope): the
\* version that was loaded before the rendering recognizes every other edit.
THEOREM AttachedCurrent == Spec => AttachedIsCurrent
<1>1. IInv /\ [Next]_vars =>
        [\A r \in Requests :
           req[r].at = "record" /\ req'[r].at = "done" /\ req[r].doc # scope.content
             => req[r].quiet \/ req[r].reloaded]_vars
  <2> SUFFICES ASSUME IInv, Next, NEW r \in Requests,
                      req[r].at = "record", req'[r].at = "done", req[r].doc # scope.content,
                      ~req[r].quiet, ~req[r].reloaded
               PROVE  FALSE
    OBVIOUS
  <2>1. /\ req[r] \in Request /\ Staged(req[r]) /\ Rendered(req[r], scope) /\ Live(req[r])
        /\ req \in [Requests -> Request] /\ scope \in ScopeRow
    BY Kept DEF IInv, TypeOK, Live
  <2>2. req[r].op = "push" /\ req[r].doc # None /\ req[r].seen # None
    BY <2>1 DEF Staged, Rendered
  <2>3. req[r].seen.version # scope.version
    BY <2>1, <2>2 DEF Rendered
  <2>4. ~CurrentVersion(req[r])
    BY <2>2, <2>3 DEF CurrentVersion
  <2>5. req'[r].at # "done"
    <3>1. CASE \E quiet \in BOOLEAN : EditScope(quiet)
      BY <2>1, <3>1, Marked DEF EditScope
    <3>2. CASE \E l \in Lists : ChangeListing(l)
      BY <2>1, <3>2, Marked DEF ChangeListing
    <3>3. ASSUME NEW q \in Requests \ {r}, WriteRows(q)
          PROVE  req'[r].at # "done"
      <4>1. req'[r] = req[r] \/ req'[r] = [req[r] EXCEPT !.raced = TRUE]
        BY <3>3 DEF WriteRows
      <4> QED BY <4>1, Marked
    <3>4. ASSUME NEW q \in Requests \ {r}, NEW y, req' = [req EXCEPT ![q] = y]
          PROVE  req'[r].at # "done"
      BY <2>1, <3>4
    <3>5. ASSUME NEW q \in Requests \ {r},
                 \/ SubmitIndex(q) \/ SubmitSync(q) \/ SubmitPush(q)
                 \/ SubmitCallback(q) \/ SubmitService(q) \/ SubmitDisconnect(q)
          PROVE  req'[r].at # "done"
      BY <3>4, <3>5 DEF Submit, SubmitIndex, SubmitSync, SubmitPush, SubmitCallback,
                        SubmitService, SubmitDisconnect
    <3>6. ASSUME NEW q \in Requests \ {r},
                 \/ ExchangeCode(q) \/ Mint(q) \/ RefreshExpired(q) \/ RefreshOn401(q)
                 \/ Fail(q) \/ Store(q) \/ Commit(q) \/ Refuse(q) \/ Die(q) \/ Respond(q)
          PROVE  req'[r].at # "done"
      BY <3>4, <3>6 DEF ExchangeCode, Mint, RefreshExpired, RefreshOn401, Refresh, Fail, Store,
                        Commit, Refuse, Die, Respond, End
    <3>7. ASSUME NEW q \in Requests \ {r},
                 \/ Identify(q) \/ FetchPage(q) \/ FallBack(q) \/ Render(q) \/ Push(q)
                 \/ TouchConnection(q) \/ Record(q)
          PROVE  req'[r].at # "done"
      BY <3>4, <3>7 DEF Identify, FetchPage, FallBack, Render, Push, TouchConnection, Record
    <3>8. ASSUME NEW q \in Requests \ {r}, ReadRows(q)
          PROVE  req'[r].at # "done"
      BY <2>1, <3>8 DEF ReadRows
    <3>9. Loaded(req[r]).at = "record"
      BY <2>1, LoadedTyped DEF IInv, TypeOK
    <3>10. CASE \/ SubmitIndex(r) \/ SubmitSync(r) \/ SubmitPush(r)
               \/ SubmitCallback(r) \/ SubmitService(r) \/ SubmitDisconnect(r)
               \/ ExchangeCode(r) \/ Mint(r) \/ RefreshExpired(r) \/ RefreshOn401(r)
               \/ Fail(r) \/ Store(r) \/ Commit(r) \/ Refuse(r) \/ Respond(r)
               \/ Identify(r) \/ FetchPage(r) \/ FallBack(r) \/ Render(r) \/ Push(r)
               \/ ReadRows(r) \/ WriteRows(r) \/ TouchConnection(r)
      BY <2>2, <3>9, <3>10 DEF Submit, SubmitIndex, SubmitSync, SubmitPush, SubmitCallback,
           SubmitService, SubmitDisconnect, ExchangeCode, Mint, RefreshExpired, RefreshOn401,
           CanCall, Fail, Store, Commit, Refuse, Respond, Identify, FetchPage, FallBack,
           Render, Push, ReadRows, WriteRows, TouchConnection
    <3>11. CASE Die(r) \/ Record(r)
      <4>1. req' = [req EXCEPT ![r] = Idle]
        BY <2>4, <3>11 DEF Die, End, Record
      <4> QED BY <2>1, <4>1, IdleTyped
    <3> QED BY <3>1, <3>2, <3>3, <3>5, <3>6, <3>7, <3>8, <3>10, <3>11 DEF Next
  <2> QED BY <2>5
<1> QED BY <1>1, Inductive, PTL DEF Spec, AttachedIsCurrent

-----------------------------------------------------------------------------
(* Listings. *)

Fetching(x) == x.op = "sync" /\ x.at \in {"check", "send", "answered"}

Ahead(x) == (x.page - 1) * PerPage

(* What a sync has read of a listing that has not changed, and of what is here. *)
Listed(x) ==
  x.op = "sync" /\ Live(x) =>
    /\ x.page <= MaxPages
    /\ ~x.moved /\ Fetching(x) =>
         Ahead(x) <= Len(remote[x.list]) /\ x.got = SubSeq(remote[x.list], 1, Ahead(x))
    /\ ~x.moved /\ x.at \in {"apply", "merge"} =>
         x.got = SubSeq(remote[x.list], 1, UpTo(x.list, MaxPages * PerPage))
    /\ x.at = "merge" => x.known \subseteq Here(x.list) /\ (x.raced \/ x.known = Here(x.list))

LInv == /\ \A l \in Lists : IsInjective(remote[l])
        /\ \A r \in Requests : Listed(req[r])

(* As far as listings go, y is not a sync or goes on as x did. *)
Continues(x, y) ==
  \/ y.op # "sync"
  \/ ~Live(y)
  \/ /\ x.op = "sync" /\ Live(x) /\ y.list = x.list /\ y.page = x.page /\ y.got = x.got
     /\ y.moved = x.moved /\ y.known = x.known /\ y.raced = x.raced
     /\ y.at = x.at \/ (Fetching(x) /\ Fetching(y))

LEMMA ContinuesListed ==
  ASSUME NEW x, NEW y, Listed(x), Continues(x, y)
  PROVE  Listed(y)
BY DEF Listed, Continues, Fetching, Ahead

LEMMA OneListed ==
  ASSUME IInv, LInv, NEW r \in Requests, NEW y, Listed(y), req' = [req EXCEPT ![r] = y],
         UNCHANGED <<remote, local>>
  PROVE  LInv'
<1>1. \A q \in Requests : req'[q] = y \/ req'[q] = req[q]
  BY DEF IInv, TypeOK
<1>2. \A q \in Requests : Listed(req'[q])
  BY <1>1 DEF LInv
<1> QED BY <1>2 DEF LInv, Listed, Fetching, Ahead, UpTo, Here, Live

LEMMA OneContinues ==
  ASSUME IInv, LInv, NEW r \in Requests, NEW y, Continues(req[r], y),
         req' = [req EXCEPT ![r] = y], UNCHANGED <<remote, local>>
  PROVE  LInv'
<1>1. Listed(y)
  BY ContinuesListed DEF LInv
<1> QED BY <1>1, OneListed

LEMMA LoadedContinues ==
  ASSUME IInv, NEW r \in Requests
  PROVE  LET x == Loaded(req[r])
         IN /\ x \in Request /\ x.op = req[r].op /\ x.at = req[r].at
            /\ x.list = req[r].list /\ x.page = req[r].page /\ x.got = req[r].got
            /\ x.moved = req[r].moved /\ x.known = req[r].known /\ x.raced = req[r].raced
<1> DEFINE x == req[r]
           y == [x EXCEPT !.row = conn, !.to = conn]
<1>1. x \in Request /\ conn \in Row
  BY DEF IInv, TypeOK
<1> HIDE DEF x
<1>2. y.moved = x.moved /\ y.known = x.known /\ y.raced = x.raced
  BY <1>1 DEF Request
<1>3. Loaded(x) = IF x.row = None THEN y ELSE x
  BY DEF Loaded
<1> HIDE DEF y
<1> QED BY <1>1, <1>2, <1>3, LoadedTyped DEF x

-----------------------------------------------------------------------------
(* A sync goes on. *)

LEMMA SubmitSyncListed ==
  ASSUME IInv, LInv, NEW r \in Requests, SubmitSync(r)
  PROVE  LInv'
<1>1. PICK l \in {"projects"} \union (Lists \intersect Here("projects")) :
        Submit(r, [Connected("sync") EXCEPT !.list = l])
  BY DEF SubmitSync
<1>2. l \in Lists /\ remote[l] \in Seq(Ids) /\ conn \in Row
  BY ProcoreAssumption DEF IInv, TypeOK
<1> DEFINE i == Idle
           z == [i EXCEPT !.op = "sync", !.at = "check", !.row = conn, !.to = conn]
           y == [z EXCEPT !.list = l]
<1>3. i \in Request /\ i.page = 1 /\ i.got = <<>>
  BY IdleTyped
<1>4. req' = [req EXCEPT ![r] = y] /\ UNCHANGED <<remote, local>>
  BY <1>1 DEF Submit, Connected
<1> HIDE DEF i
<1>5. z \in Request /\ z.page = 1 /\ z.got = <<>> /\ z.at = "check"
  BY <1>2, <1>3 DEF Request
<1> HIDE DEF z
<1>6. y.page = 1 /\ y.got = <<>> /\ y.at = "check" /\ y.list = l
  BY <1>2, <1>5 DEF Request
<1> HIDE DEF y
<1>7. Ahead(y) = 0 /\ 1 <= MaxPages
  BY <1>6, ProcoreAssumption DEF Ahead
<1>8. SubSeq(remote[l], 1, 0) = <<>> /\ Len(remote[l]) \in Nat
  BY <1>2, SubSeqEmpty
<1>9. Listed(y)
  BY <1>6, <1>7, <1>8 DEF Listed
<1> QED BY <1>4, <1>9, OneListed

LEMMA FailedEnds ==
  ASSUME NEW x \in Request
  PROVE  Failed(x).op # "sync" \/ ~Live(Failed(x))
<1>1. CASE x.op = "index"
  <2> DEFINE u == [x.to EXCEPT !.error = TRUE]
             y == [x EXCEPT !.at = "commit", !.to = u]
  <2>1. Failed(x) = y
    BY <1>1 DEF Failed, Request
  <2> HIDE DEF u
  <2>2. y.op = x.op
    BY DEF Request
  <2> QED BY <1>1, <2>1, <2>2
<1>2. CASE x.op # "index"
  BY <1>2, OverTyped DEF Failed
<1> QED BY <1>1, <1>2

LEMMA RefreshListed ==
  ASSUME IInv, LInv, NEW r \in Requests, NEW then \in {"check", "send"},
         NEW again \in BOOLEAN, Refresh(r, then, again), req[r].at \in {"token", "check", "send"}
  PROVE  LInv'
<1> DEFINE x == Loaded(req[r])
           Answered(c) == [x EXCEPT !.at = "answered", !.then = then, !.retried = again,
                                    !.to = ApplyTokenResponse(x.to, <<c, current[c] + 1>>)]
<1>1. PICK c \in Asked(x) :
        \/ req' = [req EXCEPT ![r] = Answered(c)]
        \/ req' = [req EXCEPT ![r] = Failed(x)]
  BY DEF Refresh
<1>2. UNCHANGED <<remote, local>>
  BY DEF Refresh
<1>3. /\ x \in Request /\ x.op = req[r].op /\ x.at = req[r].at
      /\ x.list = req[r].list /\ x.page = req[r].page /\ x.got = req[r].got
      /\ x.moved = req[r].moved /\ x.known = req[r].known /\ x.raced = req[r].raced
  BY LoadedContinues
<1>4. req[r].op = "sync" => req[r].at # "token"
  BY Kept DEF Staged
<1> HIDE DEF x
<1>5. CASE req' = [req EXCEPT ![r] = Answered(c)]
  <2> DEFINE u == ApplyTokenResponse(x.to, <<c, current[c] + 1>>)
             y == [x EXCEPT !.at = "answered", !.then = then, !.retried = again, !.to = u]
  <2>1. req' = [req EXCEPT ![r] = y]
    BY <1>5
  <2> HIDE DEF u
  <2>2. y.op = x.op /\ y.at = "answered" /\ y.list = x.list /\ y.page = x.page
    BY <1>3 DEF Request
  <2>3. y.got = x.got /\ y.moved = x.moved /\ y.known = x.known /\ y.raced = x.raced
    BY <1>3 DEF Request
  <2> HIDE DEF y
  <2>4. Continues(req[r], y)
    BY <1>3, <1>4, <2>2, <2>3 DEF Continues, Fetching, Live
  <2> QED BY <1>2, <2>1, <2>4, OneContinues
<1>6. CASE req' = [req EXCEPT ![r] = Failed(x)]
  <2>1. Failed(x).op # "sync" \/ ~Live(Failed(x))
    BY <1>3, FailedEnds
  <2>2. Continues(req[r], Failed(x))
    BY <2>1 DEF Continues
  <2> QED BY <1>2, <1>6, <2>2, OneContinues
<1> QED BY <1>1, <1>5, <1>6

LEMMA StoreListed ==
  ASSUME IInv, LInv, NEW r \in Requests, Store(r)
  PROVE  LInv'
<1> DEFINE x == req[r]
           again == (x.doc # None)
           y == [x EXCEPT !.at = x.then, !.row = None, !.to = None, !.seen = None,
                          !.reloaded = again]
<1>1. x \in Request /\ x.at = "answered" /\ x.then \in {"check", "send"}
  BY RequestTyped DEF IInv, TypeOK, Store
<1>2. req' = [req EXCEPT ![r] = y] /\ UNCHANGED <<remote, local>>
  BY DEF Store
<1> HIDE DEF x, again
<1>3. y.op = x.op /\ y.at = x.then /\ y.list = x.list /\ y.page = x.page
  BY <1>1 DEF Request
<1>4. y.got = x.got /\ y.moved = x.moved /\ y.known = x.known /\ y.raced = x.raced
  BY <1>1 DEF Request
<1> HIDE DEF y
<1>5. Continues(x, y)
  BY <1>1, <1>3, <1>4 DEF Continues, Fetching, Live
<1> QED BY <1>2, <1>5, OneContinues DEF x

LEMMA FallBackListed ==
  ASSUME IInv, LInv, NEW r \in Requests, FallBack(r)
  PROVE  LInv'
<1> DEFINE x == Loaded(req[r])
           z == NextCall(x)
           y == [z EXCEPT !.flat = TRUE, !.got = <<>>, !.page = 1, !.moved = FALSE]
<1>1. x \in Request /\ x.list = req[r].list /\ req[r].op = "sync" /\ Live(req[r])
  BY LoadedContinues DEF FallBack, CanCall, Live
<1>2. req' = [req EXCEPT ![r] = y] /\ UNCHANGED <<remote, local>>
  BY DEF FallBack, Unchanged
<1>3. z \in Request /\ z.list = x.list /\ z.at = "check"
  BY <1>1, NextCallTyped
<1>4. x.list \in Lists /\ remote[x.list] \in Seq(Ids)
  BY <1>1, Kept DEF Staged, IInv, TypeOK
<1> HIDE DEF x, z
<1>5. y.list = x.list /\ y.page = 1 /\ y.got = <<>> /\ y.at = "check"
  BY <1>3 DEF Request
<1> HIDE DEF y
<1>6. Ahead(y) = 0 /\ 1 <= MaxPages
  BY <1>5, ProcoreAssumption DEF Ahead
<1>7. SubSeq(remote[x.list], 1, 0) = <<>> /\ Len(remote[x.list]) \in Nat
  BY <1>4, SubSeqEmpty
<1>8. Listed(y)
  BY <1>5, <1>6, <1>7 DEF Listed
<1> QED BY <1>2, <1>8, OneListed

LEMMA ReadRowsListed ==
  ASSUME IInv, LInv, NEW r \in Requests, ReadRows(r)
  PROVE  LInv'
<1> DEFINE x == req[r]
           here == Here(x.list)
           y == [x EXCEPT !.at = "merge", !.known = here]
<1>1. x \in Request /\ x.at = "apply" /\ x.op = "sync" /\ Listed(x) /\ Live(x)
  BY Kept DEF ReadRows, Staged, LInv, Live
<1>2. req' = [req EXCEPT ![r] = y] /\ UNCHANGED <<remote, local>>
  BY <1>1 DEF ReadRows, IInv, TypeOK, Request, Unchanged
<1> HIDE DEF x, here
<1>3. y.at = "merge" /\ y.known = here /\ y.list = x.list /\ y.page = x.page
  BY <1>1 DEF Request
<1>4. y.got = x.got /\ y.moved = x.moved
  BY <1>1 DEF Request
<1> HIDE DEF y
<1>5. Listed(y)
  BY <1>1, <1>3, <1>4 DEF Listed, Fetching, here
<1> QED BY <1>2, <1>5, OneListed

(* Pages that follow each other make up the listing. *)
LEMMA Pages ==
  ASSUME IInv, NEW x \in Request, x.list \in Lists, x.page >= 1, x.page <= MaxPages,
         Ahead(x) <= Len(remote[x.list]), x.got = SubSeq(remote[x.list], 1, Ahead(x))
  PROVE  LET batch == Batch(x.list, x.page)
             end == x.page * PerPage
         IN IF GoesOn(batch, x.page)
            THEN end <= Len(remote[x.list]) /\ x.got \o batch = SubSeq(remote[x.list], 1, end)
            ELSE x.got \o batch = SubSeq(remote[x.list], 1, UpTo(x.list, MaxPages * PerPage))
<1> DEFINE s == remote[x.list]
           a == Ahead(x)
           end == x.page * PerPage
           u == UpTo(x.list, end)
           batch == Batch(x.list, x.page)
           limit == MaxPages * PerPage
<1>1. /\ s \in Seq(Ids) /\ Len(s) \in Nat /\ x.page \in Nat /\ PerPage \in Nat \ {0}
      /\ MaxPages \in Nat
  BY ProcoreAssumption, RequestTyped DEF IInv, TypeOK
<1>2. a \in Nat /\ end \in Nat /\ end = a + PerPage /\ FirstOf(x.page) = a + 1
  BY <1>1 DEF Ahead, FirstOf
<1>3. limit \in Nat /\ end <= limit
  <2>1. \A m, n, p \in Nat : m <= n => m * p <= n * p
    OBVIOUS
  <2> QED BY <1>1, <2>1
<1>4. u = IF end <= Len(s) THEN end ELSE Len(s)
  BY DEF UpTo
<1>5. batch = SubSeq(s, a + 1, u)
  BY <1>2 DEF Batch
<1>6. UpTo(x.list, limit) = IF limit <= Len(s) THEN limit ELSE Len(s)
  BY DEF UpTo
<1> HIDE DEF s, a, end, u, batch, limit
<1>7. u \in a..Len(s)
  BY <1>1, <1>2, <1>4 DEF s, a
<1>8. x.got \o batch = SubSeq(s, 1, u)
  <2>1. a \in 0..Len(s) /\ 1 \in 1..Len(s) + 1
    BY <1>1, <1>2 DEF s, a
  <2>2. SubSeq(s, 1, a) \o SubSeq(s, a + 1, u) = SubSeq(s, 1, u)
    BY <1>1, <1>7, <2>1, ConcatAdjacentSubSeq
  <2> QED BY <1>5, <2>2 DEF s, a
<1>9. Len(batch) = u - a
  <2>1. \A i \in (a + 1)..u : s[i] \in Ids
    BY <1>1, <1>2, <1>7
  <2>2. Len(batch) = IF a + 1 <= u THEN u - (a + 1) + 1 ELSE 0
    BY <1>2, <1>5, <1>7, <2>1, SubSeqProperties
  <2> QED BY <1>1, <1>2, <1>7, <2>2
<1>10. CASE GoesOn(batch, x.page)
  <2>1. u = end /\ end <= Len(s)
    BY <1>1, <1>2, <1>4, <1>7, <1>9, <1>10 DEF GoesOn
  <2> QED BY <1>8, <1>10, <2>1 DEF s, end, batch
<1>11. CASE ~GoesOn(batch, x.page)
  <2>1. CASE x.page = MaxPages
    <3>1. UpTo(x.list, limit) = u
      BY <2>1 DEF u, limit, end
    <3> QED BY <1>8, <1>11, <3>1 DEF s, batch, limit
  <2>2. CASE x.page < MaxPages
    <3>1. end > Len(s)
      BY <1>1, <1>2, <1>4, <1>7, <1>9, <1>11, <2>2 DEF GoesOn
    <3>2. UpTo(x.list, limit) = u
      BY <1>1, <1>2, <1>3, <1>4, <1>6, <3>1
    <3> QED BY <1>8, <1>11, <3>2 DEF s, batch, limit
  <2>3. x.page = MaxPages \/ x.page < MaxPages
    BY <1>1
  <2> QED BY <2>1, <2>2, <2>3
<1> QED BY <1>10, <1>11 DEF s, end, batch, limit

LEMMA FetchPageListed ==
  ASSUME IInv, LInv, NEW r \in Requests, FetchPage(r)
  PROVE  LInv'
<1> DEFINE x == Loaded(req[r])
           batch == Batch(x.list, x.page)
           got == x.got \o batch
           n == x.page + 1
           z == NextCall(x)
           on == [z EXCEPT !.got = got, !.page = n]
           end == [x EXCEPT !.at = "apply", !.got = got]
           y == IF GoesOn(batch, x.page) THEN on ELSE end
<1>1. /\ x \in Request /\ x.op = req[r].op /\ x.at = req[r].at
      /\ x.list = req[r].list /\ x.page = req[r].page /\ x.got = req[r].got
      /\ x.moved = req[r].moved
  BY LoadedContinues
<1>2. /\ x.op = "sync" /\ x.at \in {"check", "send"} /\ Live(x) /\ Listed(x)
      /\ x.list \in Lists /\ x.page >= 1 /\ x.page \in Nat
  <2>1. req[r].op = "sync" /\ req[r].at \in {"check", "send"} /\ Live(req[r]) /\ Listed(req[r])
    BY DEF FetchPage, CanCall, Live, LInv
  <2> HIDE DEF x
  <2>2. x.list \in Lists /\ x.page >= 1
    BY <1>1, <2>1, Kept DEF Staged
  <2>3. Listed(x) /\ Live(x)
    BY <1>1, <2>1 DEF Listed, Fetching, Ahead, Live
  <2> QED BY <1>1, <2>1, <2>2, <2>3, RequestTyped
<1>3. z \in Request /\ z.at = "check" /\ z.op = x.op /\ z.list = x.list /\ z.moved = x.moved
      /\ z.got = x.got /\ z.page = x.page
  <2> HIDE DEF x
  <2>1. z.moved = x.moved
    BY <1>1 DEF NextCall, Request
  <2> QED BY <1>1, <2>1, NextCallTyped
<1>4. req' = [req EXCEPT ![r] = y] /\ UNCHANGED <<remote, local>>
  <2>1. [z EXCEPT !.got = @ \o batch, !.page = @ + 1] = on
    BY <1>3
  <2>2. [x EXCEPT !.at = "apply", !.got = @ \o batch] = end
    OBVIOUS
  <2> QED BY <2>1, <2>2 DEF FetchPage, Unchanged
<1>5. x.page <= MaxPages /\ (~x.moved => Ahead(x) <= Len(remote[x.list])
                                         /\ x.got = SubSeq(remote[x.list], 1, Ahead(x)))
  BY <1>2 DEF Listed, Fetching
<1> DEFINE last == x.page * PerPage
<1>6. ~x.moved =>
        IF GoesOn(batch, x.page)
        THEN last <= Len(remote[x.list]) /\ got = SubSeq(remote[x.list], 1, last)
        ELSE got = SubSeq(remote[x.list], 1, UpTo(x.list, MaxPages * PerPage))
  BY <1>1, <1>2, <1>5, Pages
<1> HIDE DEF x, z, got, batch, n
<1>7. CASE GoesOn(batch, x.page)
  <2>1. on.at = "check" /\ on.op = x.op /\ on.list = x.list /\ on.moved = x.moved
    BY <1>3 DEF Request
  <2>2. on.got = got /\ on.page = n
    BY <1>3 DEF Request
  <2> HIDE DEF on, end
  <2>3. Ahead(on) = last /\ n <= MaxPages
    BY <1>2, <1>7, <2>2, ProcoreAssumption DEF Ahead, n, GoesOn
  <2>4. Listed(on)
    BY <1>6, <1>7, <2>1, <2>2, <2>3 DEF Listed
  <2> QED BY <1>4, <1>7, <2>4, OneListed
<1>8. CASE ~GoesOn(batch, x.page)
  <2>1. end.at = "apply" /\ end.op = x.op /\ end.list = x.list /\ end.moved = x.moved
    BY <1>1 DEF Request
  <2>2. end.got = got /\ end.page = x.page
    BY <1>1 DEF Request
  <2> HIDE DEF on, end
  <2>3. Listed(end)
    BY <1>5, <1>6, <1>8, <2>1, <2>2 DEF Listed, Fetching
  <2> QED BY <1>4, <1>8, <2>3, OneListed
<1> QED BY <1>7, <1>8

(* What a sync inserts. *)
Copies(x, i) == Cardinality({n \in DOMAIN x.got : x.got[n] = i})

LEMMA CopiesTyped ==
  ASSUME NEW x \in Request, NEW i
  PROVE  /\ IsFiniteSet({n \in DOMAIN x.got : x.got[n] = i}) /\ Copies(x, i) \in Nat
         /\ x.got \in Seq(Ids)
<1>1. x.got \in Seq(Ids)
  BY RequestTyped
<1>2. Len(x.got) \in Nat /\ DOMAIN x.got = 1..Len(x.got)
  BY <1>1
<1>3. {n \in DOMAIN x.got : x.got[n] = i} \subseteq 1..Len(x.got)
  BY <1>2
<1>4. IsFiniteSet(1..Len(x.got))
  BY <1>2, FS_Interval
<1>5. IsFiniteSet({n \in DOMAIN x.got : x.got[n] = i})
  BY <1>3, <1>4, FS_Subset
<1>6. Copies(x, i) \in Nat
  BY <1>5, FS_CardinalityType DEF Copies
<1> QED BY <1>1, <1>5, <1>6

LEMMA Inserted ==
  ASSUME IInv, NEW r \in Requests, WriteRows(r), NEW l, l = req[r].list
  PROVE  /\ l \in Lists /\ req[r].at = "merge" /\ req[r].op = "sync"
         /\ \A m \in Lists \ {l} : local'[m] = local[m]
         /\ \A i \in Ids :
              /\ local[l][i] \in Nat /\ local'[l][i] \in Nat
              /\ local'[l][i] =
                   local[l][i] + (IF i \in req[r].known THEN 0 ELSE Copies(req[r], i))
<1> DEFINE x == req[r]
           new(i) == IF i \in x.known THEN 0 ELSE Copies(x, i)
           row == [i \in Ids |-> local[l][i] + new(i)]
<1>1. /\ x \in Request /\ x.at = "merge" /\ x.op = "sync" /\ l \in Lists
      /\ local \in [Lists -> [Ids -> Nat]]
  BY Kept DEF WriteRows, Staged, Live, IInv, TypeOK
<1>2. local' = [local EXCEPT ![l] = row]
  BY DEF WriteRows, Copies
<1>3. \A i : Copies(x, i) \in Nat
  BY <1>1, CopiesTyped
<1> HIDE DEF x
<1>4. local'[l] = row /\ \A m \in Lists \ {l} : local'[m] = local[m]
  BY <1>1, <1>2
<1>5. ASSUME NEW i \in Ids
      PROVE  /\ local[l][i] \in Nat /\ local'[l][i] \in Nat
             /\ local'[l][i] = local[l][i] + (IF i \in x.known THEN 0 ELSE Copies(x, i))
  <2>1. local[l][i] \in Nat /\ Copies(x, i) \in Nat /\ local'[l][i] = local[l][i] + new(i)
    BY <1>1, <1>3, <1>4
  <2> QED BY <2>1
<1> QED BY <1>1, <1>4, <1>5 DEF x

LEMMA WriteRowsListed ==
  ASSUME IInv, LInv, NEW r \in Requests, WriteRows(r)
  PROVE  LInv'
<1>0. PICK l \in Lists : l = req[r].list
  BY Inserted
<1>1. remote' = remote
  BY DEF WriteRows
<1>2. /\ \A i \in Ids : local[l][i] > 0 => local'[l][i] > 0
      /\ \A m \in Lists \ {l} : local'[m] = local[m]
  <2>1. ASSUME NEW i \in Ids, local[l][i] > 0 PROVE local'[l][i] > 0
    <3>1. /\ local[l][i] \in Nat
          /\ local'[l][i] = local[l][i] + (IF i \in req[r].known THEN 0 ELSE Copies(req[r], i))
      BY <1>0, Inserted
    <3>2. Copies(req[r], i) \in Nat
      BY Kept, CopiesTyped
    <3> QED BY <2>1, <3>1, <3>2
  <2> QED BY <1>0, <2>1, Inserted
<1>3. Here(l) \subseteq Here(l)' /\ \A m \in Lists \ {l} : Here(m)' = Here(m)
  BY <1>1, <1>2 DEF Here
<1>4. \A q \in Requests \ {r} :
        \/ req[q].at = "merge" /\ req[q].list = l /\ req'[q] = [req[q] EXCEPT !.raced = TRUE]
        \/ ~(req[q].at = "merge" /\ req[q].list = l) /\ req'[q] = req[q]
  BY <1>0 DEF WriteRows
<1>5. req'[r].at \in {"touch", "done"}
  <2> DEFINE x == req[r]
             y == [x EXCEPT !.at = "touch"]
  <2>1. x \in Request
    BY Kept
  <2>2. req'[r] \in {y, Over(x, "done")}
    BY DEF WriteRows
  <2> HIDE DEF x
  <2>3. y.at = "touch"
    BY <2>1 DEF Request
  <2> QED BY <2>1, <2>2, <2>3, OverTyped
<1>6. req'[r].page <= MaxPages \/ ~Live(req'[r])
  <2> DEFINE x == req[r]
             y == [x EXCEPT !.at = "touch"]
  <2>1. x \in Request /\ x.at = "merge" /\ x.op = "sync" /\ Listed(x)
    BY Kept DEF Staged, WriteRows, LInv
  <2>2. req'[r] \in {y, Over(x, "done")}
    BY DEF WriteRows
  <2> HIDE DEF x
  <2>3. y.page = x.page
    BY <2>1 DEF Request
  <2>4. x.page <= MaxPages
    BY <2>1 DEF Listed, Live
  <2> QED BY <2>1, <2>2, <2>3, <2>4, OverTyped
<1>7. Listed(req[r])'
  BY <1>5, <1>6 DEF Listed, Fetching, Live
<1>8. ASSUME NEW q \in Requests \ {r} PROVE Listed(req[q])'
  <2>1. Listed(req[q]) /\ req[q] \in Request /\ Staged(req[q])
    BY Kept DEF LInv
  <2>2. CASE req[q].at = "merge" /\ req[q].list = l
    <3> DEFINE x == req[q]
               y == req'[q]
    <3>1. y = [x EXCEPT !.raced = TRUE] /\ x \in Request /\ Listed(x) /\ x.at = "merge"
      BY <1>4, <2>1, <2>2
    <3> HIDE DEF x, y
    <3>2. y.op = x.op /\ y.at = x.at /\ y.list = x.list /\ y.page = x.page /\ y.raced
      BY <3>1 DEF Request
    <3>3. y.got = x.got /\ y.moved = x.moved /\ y.known = x.known
      BY <3>1 DEF Request
    <3>4. x.list = l
      BY <2>2 DEF x
    <3>5. /\ req'[q].op = req[q].op /\ req'[q].at = "merge" /\ req'[q].list = l
          /\ req'[q].page = req[q].page /\ req'[q].raced /\ req'[q].got = req[q].got
          /\ req'[q].moved = req[q].moved /\ req'[q].known = req[q].known
      BY <3>1, <3>2, <3>3, <3>4 DEF x, y
    <3>6. req[q].known \subseteq Here(l)' \/ req[q].op # "sync"
      BY <1>3, <2>1, <2>2 DEF Listed, Live
    <3>7. req[q].op = "sync" =>
            /\ req[q].page <= MaxPages
            /\ ~req[q].moved => req[q].got = SubSeq(remote[l], 1, UpTo(l, MaxPages * PerPage))
      BY <2>1, <2>2 DEF Listed, Live
    <3>8. UpTo(l, MaxPages * PerPage)' = UpTo(l, MaxPages * PerPage) /\ remote[l]' = remote[l]
      BY <1>1 DEF UpTo
    <3> QED BY <3>5, <3>6, <3>7, <3>8 DEF Listed, Fetching, UpTo, Here
  <2>3. CASE ~(req[q].at = "merge" /\ req[q].list = l)
    <3>1. req'[q] = req[q]
      BY <1>4, <2>3
    <3>2. req[q].at = "merge" => Here(req[q].list)' = Here(req[q].list)
      <4>1. ASSUME NEW m \in Lists, m = req[q].list, req[q].at = "merge"
            PROVE  Here(req[q].list)' = Here(req[q].list)
        BY <1>3, <2>3, <3>1, <4>1 DEF Here
      <4>2. req[q].at = "merge" => req[q].list \in Lists
        BY <2>1 DEF Staged, Live
      <4> QED BY <4>1, <4>2
    <3> QED BY <1>1, <2>1, <3>1, <3>2 DEF Listed, Fetching, Ahead, UpTo, Live
  <2> QED BY <2>2, <2>3
<1> QED BY <1>1, <1>7, <1>8 DEF LInv

LEMMA Shifted ==
  ASSUME NEW s \in Seq(Ids), IsInjective(s), NEW i \in Ids \ ToSet(s)
  PROVE  <<i>> \o s \in Seq(Ids) /\ IsInjective(<<i>> \o s)
<1> DEFINE t == <<i>> \o s
<1>1. /\ t \in Seq(Ids) /\ Len(t) = Len(s) + 1 /\ t[1] = i
      /\ \A n \in 2..Len(s) + 1 : t[n] = s[n - 1]
  OBVIOUS
<1>2. DOMAIN t = 1..Len(s) + 1 /\ DOMAIN s = 1..Len(s) /\ Len(s) \in Nat
  BY <1>1
<1>3. \A n \in 1..Len(s) : s[n] # i
  BY <1>2 DEF ToSet
<1> HIDE DEF t
<1>4. ASSUME NEW m \in 1..Len(s) + 1, NEW n \in 1..Len(s) + 1, t[m] = t[n] PROVE m = n
  <2>1. CASE m = 1 /\ n # 1
    <3>1. t[n] = s[n - 1] /\ n - 1 \in 1..Len(s)
      BY <1>1, <1>2, <2>1
    <3> QED BY <1>1, <1>3, <1>4, <2>1, <3>1
  <2>2. CASE n = 1 /\ m # 1
    <3>1. t[m] = s[m - 1] /\ m - 1 \in 1..Len(s)
      BY <1>1, <1>2, <2>2
    <3> QED BY <1>1, <1>3, <1>4, <2>2, <3>1
  <2>3. CASE m # 1 /\ n # 1
    <3>1. /\ t[m] = s[m - 1] /\ m - 1 \in 1..Len(s)
          /\ t[n] = s[n - 1] /\ n - 1 \in 1..Len(s)
      BY <1>1, <1>2, <2>3
    <3>2. m - 1 = n - 1
      BY <1>2, <1>4, <3>1 DEF IsInjective
    <3> QED BY <1>2, <3>2
  <2> QED BY <2>1, <2>2, <2>3
<1> QED BY <1>1, <1>2, <1>4 DEF IsInjective, t

LEMMA Shortened ==
  ASSUME NEW s \in Seq(Ids), s # <<>>, IsInjective(s)
  PROVE  IsInjective(Tail(s))
<1>1. /\ Tail(s) \in Seq(Ids) /\ Len(Tail(s)) = Len(s) - 1 /\ Len(s) \in Nat
      /\ \A n \in 1..Len(s) - 1 : Tail(s)[n] = s[n + 1]
  BY HeadTailProperties
<1>2. DOMAIN Tail(s) = 1..Len(s) - 1 /\ DOMAIN s = 1..Len(s)
  BY <1>1
<1>3. ASSUME NEW m \in 1..Len(s) - 1, NEW n \in 1..Len(s) - 1, Tail(s)[m] = Tail(s)[n]
      PROVE  m = n
  <2>1. s[m + 1] = s[n + 1] /\ m + 1 \in 1..Len(s) /\ n + 1 \in 1..Len(s)
    BY <1>1, <1>3
  <2>2. m + 1 = n + 1
    BY <1>2, <2>1 DEF IsInjective
  <2> QED BY <2>2
<1> QED BY <1>2, <1>3 DEF IsInjective

LEMMA ChangeListingListed ==
  ASSUME IInv, LInv, NEW l \in Lists, ChangeListing(l)
  PROVE  LInv'
<1>1. /\ remote \in [Lists -> Seq(Ids)] /\ remote[l] \in Seq(Ids) /\ IsInjective(remote[l])
      /\ local' = local
  BY DEF IInv, TypeOK, LInv, ChangeListing
<1>2. /\ remote'[l] \in Seq(Ids) /\ IsInjective(remote'[l])
      /\ \A m \in Lists \ {l} : remote'[m] = remote[m]
  <2>1. CASE \E i \in Ids \ ToSet(remote[l]) : remote' = [remote EXCEPT ![l] = <<i>> \o @]
    <3>1. PICK i \in Ids \ ToSet(remote[l]) : remote' = [remote EXCEPT ![l] = <<i>> \o @]
      BY <2>1
    <3>2. <<i>> \o remote[l] \in Seq(Ids) /\ IsInjective(<<i>> \o remote[l])
      BY <1>1, Shifted
    <3> QED BY <1>1, <3>1, <3>2
  <2>2. CASE remote[l] # <<>> /\ remote' = [remote EXCEPT ![l] = Tail(@)]
    <3>1. Tail(remote[l]) \in Seq(Ids) /\ IsInjective(Tail(remote[l]))
      BY <1>1, <2>2, Shortened
    <3> QED BY <1>1, <2>2, <3>1
  <2> QED BY <2>1, <2>2 DEF ChangeListing
<1>3. \A m \in Lists : Here(m)' = Here(m)
  BY <1>1 DEF Here
<1>4. ASSUME NEW q \in Requests PROVE Listed(req[q])'
  <2>1. Listed(req[q]) /\ req[q] \in Request /\ Staged(req[q])
    BY Kept DEF LInv
  <2>2. CASE req[q].list = l /\ Reads(req[q])
    <3> DEFINE x == req[q]
               y == req'[q]
    <3>1. y = [x EXCEPT !.moved = TRUE] /\ x \in Request
      BY <2>1, <2>2 DEF ChangeListing
    <3> HIDE DEF x, y
    <3>2. y.op = x.op /\ y.at = x.at /\ y.list = x.list /\ y.page = x.page /\ y.moved
      BY <3>1 DEF Request
    <3>3. y.known = x.known /\ y.raced = x.raced
      BY <3>1 DEF Request
    <3>4. /\ req'[q].op = req[q].op /\ req'[q].at = req[q].at /\ req'[q].list = l
          /\ req'[q].page = req[q].page /\ req'[q].moved
          /\ req'[q].known = req[q].known /\ req'[q].raced = req[q].raced
      BY <2>2, <3>2, <3>3 DEF x, y
    <3> QED BY <1>3, <2>1, <2>2, <3>4 DEF Listed, Live
  <2>3. CASE req[q].list # l
    <3>1. req'[q] = req[q]
      BY <2>3 DEF ChangeListing
    <3>2. Live(req[q]) /\ req[q].op = "sync" =>
            /\ remote'[req[q].list] = remote[req[q].list]
            /\ Here(req[q].list)' = Here(req[q].list)
      <4>1. ASSUME NEW m \in Lists, m = req[q].list
            PROVE  remote'[req[q].list] = remote[req[q].list] /\ Here(req[q].list)' = Here(req[q].list)
        BY <1>2, <1>3, <2>3, <3>1, <4>1 DEF Here
      <4> QED BY <2>1, <4>1 DEF Staged
    <3> QED BY <2>1, <3>1, <3>2 DEF Listed, Fetching, Ahead, UpTo, Live
  <2>4. CASE req[q].list = l /\ ~Reads(req[q])
    <3>1. req'[q] = req[q] /\ req[q].got = <<>> /\ req[q].at \notin {"apply", "merge"}
      BY <2>4 DEF ChangeListing, Reads
    <3>2. CASE ~(req[q].op = "sync" /\ Fetching(req[q]) /\ ~req[q].moved)
      BY <2>1, <3>1, <3>2 DEF Listed, Fetching, Live
    <3>3. CASE req[q].op = "sync" /\ Fetching(req[q]) /\ ~req[q].moved
      <4> DEFINE a == Ahead(req[q])
      <4>1. /\ req[q].page <= MaxPages /\ a <= Len(remote[l])
            /\ req[q].got = SubSeq(remote[l], 1, a)
        BY <2>1, <2>4, <3>3 DEF Listed, Fetching, Live
      <4>2. a \in Nat
        <5>1. req[q].page \in Nat /\ req[q].page >= 1 /\ PerPage \in Nat
          BY <2>1, RequestTyped, ProcoreAssumption DEF Staged
        <5>2. req[q].page - 1 \in Nat
          BY <5>1
        <5> QED BY <5>1, <5>2 DEF Ahead
      <4>3. a = 0
        <5> HIDE DEF a
        <5>1. \A i \in 1..a : remote[l][i] \in Ids
          BY <1>1, <4>1, <4>2
        <5>2. Len(SubSeq(remote[l], 1, a)) = IF 1 <= a THEN a - 1 + 1 ELSE 0
          BY <4>2, <5>1, SubSeqProperties
        <5> QED BY <3>1, <4>1, <4>2, <5>2
      <4>4. SubSeq(remote'[l], 1, 0) = <<>> /\ 0 <= Len(remote'[l])
        BY <1>2, SubSeqEmpty
      <4>5. Ahead(req'[q]) = 0 /\ req'[q].list = l /\ req'[q].got = <<>>
        BY <2>4, <3>1, <4>3
      <4>6. Ahead(req[q])' = 0
        BY <4>5 DEF Ahead
      <4> QED BY <3>1, <3>3, <4>1, <4>4, <4>5, <4>6 DEF Listed, Fetching
    <3> QED BY <3>2, <3>3
  <2> QED BY <2>2, <2>3, <2>4
<1>5. \A m \in Lists : IsInjective(remote[m])'
  BY <1>1, <1>2 DEF LInv, IsInjective
<1> QED BY <1>4, <1>5 DEF LInv

(* Other requests, and a sync that is over. *)
LEMMA SubmitListed ==
  ASSUME IInv, LInv, NEW r \in Requests,
         \/ SubmitIndex(r) \/ SubmitPush(r) \/ SubmitCallback(r) \/ SubmitService(r)
         \/ SubmitDisconnect(r)
  PROVE  LInv'
<1> DEFINE i == Idle
<1>1. i \in Request /\ conn \in Row
  BY IdleTyped DEF IInv, TypeOK
<1>2. ASSUME NEW y, Submit(r, y), y.op # "sync" PROVE LInv'
  <2>1. req' = [req EXCEPT ![r] = y] /\ UNCHANGED <<remote, local>> /\ Continues(req[r], y)
    BY <1>2 DEF Submit, Continues
  <2> QED BY <2>1, OneContinues
<1>3. CASE SubmitIndex(r)
  <2> DEFINE z == Connected("index")
             y == [z EXCEPT !.left = 1]
  <2>1. z \in Request /\ z.op = "index"
    BY <1>1, ConnectedTyped
  <2>2. Submit(r, y)
    BY <1>3 DEF SubmitIndex
  <2> HIDE DEF z
  <2>3. y.op = "index"
    BY <2>1 DEF Request
  <2> QED BY <1>2, <2>2, <2>3
<1>4. CASE SubmitPush(r)
  <2> DEFINE z == Connected("push")
             y == [z EXCEPT !.seen = scope]
  <2>1. z \in Request /\ z.op = "push"
    BY <1>1, ConnectedTyped
  <2>2. Submit(r, y)
    BY <1>4 DEF SubmitPush
  <2> HIDE DEF z
  <2>3. y.op = "push"
    BY <2>1 DEF Request
  <2> QED BY <1>2, <2>2, <2>3
<1>5. CASE SubmitCallback(r)
  <2> DEFINE c == [conn EXCEPT !.exists = TRUE, !.grant = Person, !.active = TRUE]
             y == [i EXCEPT !.op = "callback", !.at = "exchange", !.row = conn, !.left = 1,
                            !.to = c]
  <2>1. Submit(r, y)
    BY <1>5 DEF SubmitCallback
  <2> HIDE DEF i, c
  <2>2. y.op = "callback"
    BY <1>1 DEF Request
  <2> QED BY <1>2, <2>1, <2>2
<1>6. CASE SubmitService(r)
  <2> DEFINE c == [conn EXCEPT !.exists = TRUE, !.grant = Service, !.active = TRUE]
             y == [i EXCEPT !.op = "service", !.at = "token", !.row = conn, !.to = c]
  <2>1. Submit(r, y)
    BY <1>6 DEF SubmitService
  <2> HIDE DEF i, c
  <2>2. y.op = "service"
    BY <1>1 DEF Request
  <2> QED BY <1>2, <2>1, <2>2
<1>7. CASE SubmitDisconnect(r)
  <2> DEFINE y == [i EXCEPT !.op = "disconnect", !.at = "commit", !.row = conn,
                            !.to = Disconnect(conn)]
  <2>1. Submit(r, y)
    BY <1>7 DEF SubmitDisconnect
  <2> HIDE DEF i
  <2>2. y.op = "disconnect"
    BY <1>1 DEF Request
  <2> QED BY <1>2, <2>1, <2>2
<1> QED BY <1>3, <1>4, <1>5, <1>6, <1>7

LEMMA EndListed ==
  ASSUME IInv, LInv, NEW r \in Requests,
         \/ Commit(r) \/ Refuse(r) \/ Die(r) \/ Respond(r) \/ Fail(r)
         \/ TouchConnection(r) \/ Record(r)
  PROVE  LInv'
<1> DEFINE x == Loaded(req[r])
<1>1. x \in Request /\ req[r] \in Request
  BY LoadedContinues, Kept
<1>2. ASSUME NEW y \in {Idle, Over(x, "done"), Over(req[r], "done"), Failed(x)}
      PROVE  Continues(req[r], y)
  BY <1>1, IdleOver, OverTyped, FailedEnds DEF Continues
<1>3. \E y \in {Idle, Over(x, "done"), Over(req[r], "done"), Failed(x)} :
        req' = [req EXCEPT ![r] = y]
  <2>1. CASE Commit(r)
    BY <2>1 DEF Commit
  <2>2. CASE Refuse(r) \/ Die(r) \/ Respond(r)
    BY <2>2 DEF Refuse, Die, Respond, End
  <2>3. CASE Fail(r)
    BY <2>3 DEF Fail
  <2>4. CASE TouchConnection(r) \/ Record(r)
    BY <2>4 DEF TouchConnection, Record
  <2> QED BY <2>1, <2>2, <2>3, <2>4
<1>4. UNCHANGED <<remote, local>>
  BY DEF Commit, Refuse, Die, Respond, End, Fail, TouchConnection, Record, Unchanged
<1> QED BY <1>2, <1>3, <1>4, OneContinues

LEMMA ElsewhereListed ==
  ASSUME IInv, LInv, NEW r \in Requests,
         ExchangeCode(r) \/ Identify(r) \/ Render(r) \/ Push(r)
  PROVE  LInv'
<1> DEFINE x == req[r]
           w == Loaded(x)
           z == NextCall(w)
<1>1. /\ x \in Request /\ Staged(x) /\ w \in Request /\ w.op = x.op
      /\ z \in Request /\ z.op = x.op /\ NextCall(x) \in Request /\ NextCall(x).op = x.op
  BY Kept, LoadedContinues, NextCallTyped
<1>2. UNCHANGED <<remote, local>> /\ x.op # "sync"
  BY <1>1 DEF ExchangeCode, Identify, Render, Push, Unchanged, Staged
<1>3. ASSUME NEW y, y.op # "sync", req' = [req EXCEPT ![r] = y] PROVE LInv'
  BY <1>2, <1>3, OneContinues DEF Continues
<1>4. CASE ExchangeCode(r)
  <2>1. PICK g \in Grants :
          req' = [req EXCEPT ![r] =
                    [x EXCEPT !.at = "check", !.to = ApplyTokenResponse(x.to, <<g, 1>>)]]
    BY <1>4 DEF ExchangeCode
  <2> DEFINE u == ApplyTokenResponse(x.to, <<g, 1>>)
             y == [x EXCEPT !.at = "check", !.to = u]
  <2> HIDE DEF x, u
  <2>2. y.op = x.op
    BY <1>1 DEF Request
  <2> QED BY <1>2, <1>3, <2>1, <2>2 DEF x, u
<1>5. CASE Identify(r)
  <2>1. \E y \in {[z EXCEPT !.left = @ - 1], Over(w, "done"), [w EXCEPT !.at = "commit"]} :
          req' = [req EXCEPT ![r] = y]
    BY <1>5 DEF Identify
  <2> HIDE DEF x, w, z
  <2>2. [z EXCEPT !.left = @ - 1].op = x.op /\ [w EXCEPT !.at = "commit"].op = x.op
    BY <1>1 DEF Request
  <2>3. Over(w, "done").op = x.op
    <3> DEFINE i == Idle
    <3>1. Over(w, "done") = [i EXCEPT !.op = w.op, !.at = "done"] /\ i \in Request
      BY IdleTyped DEF Over
    <3> HIDE DEF i
    <3>2. [i EXCEPT !.op = w.op, !.at = "done"].op = w.op
      BY <3>1 DEF Request
    <3> QED BY <1>1, <3>1, <3>2
  <2> QED BY <1>2, <1>3, <2>1, <2>2, <2>3
<1>6. CASE Render(r)
  <2> DEFINE v == IF x.seen = None THEN scope ELSE x.seen
             n == NextCall(x)
             y == [n EXCEPT !.doc = v.content, !.seen = v]
  <2>1. req' = [req EXCEPT ![r] = y]
    BY <1>6 DEF Render
  <2> HIDE DEF x, v, n
  <2>2. n \in Request /\ n.op = x.op
    BY <1>1 DEF n
  <2>3. y.op = x.op
    BY <2>2 DEF Request
  <2> QED BY <1>2, <1>3, <2>1, <2>3 DEF x
<1>7. CASE Push(r)
  <2> DEFINE v == IF w.doc = None THEN "render" ELSE "record"
             y == [w EXCEPT !.at = v]
  <2>1. req' = [req EXCEPT ![r] = y]
    BY <1>7 DEF Push
  <2> HIDE DEF x, w, v
  <2>2. y.op = x.op
    BY <1>1 DEF Request
  <2> QED BY <1>2, <1>3, <2>1, <2>2 DEF x
<1> QED BY <1>4, <1>5, <1>6, <1>7

LEMMA EditScopeListed ==
  ASSUME IInv, LInv, NEW quiet \in BOOLEAN, EditScope(quiet)
  PROVE  LInv'
<1>1. UNCHANGED <<remote, local>>
  BY DEF EditScope
<1>2. ASSUME NEW q \in Requests PROVE Listed(req'[q])
  <2>1. Listed(req[q])
    BY DEF LInv
  <2>2. CASE req[q].op = "push" /\ quiet
    <3>1. req'[q] = [req[q] EXCEPT !.quiet = TRUE]
      BY <2>2 DEF EditScope
    <3>2. req'[q].op = "push"
      BY <2>2, <3>1, Marked
    <3> QED BY <3>2 DEF Listed
  <2>3. CASE ~(req[q].op = "push" /\ quiet)
    BY <2>1, <2>3 DEF EditScope
  <2> QED BY <2>2, <2>3
<1> QED BY <1>1, <1>2 DEF LInv, Listed, Fetching, Ahead, UpTo, Here, Live

LEMMA InitListed == Init => LInv
<1> SUFFICES ASSUME Init PROVE LInv
  OBVIOUS
<1>1. \A r \in Requests : ~Live(req[r])
  BY IdleOver DEF Init
<1>2. \A l \in Lists : IsInjective(remote[l])
  BY ProcoreAssumption DEF Init
<1> QED BY <1>1, <1>2 DEF LInv, Listed

LEMMA NextListed == IInv /\ LInv /\ [Next]_vars => LInv'
<1> SUFFICES ASSUME IInv, LInv, [Next]_vars PROVE LInv'
  OBVIOUS
<1>1. ASSUME NEW r \in Requests, Mint(r) \/ RefreshExpired(r) \/ RefreshOn401(r)
      PROVE  LInv'
  <2>1. req[r].retried \in BOOLEAN
    BY Kept, RequestTyped
  <2>2. CASE Mint(r)
    BY <2>2, RefreshListed DEF Mint
  <2>3. CASE RefreshExpired(r)
    BY <2>1, <2>3, RefreshListed DEF RefreshExpired
  <2>4. CASE RefreshOn401(r)
    BY <2>4, RefreshListed DEF RefreshOn401, CanCall
  <2> QED BY <1>1, <2>2, <2>3, <2>4
<1>2. ASSUME NEW r \in Requests,
             \/ SubmitIndex(r) \/ SubmitSync(r) \/ SubmitPush(r)
             \/ SubmitCallback(r) \/ SubmitService(r) \/ SubmitDisconnect(r)
      PROVE  LInv'
  BY <1>2, SubmitListed, SubmitSyncListed
<1>3. ASSUME NEW r \in Requests,
             \/ Commit(r) \/ Refuse(r) \/ Die(r) \/ Respond(r) \/ Fail(r)
             \/ TouchConnection(r) \/ Record(r) \/ Store(r)
      PROVE  LInv'
  BY <1>3, EndListed, StoreListed
<1>4. ASSUME NEW r \in Requests,
             \/ ExchangeCode(r) \/ Identify(r) \/ Render(r) \/ Push(r)
             \/ FetchPage(r) \/ FallBack(r) \/ ReadRows(r) \/ WriteRows(r)
      PROVE  LInv'
  BY <1>4, ElsewhereListed, FetchPageListed, FallBackListed, ReadRowsListed, WriteRowsListed
<1>5. ASSUME NEW quiet \in BOOLEAN, EditScope(quiet) PROVE LInv'
  BY <1>5, EditScopeListed
<1>6. ASSUME NEW l \in Lists, ChangeListing(l) PROVE LInv'
  BY <1>6, ChangeListingListed
<1>7. CASE UNCHANGED vars
  BY <1>7 DEF vars, LInv, Listed, Fetching, Ahead, UpTo, Here, Live
<1> QED BY <1>1, <1>2, <1>3, <1>4, <1>5, <1>6, <1>7 DEF Next

LEMMA ListingsInductive == Spec => []LInv
BY InitListed, NextListed, Inductive, PTL DEF Spec

(* Rows are written by the sync that has read what is here. *)
LEMMA Writer ==
  ASSUME IInv, Next, NEW r \in Requests, NEW l \in Lists, Wrote(r, l)
  PROVE  WriteRows(r)
<1>1. /\ req[r] \in Request /\ req[r].at = "merge" /\ req'[r].at \in {"touch", "done"}
      /\ req \in [Requests -> Request]
  BY Kept DEF Wrote, IInv, TypeOK
<1>2. Loaded(req[r]).at = "merge" /\ req[r].op = "sync"
  BY <1>1, LoadedContinues, Kept DEF Staged
<1>3. CASE (\E quiet \in BOOLEAN : EditScope(quiet)) \/ \E m \in Lists : ChangeListing(m)
  BY <1>1, <1>3, Marked DEF EditScope, ChangeListing
<1>4. ASSUME NEW q \in Requests \ {r}, WriteRows(q) PROVE FALSE
  <2>1. req'[r] = req[r] \/ req'[r] = [req[r] EXCEPT !.raced = TRUE]
    BY <1>4 DEF WriteRows
  <2> QED BY <1>1, <2>1, Marked
<1>5. ASSUME NEW q \in Requests \ {r}, NEW y, req' = [req EXCEPT ![q] = y] PROVE FALSE
  BY <1>1, <1>5
<1>6. ASSUME NEW q \in Requests \ {r},
             \/ SubmitIndex(q) \/ SubmitSync(q) \/ SubmitPush(q)
             \/ SubmitCallback(q) \/ SubmitService(q) \/ SubmitDisconnect(q)
      PROVE  FALSE
  BY <1>5, <1>6 DEF Submit, SubmitIndex, SubmitSync, SubmitPush, SubmitCallback,
                    SubmitService, SubmitDisconnect
<1>7. ASSUME NEW q \in Requests \ {r},
             \/ ExchangeCode(q) \/ Mint(q) \/ RefreshExpired(q) \/ RefreshOn401(q)
             \/ Fail(q) \/ Store(q) \/ Commit(q) \/ Refuse(q) \/ Die(q) \/ Respond(q)
      PROVE  FALSE
  BY <1>5, <1>7 DEF ExchangeCode, Mint, RefreshExpired, RefreshOn401, Refresh, Fail, Store,
                    Commit, Refuse, Die, Respond, End
<1>8. ASSUME NEW q \in Requests \ {r},
             \/ Identify(q) \/ FetchPage(q) \/ FallBack(q) \/ Render(q) \/ Push(q)
             \/ TouchConnection(q) \/ Record(q)
      PROVE  FALSE
  BY <1>5, <1>8 DEF Identify, FetchPage, FallBack, Render, Push, TouchConnection, Record
<1>9. ASSUME NEW q \in Requests \ {r}, ReadRows(q) PROVE FALSE
  BY <1>1, <1>9 DEF ReadRows
<1>10. CASE Die(r)
  BY <1>1, <1>10, IdleTyped DEF Die, End
<1>11. CASE \/ SubmitIndex(r) \/ SubmitSync(r) \/ SubmitPush(r)
            \/ SubmitCallback(r) \/ SubmitService(r) \/ SubmitDisconnect(r)
            \/ ExchangeCode(r) \/ Mint(r) \/ RefreshExpired(r) \/ RefreshOn401(r)
            \/ Fail(r) \/ Store(r) \/ Commit(r) \/ Refuse(r) \/ Respond(r)
            \/ Identify(r) \/ FetchPage(r) \/ FallBack(r) \/ Render(r) \/ Push(r)
            \/ ReadRows(r) \/ TouchConnection(r) \/ Record(r)
  BY <1>1, <1>2, <1>11 DEF Submit, SubmitIndex, SubmitSync, SubmitPush, SubmitCallback,
       SubmitService, SubmitDisconnect, ExchangeCode, Mint, RefreshExpired, RefreshOn401,
       CanCall, Fail, Store, Commit, Refuse, Respond, Identify, FetchPage, FallBack,
       Render, Push, ReadRows, TouchConnection, Record
<1> QED BY <1>3, <1>4, <1>6, <1>7, <1>8, <1>9, <1>10, <1>11 DEF Next

(* What a sync writes of a listing that has not changed. *)
LEMMA WhatIsWritten ==
  ASSUME IInv, LInv, NEW r \in Requests, NEW l \in Lists, WriteRows(r), l = req[r].list
  PROVE  /\ req[r].known \subseteq Here(l) /\ (req[r].raced \/ req[r].known = Here(l))
         /\ ~req[r].moved =>
              req[r].got = SubSeq(remote[l], 1, UpTo(l, MaxPages * PerPage))
         /\ \A i \in Ids :
              /\ local[l][i] \in Nat /\ Copies(req[r], i) \in Nat
              /\ local'[l][i] =
                   local[l][i] + (IF i \in req[r].known THEN 0 ELSE Copies(req[r], i))
<1>1. req[r] \in Request /\ Listed(req[r])
  BY Kept DEF LInv
<1>2. req[r].op = "sync" /\ req[r].at = "merge"
  BY Inserted
<1>3. /\ req[r].known \subseteq Here(l) /\ (req[r].raced \/ req[r].known = Here(l))
      /\ ~req[r].moved => req[r].got = SubSeq(remote[l], 1, UpTo(l, MaxPages * PerPage))
  BY <1>1, <1>2 DEF Listed, Live
<1>4. \A i : Copies(req[r], i) \in Nat
  BY <1>1, CopiesTyped
<1> QED BY <1>3, <1>4, Inserted

\* A sync that reads a steady listing imports every record of it, up to MAX_PAGES
\* pages (paginated, sync_projects, sync_bid_packages): pages that follow each other
\* make up the listing, and what was known is still here.
THEOREM AllImported == Spec => ImportedAll
<1>1. IInv /\ LInv /\ [Next]_vars =>
        [\A r \in Requests, l \in Lists :
           Wrote(r, l) /\ ~req[r].moved =>
             ToSet(SubSeq(remote[l], 1, UpTo(l, MaxPages * PerPage))) \subseteq Here(l)']_vars
  <2> SUFFICES ASSUME IInv, LInv, Next, NEW r \in Requests, NEW l \in Lists,
                      Wrote(r, l), ~req[r].moved,
                      NEW i \in ToSet(SubSeq(remote[l], 1, UpTo(l, MaxPages * PerPage)))
               PROVE  i \in Here(l)'
    OBVIOUS
  <2>1. WriteRows(r) /\ l = req[r].list /\ req[r] \in Request
    BY Writer, Kept DEF Wrote
  <2>2. i \in ToSet(req[r].got)
    BY <2>1, WhatIsWritten
  <2>3. i \in Ids /\ {n \in DOMAIN req[r].got : req[r].got[n] = i} # {}
    BY <2>1, <2>2, RequestTyped DEF ToSet
  <2>4. Copies(req[r], i) # 0
    <3>1. IsFiniteSet({n \in DOMAIN req[r].got : req[r].got[n] = i})
      BY <2>1, CopiesTyped
    <3> QED BY <2>3, <3>1, FS_EmptySet DEF Copies
  <2>5. /\ local[l][i] \in Nat /\ Copies(req[r], i) \in Nat
        /\ local'[l][i] =
             local[l][i] + (IF i \in req[r].known THEN 0 ELSE Copies(req[r], i))
        /\ i \in req[r].known => local[l][i] > 0
    BY <2>1, <2>3, WhatIsWritten DEF Here
  <2>6. local'[l][i] > 0
    BY <2>4, <2>5
  <2> QED BY <2>3, <2>6 DEF Here
<1> QED BY <1>1, Inductive, ListingsInductive, PTL DEF Spec, ImportedAll

\* A sync that reads a steady listing, which holds a record once, and that no other
\* sync overtakes makes no second row for a record (sync_projects,
\* sync_bid_packages).
THEOREM OnceImported == Spec => ImportedOnce
<1>1. IInv /\ LInv /\ [Next]_vars =>
        [\A r \in Requests, l \in Lists :
           Wrote(r, l) /\ ~req[r].moved /\ ~req[r].raced
             => \A i \in Ids : local[l][i] <= 1 => local'[l][i] <= 1]_vars
  <2> SUFFICES ASSUME IInv, LInv, Next, NEW r \in Requests, NEW l \in Lists,
                      Wrote(r, l), ~req[r].moved, ~req[r].raced,
                      NEW i \in Ids, local[l][i] <= 1
               PROVE  local'[l][i] <= 1
    OBVIOUS
  <2> DEFINE x == req[r]
             s == remote[l]
             u == UpTo(l, MaxPages * PerPage)
  <2>1. WriteRows(r) /\ l = x.list /\ x \in Request
    BY Writer, Kept DEF Wrote
  <2>2. /\ x.got = SubSeq(s, 1, u) /\ x.known = Here(l)
        /\ local[l][i] \in Nat /\ Copies(x, i) \in Nat
        /\ local'[l][i] = local[l][i] + (IF i \in x.known THEN 0 ELSE Copies(x, i))
    BY <2>1, WhatIsWritten
  <2>3. i \notin x.known => local[l][i] = 0
    BY <2>2 DEF Here
  <2>4. s \in Seq(Ids) /\ IsInjective(s) /\ Len(s) \in Nat
    BY DEF IInv, TypeOK, LInv
  <2>5. u \in Nat /\ u <= Len(s)
    <3>1. MaxPages * PerPage \in Nat
      BY ProcoreAssumption
    <3> QED BY <2>4, <3>1 DEF UpTo
  <2> HIDE DEF x, s, u
  <2>6. DOMAIN x.got = 1..u /\ \A n \in 1..u : x.got[n] = s[n]
    <3>1. \A n \in 1..u : s[n] \in Ids
      BY <2>4, <2>5
    <3>2. /\ SubSeq(s, 1, u) \in Seq(Ids)
          /\ Len(SubSeq(s, 1, u)) = (IF 1 <= u THEN u - 1 + 1 ELSE 0)
          /\ \A n \in 1..u - 1 + 1 : SubSeq(s, 1, u)[n] = s[1 + n - 1]
      BY <2>5, <3>1, SubSeqProperties
    <3>3. Len(SubSeq(s, 1, u)) = u /\ \A n \in 1..u : SubSeq(s, 1, u)[n] = s[n]
      BY <2>5, <3>2
    <3> QED BY <2>2, <3>2, <3>3
  <2>7. Copies(x, i) <= 1
    <3> DEFINE S == {n \in DOMAIN x.got : x.got[n] = i}
    <3>1. \A m, n \in S : m = n
      BY <2>4, <2>5, <2>6 DEF IsInjective
    <3>2. CASE S = {}
      BY <3>2, FS_EmptySet DEF Copies
    <3>3. CASE S # {}
      <4>1. PICK n \in S : S = {n}
        BY <3>1, <3>3
      <4>2. Cardinality(S) = 1
        BY <4>1, FS_Singleton
      <4> QED BY <4>2 DEF Copies
    <3> QED BY <3>2, <3>3
  <2> QED BY <2>2, <2>3, <2>7
<1> QED BY <1>1, Inductive, ListingsInductive, PTL DEF Spec, ImportedOnce
=============================================================================
