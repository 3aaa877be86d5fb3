----------------------------- MODULE BackendsProofs -----------------------------
(***************************************************************************)
(* Proofs about what a gateway is wired to.                                *)
(*                                                                         *)
(* The repository: as long as one page of a scan holds the table, the one  *)
(* in memory, which carries the tests, and the one on DynamoDB, which      *)
(* serves, keep the same books and answer alike, for any reservations,     *)
(* scopes, amounts and logins.                                             *)
(*                                                                         *)
(* The provider registry: for any gateways, providers, keys and control-   *)
(* plane calls, and any number of restarts, the adapters follow the        *)
(* configuration.                                                          *)
(***************************************************************************)
EXTENDS Repositories, Providers, FiniteSetTheorems, TLAPS

-----------------------------------------------------------------------------
(* Items and stores *)

\* Two items agree on all but the pending money, which the stores count differently.
SameRow(a, b) ==
  /\ a.exists = b.exists /\ a.remaining = b.remaining /\ a.reserved = b.reserved
  /\ a.committed = b.committed /\ a.overage = b.overage
  /\ a.open = b.open /\ a.warned = b.warned

\* The same of two stores.
Alike(a, b) ==
  /\ \A s \in Scope : SameRow(a.row[s], b.row[s])
  /\ a.res = b.res /\ a.ledger = b.ledger /\ a.agent = b.agent
  /\ a.review = b.review /\ a.alerts = b.alerts /\ a.token = b.token

\* Items without their pending money are equal exactly if they agree on the rest.
LEMMA SameRowIs ==
  ASSUME NEW a \in Row, NEW b \in Row
  PROVE  SameRow(a, b) <=> [a EXCEPT !.pending = 0] = [b EXCEPT !.pending = 0]
<1>1. [a EXCEPT !.pending = 0] \in Row /\ [b EXCEPT !.pending = 0] \in Row
  BY DEF Row
<1>. QED
  BY <1>1 DEF SameRow, Row

\* A store is its seven parts.
LEMMA StoreIs ==
  ASSUME NEW x \in Store
  PROVE  x = [row |-> x.row, res |-> x.res, ledger |-> x.ledger, agent |-> x.agent,
              review |-> x.review, alerts |-> x.alerts, token |-> x.token]
<1>1. \A A, B, C, D, E, F, G :
        x \in [row : A, res : B, ledger : C, agent : D, review : E, alerts : F, token : G]
          => x = [row |-> x.row, res |-> x.res, ledger |-> x.ledger, agent |-> x.agent,
                  review |-> x.review, alerts |-> x.alerts, token |-> x.token]
  OBVIOUS
<1>. QED
  BY <1>1 DEF Store

\* Stores have the same books exactly if they are alike.
LEMMA BooksAre ==
  ASSUME NEW a \in Store, NEW b \in Store
  PROVE  Books(a) = Books(b) <=> Alike(a, b)
<1>. DEFINE bare(x) == [s \in Scope |-> [x.row[s] EXCEPT !.pending = 0]]
<1>1. ASSUME NEW x \in Store
      PROVE  /\ \A s \in Scope : x.row[s] \in Row
             /\ bare(x) \in [Scope -> Row]
             /\ Books(x) = [x EXCEPT !.row = bare(x)]
  <2>1. \A s \in Scope : x.row[s] \in Row
    BY <1>1 DEF Store
  <2>2. \A s \in Scope : [x.row[s] EXCEPT !.pending = 0] \in Row
    BY <2>1 DEF Row
  <2>3. Books(x) = [x EXCEPT !.row = bare(x)]
    BY <1>1 DEF Books, Store
  <2>. QED
    BY <2>1, <2>2, <2>3
<1>2. bare(a) = bare(b) <=> \A s \in Scope : SameRow(a.row[s], b.row[s])
  <2>1. bare(a) = bare(b)
          <=> \A s \in Scope : [a.row[s] EXCEPT !.pending = 0] = [b.row[s] EXCEPT !.pending = 0]
    <3>1. ASSUME bare(a) = bare(b), NEW s \in Scope
          PROVE  [a.row[s] EXCEPT !.pending = 0] = [b.row[s] EXCEPT !.pending = 0]
      <4>1. bare(a)[s] = bare(b)[s]
        BY <3>1
      <4>. QED
        BY <4>1
    <3>. QED
      BY <3>1
  <2>. QED
    BY <2>1, <1>1, SameRowIs
<1>3. Books(a) = Books(b)
        <=> /\ bare(a) = bare(b) /\ a.res = b.res /\ a.ledger = b.ledger
            /\ a.agent = b.agent /\ a.review = b.review
            /\ a.alerts = b.alerts /\ a.token = b.token
  <2>. DEFINE f == bare(a)  g == bare(b)
  <2>1. f \in [Scope -> Row] /\ g \in [Scope -> Row]
        /\ Books(a) = [a EXCEPT !.row = f] /\ Books(b) = [b EXCEPT !.row = g]
    BY <1>1
  <2>. HIDE DEF bare, f, g
  <2>2. [a EXCEPT !.row = f] \in Store /\ [b EXCEPT !.row = g] \in Store
    BY <2>1 DEF Store
  <2>3. /\ [a EXCEPT !.row = f].row = f /\ [b EXCEPT !.row = g].row = g
        /\ [a EXCEPT !.row = f].res = a.res /\ [b EXCEPT !.row = g].res = b.res
        /\ [a EXCEPT !.row = f].ledger = a.ledger /\ [b EXCEPT !.row = g].ledger = b.ledger
        /\ [a EXCEPT !.row = f].agent = a.agent /\ [b EXCEPT !.row = g].agent = b.agent
        /\ [a EXCEPT !.row = f].review = a.review /\ [b EXCEPT !.row = g].review = b.review
        /\ [a EXCEPT !.row = f].alerts = a.alerts /\ [b EXCEPT !.row = g].alerts = b.alerts
        /\ [a EXCEPT !.row = f].token = a.token /\ [b EXCEPT !.row = g].token = b.token
    BY DEF Store
  <2>4. \A x, y \in Store :
           x = y <=> /\ x.row = y.row /\ x.res = y.res /\ x.ledger = y.ledger
                     /\ x.agent = y.agent /\ x.review = y.review
                     /\ x.alerts = y.alerts /\ x.token = y.token
    BY StoreIs
  <2>5. [a EXCEPT !.row = f] = [b EXCEPT !.row = g]
          <=> /\ f = g /\ a.res = b.res /\ a.ledger = b.ledger
              /\ a.agent = b.agent /\ a.review = b.review
              /\ a.alerts = b.alerts /\ a.token = b.token
    <3>. DEFINE x == [a EXCEPT !.row = f]  y == [b EXCEPT !.row = g]
    <3>1. x \in Store /\ y \in Store
      BY <2>2
    <3>2. x = y <=> /\ x.row = y.row /\ x.res = y.res /\ x.ledger = y.ledger
                    /\ x.agent = y.agent /\ x.review = y.review
                    /\ x.alerts = y.alerts /\ x.token = y.token
      <4>. HIDE DEF x, y
      <4>. QED
        BY <3>1, <2>4
    <3>. QED
      BY <3>2, <2>3
  <2>. QED
    BY <2>1, <2>5 DEF f, g
<1>. QED
  BY <1>2, <1>3 DEF Alike


\* Items are equal if their eight attributes are.
LEMMA RowIs ==
  ASSUME NEW a \in Row, NEW b \in Row, SameRow(a, b), a.pending = b.pending
  PROVE  a = b
BY DEF Row, SameRow

\* d is item a with a hold on it.
Held(a, limit, cost, d) ==
  /\ d \in Row /\ d.exists = TRUE
  /\ d.remaining = (IF a.exists THEN a.remaining ELSE limit) - cost
  /\ d.reserved = a.reserved + cost /\ d.committed = a.committed
  /\ d.overage = a.overage /\ d.open = a.open + 1 /\ d.warned = a.warned

\* The two ways to write a hold are one: to take it from what is there, or from the
\* limit.
LEMMA HoldWrites ==
  ASSUME NEW a \in Row, ~a.exists => a = Absent, NEW limit \in Nat, NEW cost \in Nat
  PROVE  Held(a, limit, cost, DynHold(a, limit, cost))
         /\ MemHold(a, limit, cost) = DynHold(a, limit, cost)
<1>. DEFINE had == IF a.exists THEN a.remaining ELSE limit
            D == [a EXCEPT !.exists = TRUE, !.remaining = had - cost,
                           !.reserved = a.reserved + cost, !.open = a.open + 1]
            seen == [a EXCEPT !.exists = TRUE, !.remaining = had]
            M == [seen EXCEPT !.remaining = @ - cost, !.reserved = @ + cost, !.open = @ + 1]
<1>1. /\ a.remaining \in Int /\ a.reserved \in Nat /\ a.open \in Nat
      /\ a.committed \in Nat /\ a.overage \in Nat
  BY DEF Row
<1>2. had \in Int /\ had - cost \in Int /\ a.reserved + cost \in Nat /\ a.open + 1 \in Nat
  BY <1>1
<1>3. DynHold(a, limit, cost) = D
  BY DEF DynHold
<1>4. MemHold(a, limit, cost) = M
  <2>1. CASE a.exists
    <3>1. seen = a
      <4>1. seen \in Row
        BY <1>1, <2>1 DEF Row
      <4>2. seen.exists = a.exists /\ seen.remaining = a.remaining
        BY <2>1 DEF Row
      <4>3. /\ seen.reserved = a.reserved /\ seen.committed = a.committed
            /\ seen.overage = a.overage /\ seen.open = a.open /\ seen.warned = a.warned
            /\ seen.pending = a.pending
        BY DEF Row
      <4>. HIDE DEF seen
      <4>. QED
        BY <4>1, <4>2, <4>3, RowIs DEF SameRow
    <3>. QED
      BY <2>1, <3>1 DEF MemHold
  <2>2. CASE ~a.exists
    <3>1. a = Absent /\ had = limit
      BY <2>2
    <3>2. MemSeed(limit) = seen
      BY <3>1 DEF MemSeed
    <3>. HIDE DEF seen
    <3>. QED
      BY <2>2, <3>2 DEF MemHold
  <2>. QED
    BY <2>1, <2>2
<1>. HIDE DEF had
<1>5. D \in Row
  BY <1>2 DEF Row
<1>6. /\ D.exists = TRUE /\ D.remaining = had - cost /\ D.reserved = a.reserved + cost
      /\ D.committed = a.committed /\ D.overage = a.overage /\ D.open = a.open + 1
      /\ D.warned = a.warned /\ D.pending = a.pending
  BY DEF Row
<1>7. /\ seen \in Row /\ seen.exists = TRUE /\ seen.remaining = had
      /\ seen.reserved = a.reserved /\ seen.committed = a.committed
      /\ seen.overage = a.overage /\ seen.open = a.open /\ seen.warned = a.warned
      /\ seen.pending = a.pending
  <2>1. seen \in Row
    BY <1>2 DEF Row
  <2>. QED
    BY <2>1 DEF Row
<1>8. M = D
  <2>. HIDE DEF seen
  <2>1. /\ seen.remaining - cost \in Int /\ seen.reserved + cost \in Nat
        /\ seen.open + 1 \in Nat
    BY <1>2, <1>7
  <2>2. M \in Row
    BY <1>7, <2>1 DEF Row
  <2>3. /\ M.exists = seen.exists /\ M.remaining = seen.remaining - cost
        /\ M.reserved = seen.reserved + cost /\ M.committed = seen.committed
        /\ M.overage = seen.overage /\ M.open = seen.open + 1 /\ M.warned = seen.warned
        /\ M.pending = seen.pending
    BY <1>7 DEF Row
  <2>. HIDE DEF M, D
  <2>4. SameRow(M, D) /\ M.pending = D.pending
    BY <1>6, <1>7, <2>3 DEF SameRow
  <2>. QED
    BY <1>5, <2>2, <2>4, RowIs
<1>. HIDE DEF D, M
<1>. QED
  BY <1>3, <1>4, <1>5, <1>6, <1>8 DEF had, Held

\* A hold leaves the items alike, whether they were there or are seeded by it.
LEMMA HoldAlike ==
  ASSUME NEW a \in Row, NEW b \in Row, SameRow(a, b),
         ~a.exists => a = Absent, ~b.exists => b = Absent,
         NEW limit \in Nat, NEW cost \in Nat
  PROVE  /\ DynHold(a, limit, cost) \in Row /\ MemHold(b, limit, cost) \in Row
         /\ SameRow(DynHold(a, limit, cost), MemHold(b, limit, cost))
         /\ DynHold(a, limit, cost).exists /\ MemHold(b, limit, cost).exists
         /\ DynHold(a, limit, cost).open = a.open + 1
         /\ DynHold(a, limit, cost).warned = a.warned
<1>. DEFINE d == DynHold(a, limit, cost)  m == MemHold(b, limit, cost)
<1>1. Held(a, limit, cost, d) /\ Held(b, limit, cost, m)
  BY HoldWrites
<1>. HIDE DEF d, m
<1>2. SameRow(d, m)
  BY <1>1 DEF SameRow, Held
<1>. QED
  BY <1>1, <1>2 DEF d, m, Held

\* A settlement leaves the items alike: while a reservation is open on an item, the
\* floor of the in-memory counter is out of reach.
LEMMA SettleAlike ==
  ASSUME NEW a \in Row, NEW b \in Row, SameRow(a, b), a.open > 0,
         NEW held \in Nat, held <= a.reserved, NEW actual \in Nat
  PROVE  /\ DynSettle(a, held, actual) \in Row /\ MemSettle(b, held, actual) \in Row
         /\ SameRow(DynSettle(a, held, actual), MemSettle(b, held, actual))
         /\ DynSettle(a, held, actual).exists = a.exists
         /\ MemSettle(b, held, actual).exists = b.exists
         /\ DynSettle(a, held, actual).open = a.open - 1
         /\ DynSettle(a, held, actual).warned = a.warned
<1>. DEFINE over == Max0(actual - held)
            d == [a EXCEPT !.remaining = @ + (held - actual), !.committed = @ + actual,
                           !.reserved = @ - held, !.overage = @ + over, !.open = @ - 1]
            m == [b EXCEPT !.remaining = @ + (held - actual), !.committed = @ + actual,
                           !.reserved = @ - held, !.overage = @ + over,
                           !.pending = Max0(@ - held), !.open = Max0(@ - 1)]
<1>1. /\ a.remaining \in Int /\ a.reserved \in Nat /\ a.open \in Nat
      /\ a.committed \in Nat /\ a.overage \in Nat /\ b.pending \in Nat
      /\ a.remaining = b.remaining /\ a.reserved = b.reserved /\ a.open = b.open
      /\ a.committed = b.committed /\ a.overage = b.overage
      /\ a.exists = b.exists /\ a.warned = b.warned
  BY DEF Row, SameRow
<1>2. /\ over \in Nat /\ Max0(b.open - 1) = a.open - 1 /\ Max0(b.pending - held) \in Nat
      /\ a.remaining + (held - actual) \in Int /\ a.committed + actual \in Nat
      /\ a.reserved - held \in Nat /\ a.open - 1 \in Nat
  BY <1>1 DEF Max0
<1>. HIDE DEF over
<1>3. a.overage + over \in Nat
  BY <1>1, <1>2
<1>4. /\ d.remaining = a.remaining + (held - actual) /\ d.committed = a.committed + actual
      /\ d.reserved = a.reserved - held /\ d.overage = a.overage + over
      /\ d.open = a.open - 1 /\ d.exists = a.exists /\ d.warned = a.warned
  BY DEF Row
<1>5. /\ m.remaining = b.remaining + (held - actual) /\ m.committed = b.committed + actual
      /\ m.reserved = b.reserved - held /\ m.overage = b.overage + over
      /\ m.open = Max0(b.open - 1) /\ m.exists = b.exists /\ m.warned = b.warned
  BY DEF Row
<1>6. d \in Row
  BY <1>2, <1>3 DEF Row
<1>7. m \in Row
  <2>1. /\ b.remaining + (held - actual) \in Int /\ b.committed + actual \in Nat
        /\ b.reserved - held \in Nat /\ Max0(b.open - 1) \in Nat
        /\ b.overage + over \in Nat
    BY <1>1, <1>2, <1>3
  <2>. QED
    BY <2>1, <1>2 DEF Row
<1>8. SameRow(d, m)
  <2>. HIDE DEF d, m
  <2>. QED
    BY <1>1, <1>2, <1>4, <1>5 DEF SameRow
<1>9. DynSettle(a, held, actual) = d /\ MemSettle(b, held, actual) = m
  BY DEF DynSettle, MemSettle, over
<1>. HIDE DEF d, m
<1>. QED
  BY <1>4, <1>5, <1>6, <1>7, <1>8, <1>9

\* Nor does a mark part them.
LEMMA MarkAlike ==
  ASSUME NEW a \in Row, NEW b \in Row, SameRow(a, b), NEW held \in Nat
  PROVE  /\ MarkHeld(a, held) \in Row /\ MarkHeld(b, held) \in Row
         /\ SameRow(MarkHeld(a, held), MarkHeld(b, held))
         /\ MarkHeld(a, held).exists = a.exists /\ MarkHeld(b, held).exists = b.exists
         /\ MarkHeld(a, held).open = a.open /\ MarkHeld(a, held).warned = a.warned
BY DEF Row, SameRow, MarkHeld

-----------------------------------------------------------------------------
(* What the invariant says of the two stores *)

\* The two stores are alike, and their parts have their types.
LEMMA StoresAre ==
  ASSUME Agreed
  PROVE  /\ dyn \in Store /\ mem \in Store /\ now \in Nat /\ Alike(dyn, mem)
         /\ \A s \in Scope : /\ dyn.row[s] \in Row /\ mem.row[s] \in Row
                             /\ SameRow(dyn.row[s], mem.row[s])
                             /\ ~dyn.row[s].exists => dyn.row[s] = Absent
                             /\ ~mem.row[s].exists => mem.row[s] = Absent
         /\ \A r \in Res : dyn.res[r] \in [state : State, cost : Nat]
<1>1. dyn \in Store /\ mem \in Store /\ now \in Nat /\ Alike(dyn, mem)
  BY BooksAre DEF Agreed, TypeOK, SameBooks
<1>2. \A s \in Scope : dyn.row[s] \in Row /\ mem.row[s] \in Row
  BY <1>1 DEF Store
<1>3. \A r \in Res : dyn.res[r] \in [state : State, cost : Nat]
  BY <1>1 DEF Store
<1>. QED
  BY <1>1, <1>2, <1>3 DEF Agreed, UnseededIsAbsent, Alike

\* A reservation that is open is counted.
LEMMA OpenCounts ==
  ASSUME Agreed, NEW r \in Res, dyn.res[r].state \in Open
  PROVE  /\ IsFiniteSet(OpenRes) /\ r \in OpenRes
         /\ \A s \in Scope : dyn.row[s].open > 0
<1>1. OpenRes \subseteq Known
  BY DEF OpenRes, Known, Open
<1>2. IsFiniteSet(OpenRes) /\ r \in OpenRes
  BY <1>1, FS_Subset DEF Agreed, TableIsFinite, OpenRes
<1>3. Cardinality(OpenRes) \in Nat /\ Cardinality(OpenRes) # 0
  BY <1>2, FS_CardinalityType, FS_EmptySet
<1>. QED
  BY <1>2, <1>3 DEF Agreed, OpenIsCounted

-----------------------------------------------------------------------------
(* Steps that leave the books alone *)

\* An answer that is the same, or refused, leaves everything agreed.
LEMMA ReadKeeps ==
  ASSUME Agreed, UNCHANGED <<dyn, mem>>, now' \in Nat,
         ~answer'.refused => answer'.dyn = answer'.mem
  PROVE  Agreed'
BY DEF Agreed, TypeOK, SameBooks, SameVerdict, UnseededIsAbsent, OpenIsCounted, OpenRes,
       AlertsAreFlagged, TableIsFinite, Known, SignedIn

-----------------------------------------------------------------------------
(* Transactions *)

\* y is x with other items, reservations and entries.
Written(x, y, row, res, ledger) ==
  /\ y \in Store /\ y.row = row /\ y.res = res /\ y.ledger = ledger
  /\ y.agent = x.agent /\ y.review = x.review /\ y.alerts = x.alerts /\ y.token = x.token

\* What a transaction writes.
LEMMA Writes ==
  ASSUME NEW x \in Store, NEW row \in [Scope -> Row],
         NEW res \in [Res -> [state : State, cost : Nat]], NEW ledger \in SUBSET LedgerEntry
  PROVE  Written(x, [x EXCEPT !.row = row, !.res = res, !.ledger = ledger], row, res, ledger)
<1>1. [x EXCEPT !.row = row, !.res = res, !.ledger = ledger] \in Store
  BY DEF Store
<1>. QED
  BY <1>1 DEF Store, Written

\* What a transaction may do to the two stores: new items on both sides that are
\* alike, the same reservations and entries.
LEMMA TransactionKeeps ==
  ASSUME Agreed,
         Written(dyn, dyn', dyn'.row, dyn'.res, dyn'.ledger),
         Written(mem, mem', mem'.row, dyn'.res, dyn'.ledger),
         now' = now, answer'.dyn = answer'.mem,
         \A s \in Scope : /\ SameRow(dyn'.row[s], mem'.row[s])
                          /\ dyn'.row[s].exists /\ mem'.row[s].exists
                          /\ dyn'.row[s].open = Cardinality(OpenRes')
                          /\ dyn'.row[s].warned = dyn.row[s].warned,
         IsFiniteSet(Known')
  PROVE  Agreed'
<1>1. dyn \in Store /\ mem \in Store /\ now \in Nat /\ Alike(dyn, mem)
  BY StoresAre
<1>4. TypeOK'
  BY <1>1 DEF TypeOK, Written
<1>5. SameBooks'
  <2>1. Alike(dyn', mem')
    BY <1>1 DEF Alike, Written
  <2>2. Books(dyn') = Books(mem')
    BY <2>1, BooksAre DEF Written
  <2>. QED
    BY <2>2 DEF SameBooks, Books
<1>6. SameVerdict'
  BY DEF SameVerdict
<1>7. UnseededIsAbsent'
  BY DEF UnseededIsAbsent
<1>8. OpenIsCounted'
  BY DEF OpenIsCounted
<1>9. AlertsAreFlagged'
  BY DEF AlertsAreFlagged, Agreed, Written
<1>10. TableIsFinite'
  <2>1. SignedIn' = SignedIn
    BY DEF SignedIn, Written
  <2>. QED
    BY <2>1 DEF TableIsFinite, Agreed
<1>. QED
  BY <1>4, <1>5, <1>6, <1>7, <1>8, <1>9, <1>10 DEF Agreed

\* reserve: its conditions fail alike, and what it writes is alike.
LEMMA ReserveKeeps ==
  ASSUME Agreed, NEW r \in Res, NEW cost \in Costs, Reserve(r, cost)
  PROVE  Agreed'
<1>. DEFINE df == ReserveFails(dyn, r, cost)  mf == ReserveFails(mem, r, cost)
            held == [state |-> "RESERVED", cost |-> cost]
            f == [s \in Scope |-> DynHold(dyn.row[s], Limit[s], cost)]
            g == [s \in Scope |-> MemHold(mem.row[s], Limit[s], cost)]
            res == [dyn.res EXCEPT ![r] = held]
<1>1. /\ dyn \in Store /\ mem \in Store /\ now \in Nat /\ Alike(dyn, mem)
      /\ \A s \in Scope : /\ dyn.row[s] \in Row /\ mem.row[s] \in Row
                          /\ SameRow(dyn.row[s], mem.row[s])
                          /\ ~dyn.row[s].exists => dyn.row[s] = Absent
                          /\ ~mem.row[s].exists => mem.row[s] = Absent
  BY StoresAre
<1>2. df = mf
  BY <1>1 DEF ReserveFails, Alike, SameRow
<1>3. /\ dyn' = Outcome(dyn, df, [dyn EXCEPT !.row = f, !.res[r] = held])
      /\ mem' = Outcome(mem, mf, [mem EXCEPT !.row = g, !.res[r] = held])
      /\ answer'.dyn = df /\ answer'.mem = mf /\ now' = now
  BY DEF Reserve, Answered
<1>. HIDE DEF df, mf
<1>4. CASE df # {}
  <2>1. UNCHANGED <<dyn, mem>>
    BY <1>2, <1>3, <1>4 DEF Outcome
  <2>. QED
    BY <2>1, <1>1, <1>2, <1>3, ReadKeeps
<1>5. CASE df = {}
  <2>1. cost \in Nat /\ \A s \in Scope : Limit[s] \in Nat
    BY RepositoriesAssumption
  <2>2. \A s \in Scope : /\ f[s] \in Row /\ g[s] \in Row /\ SameRow(f[s], g[s])
                         /\ f[s].exists /\ g[s].exists
                         /\ f[s].open = dyn.row[s].open + 1
                         /\ f[s].warned = dyn.row[s].warned
    <3>. SUFFICES ASSUME NEW s \in Scope
                  PROVE  /\ f[s] \in Row /\ g[s] \in Row /\ SameRow(f[s], g[s])
                         /\ f[s].exists /\ g[s].exists
                         /\ f[s].open = dyn.row[s].open + 1
                         /\ f[s].warned = dyn.row[s].warned
      OBVIOUS
    <3>. DEFINE a == dyn.row[s]  b == mem.row[s]
    <3>1. f[s] = DynHold(a, Limit[s], cost) /\ g[s] = MemHold(b, Limit[s], cost)
      OBVIOUS
    <3>2. /\ a \in Row /\ b \in Row /\ SameRow(a, b) /\ Limit[s] \in Nat
          /\ ~a.exists => a = Absent
          /\ ~b.exists => b = Absent
      BY <1>1, <2>1
    <3>. HIDE DEF a, b, f, g
    <3>3. /\ DynHold(a, Limit[s], cost) \in Row /\ MemHold(b, Limit[s], cost) \in Row
          /\ SameRow(DynHold(a, Limit[s], cost), MemHold(b, Limit[s], cost))
          /\ DynHold(a, Limit[s], cost).exists /\ MemHold(b, Limit[s], cost).exists
          /\ DynHold(a, Limit[s], cost).open = a.open + 1
          /\ DynHold(a, Limit[s], cost).warned = a.warned
      BY <3>2, <2>1, HoldAlike
    <3>. QED
      BY <3>1, <3>3 DEF a
  <2>3. dyn.res[r].state = "none"
    BY <1>5 DEF df, ReserveFails
  <2>4. dyn.res \in [Res -> [state : State, cost : Nat]] /\ mem.res = dyn.res
        /\ dyn.ledger \in SUBSET LedgerEntry /\ mem.ledger = dyn.ledger
    BY <1>1 DEF Store, Alike
  <2>5. held \in [state : State, cost : Nat] /\ held.state = "RESERVED"
    BY <2>1 DEF State, Open
  <2>. HIDE DEF f, g, held
  <2>6. /\ dyn' = [dyn EXCEPT !.row = f, !.res = res, !.ledger = dyn.ledger]
        /\ mem' = [mem EXCEPT !.row = g, !.res = res, !.ledger = dyn.ledger]
    <3>1. dyn' = [dyn EXCEPT !.row = f, !.res[r] = held]
          /\ mem' = [mem EXCEPT !.row = g, !.res[r] = held]
      BY <1>2, <1>3, <1>5 DEF Outcome
    <3>. QED
      BY <3>1, <2>4, <1>1 DEF Store
  <2>7. /\ res \in [Res -> [state : State, cost : Nat]]
        /\ {x \in Res : res[x].state \in Open} = OpenRes \cup {r}
        /\ {x \in Res : res[x].state # "none"} = Known \cup {r}
        /\ r \notin OpenRes /\ OpenRes \subseteq Known
    BY <2>3, <2>4, <2>5 DEF OpenRes, Known, Open
  <2>. HIDE DEF res
  <2>8. f \in [Scope -> Row] /\ g \in [Scope -> Row]
    BY <2>2 DEF f, g
  <2>9. Written(dyn, dyn', f, res, dyn.ledger) /\ Written(mem, mem', g, res, dyn.ledger)
    BY <1>1, <2>4, <2>6, <2>7, <2>8, Writes
  <2>10. OpenRes' = OpenRes \cup {r} /\ Known' = Known \cup {r}
    BY <2>7, <2>9 DEF OpenRes, Known, Written
  <2>11. /\ IsFiniteSet(Known \cup {r})
         /\ Cardinality(OpenRes \cup {r}) = Cardinality(OpenRes) + 1
    BY <2>7, FS_AddElement, FS_Subset DEF Agreed, TableIsFinite
  <2>12. \A s \in Scope : dyn'.row[s] = f[s] /\ mem'.row[s] = g[s]
                          /\ f[s].open = Cardinality(OpenRes')
    BY <2>2, <2>9, <2>10, <2>11 DEF Agreed, OpenIsCounted, Written
  <2>13. \A s \in Scope : /\ SameRow(dyn'.row[s], mem'.row[s])
                          /\ dyn'.row[s].exists /\ mem'.row[s].exists
                          /\ dyn'.row[s].open = Cardinality(OpenRes')
                          /\ dyn'.row[s].warned = dyn.row[s].warned
    BY <2>2, <2>12
  <2>14. /\ Written(dyn, dyn', dyn'.row, dyn'.res, dyn'.ledger)
         /\ Written(mem, mem', mem'.row, dyn'.res, dyn'.ledger)
    BY <2>9 DEF Written
  <2>. QED
    BY <1>2, <1>3, <2>10, <2>11, <2>13, <2>14, TransactionKeeps
<1>. QED
  BY <1>4, <1>5

\* What a settlement or mark checks fails alike on both.
LEMMA FailsAlike ==
  ASSUME Agreed, NEW r \in Res, NEW expected, NEW held
  PROVE  Moved(dyn, r, expected) \cup HoldMissing(dyn, held) \cup KeyTaken(dyn, r)
           = Moved(mem, r, expected) \cup HoldMissing(mem, held) \cup KeyTaken(mem, r)
BY StoresAre DEF Moved, HoldMissing, KeyTaken, Alike, SameRow

\* What a transaction on an open reservation does to the two stores.
LEMMA OpenTransactionKeeps ==
  ASSUME Agreed, NEW r \in Res, dyn.res[r].state \in Open,
         NEW new \in State, new # "none", NEW led \in SUBSET LedgerEntry,
         dyn' \in Store, mem' \in Store,
         Written(dyn, dyn', dyn'.row, [dyn.res EXCEPT ![r].state = new], led),
         Written(mem, mem', mem'.row, [dyn.res EXCEPT ![r].state = new], led),
         now' = now, answer'.dyn = answer'.mem,
         \A s \in Scope : /\ SameRow(dyn'.row[s], mem'.row[s])
                          /\ dyn'.row[s].exists /\ mem'.row[s].exists
                          /\ dyn'.row[s].open
                               = dyn.row[s].open - (IF new \in Open THEN 0 ELSE 1)
                          /\ dyn'.row[s].warned = dyn.row[s].warned
  PROVE  Agreed'
<1>1. dyn.res \in [Res -> [state : State, cost : Nat]]
  BY StoresAre DEF Store
<1>2. IsFiniteSet(OpenRes) /\ r \in OpenRes
  BY OpenCounts
<1>3. /\ Written(dyn, dyn', dyn'.row, dyn'.res, dyn'.ledger)
      /\ Written(mem, mem', mem'.row, dyn'.res, dyn'.ledger)
  BY DEF Written
<1>4. dyn'.res = [dyn.res EXCEPT ![r].state = new]
  BY DEF Written
<1>5. OpenRes' = IF new \in Open THEN OpenRes ELSE OpenRes \ {r}
  <2>1. \A x \in Res : dyn'.res[x].state = IF x = r THEN new ELSE dyn.res[x].state
    BY <1>1, <1>4
  <2>2. \A x : x \in OpenRes' <=> x \in Res /\ dyn'.res[x].state \in Open
    BY DEF OpenRes
  <2>3. \A x : x \in OpenRes <=> x \in Res /\ dyn.res[x].state \in Open
    BY DEF OpenRes
  <2>. QED
    BY <2>1, <2>2, <2>3, <1>2
<1>6. IsFiniteSet(Known')
  <2>1. \A x \in Res : dyn'.res[x].state = IF x = r THEN new ELSE dyn.res[x].state
    BY <1>1, <1>4
  <2>2. Known' \subseteq Known
    BY <2>1 DEF Known, Open
  <2>. QED
    BY <2>2, FS_Subset DEF Agreed, TableIsFinite
<1>7. \A s \in Scope : dyn.row[s].open = Cardinality(OpenRes)
  BY DEF Agreed, OpenIsCounted
<1>8. Cardinality(OpenRes \ {r}) = Cardinality(OpenRes) - 1 /\ Cardinality(OpenRes) \in Nat
  BY <1>2, FS_RemoveElement, FS_CardinalityType
<1>9. \A s \in Scope : dyn'.row[s].open = Cardinality(OpenRes')
  BY <1>5, <1>7, <1>8
<1>. QED
  BY <1>3, <1>6, <1>9, TransactionKeeps

\* What a settlement records are ledger entries.
LEMMA EntriesAre ==
  ASSUME now \in Nat, NEW r \in Res, NEW excess \in Int,
         NEW kind \in {"USAGE", "RELEASE", "PENDING_ASSUMED"}
  PROVE  Entries(r, kind, excess) \in SUBSET LedgerEntry
<1>1. Entry(r, 0, kind) \in LedgerEntry /\ Entry(r, 1, "OVERAGE") \in LedgerEntry
  BY DEF Entry, LedgerEntry
<1>. QED
  BY <1>1 DEF Entries

\* A settlement passes or fails on both stores, and what it writes is alike.
LEMMA SettleKeeps ==
  ASSUME Agreed, NEW op, NEW r \in Res, NEW expected \in Open, NEW actual \in Nat,
         NEW new \in {"RECONCILED", "RELEASED"}, NEW kind \in {"USAGE", "RELEASE"},
         Settle(op, r, expected, actual, new, kind)
  PROVE  Agreed'
<1>. DEFINE cost == dyn.res[r].cost
            df == Moved(dyn, r, expected) \cup HoldMissing(dyn, cost) \cup KeyTaken(dyn, r)
            mf == Moved(mem, r, expected) \cup HoldMissing(mem, cost) \cup KeyTaken(mem, r)
            f == [s \in Scope |-> DynSettle(dyn.row[s], cost, actual)]
            g == [s \in Scope |-> MemSettle(mem.row[s], cost, actual)]
            res == [dyn.res EXCEPT ![r].state = new]
            led == dyn.ledger \cup Entries(r, kind, actual - cost)
<1>1. /\ dyn \in Store /\ mem \in Store /\ now \in Nat /\ Alike(dyn, mem)
      /\ \A s \in Scope : /\ dyn.row[s] \in Row /\ mem.row[s] \in Row
                          /\ SameRow(dyn.row[s], mem.row[s])
      /\ dyn.res \in [Res -> [state : State, cost : Nat]]
      /\ dyn.res = mem.res /\ dyn.ledger = mem.ledger /\ dyn.ledger \in SUBSET LedgerEntry
  BY StoresAre DEF Store, Alike
<1>2. df = mf
  BY FailsAlike
<1>3. /\ dyn' = Outcome(dyn, df, [dyn EXCEPT !.row = f, !.res[r].state = new,
                                     !.ledger = @ \cup Entries(r, kind, actual - cost)])
      /\ mem' = Outcome(mem, mf, [mem EXCEPT !.row = g, !.res[r].state = new,
                                     !.ledger = @ \cup Entries(r, kind, actual - cost)])
      /\ answer'.dyn = df /\ answer'.mem = mf /\ now' = now
  BY DEF Settle, Answered
<1>. HIDE DEF mf
<1>4. CASE df # {}
  <2>. HIDE DEF df
  <2>1. UNCHANGED <<dyn, mem>>
    BY <1>2, <1>3, <1>4 DEF Outcome
  <2>. QED
    BY <2>1, <1>1, <1>2, <1>3, ReadKeeps
<1>5. CASE df = {}
  <2>1. /\ dyn.res[r].state = expected
        /\ \A s \in Scope : dyn.row[s].exists /\ ~(dyn.row[s].reserved < cost)
    BY <1>5 DEF Moved, HoldMissing
  <2>. HIDE DEF df
  <2>2. cost \in Nat
    BY <1>1
  <2>3. \A s \in Scope : dyn.row[s].open > 0
    BY <2>1, OpenCounts
  <2>. HIDE DEF cost
  <2>4. \A s \in Scope : /\ f[s] \in Row /\ g[s] \in Row /\ SameRow(f[s], g[s])
                         /\ f[s].exists /\ g[s].exists
                         /\ f[s].open = dyn.row[s].open - 1
                         /\ f[s].warned = dyn.row[s].warned
    <3>. SUFFICES ASSUME NEW s \in Scope
                  PROVE  /\ f[s] \in Row /\ g[s] \in Row /\ SameRow(f[s], g[s])
                         /\ f[s].exists /\ g[s].exists
                         /\ f[s].open = dyn.row[s].open - 1
                         /\ f[s].warned = dyn.row[s].warned
      OBVIOUS
    <3>. DEFINE a == dyn.row[s]  b == mem.row[s]
    <3>1. f[s] = DynSettle(a, cost, actual) /\ g[s] = MemSettle(b, cost, actual)
      OBVIOUS
    <3>2. /\ a \in Row /\ b \in Row /\ SameRow(a, b) /\ a.open > 0
          /\ a.exists /\ b.exists
          /\ ~(a.reserved < cost) /\ a.reserved \in Nat
      BY <1>1, <2>1, <2>3 DEF SameRow, Row
    <3>. HIDE DEF a, b, f, g
    <3>3. cost <= a.reserved
      BY <2>2, <3>2
    <3>4. /\ DynSettle(a, cost, actual) \in Row /\ MemSettle(b, cost, actual) \in Row
          /\ SameRow(DynSettle(a, cost, actual), MemSettle(b, cost, actual))
          /\ DynSettle(a, cost, actual).exists = a.exists
          /\ MemSettle(b, cost, actual).exists = b.exists
          /\ DynSettle(a, cost, actual).open = a.open - 1
          /\ DynSettle(a, cost, actual).warned = a.warned
      BY <2>2, <3>2, <3>3, SettleAlike
    <3>. QED
      BY <3>1, <3>2, <3>4 DEF a
  <2>5. led \in SUBSET LedgerEntry
    BY <1>1, <2>2, EntriesAre
  <2>. HIDE DEF f, g
  <2>6. /\ dyn' = [dyn EXCEPT !.row = f, !.res = res, !.ledger = led]
        /\ mem' = [mem EXCEPT !.row = g, !.res = res, !.ledger = led]
    <3>1. /\ dyn' = [dyn EXCEPT !.row = f, !.res[r].state = new,
                                !.ledger = @ \cup Entries(r, kind, actual - cost)]
          /\ mem' = [mem EXCEPT !.row = g, !.res[r].state = new,
                                !.ledger = @ \cup Entries(r, kind, actual - cost)]
      BY <1>2, <1>3, <1>5 DEF Outcome
    <3>. QED
      BY <3>1, <1>1 DEF Store
  <2>7. new \in State /\ new \notin Open /\ new # "none"
        /\ res \in [Res -> [state : State, cost : Nat]]
    BY <1>1 DEF State, Open
  <2>8. f \in [Scope -> Row] /\ g \in [Scope -> Row]
    BY <2>4 DEF f, g
  <2>. HIDE DEF led
  <2>9. Written(dyn, dyn', f, res, led) /\ Written(mem, mem', g, res, led)
    BY <1>1, <2>5, <2>6, <2>7, <2>8, Writes
  <2>10. \A s \in Scope : /\ SameRow(dyn'.row[s], mem'.row[s])
                          /\ dyn'.row[s].exists /\ mem'.row[s].exists
                          /\ dyn'.row[s].open
                               = dyn.row[s].open - (IF new \in Open THEN 0 ELSE 1)
                          /\ dyn'.row[s].warned = dyn.row[s].warned
    BY <2>4, <2>7, <2>9 DEF Written
  <2>11. /\ Written(dyn, dyn', dyn'.row, res, led) /\ Written(mem, mem', mem'.row, res, led)
         /\ dyn' \in Store /\ mem' \in Store
    BY <2>9 DEF Written
  <2>. QED
    BY <1>2, <1>3, <2>1, <2>5, <2>7, <2>10, <2>11, OpenTransactionKeeps
<1>. QED
  BY <1>4, <1>5

\* reconcile settles from RESERVED, or is refused by both.
LEMMA ReconcileKeeps ==
  ASSUME Agreed, NEW r \in Res, NEW actual \in Actuals, Reconcile(r, actual)
  PROVE  Agreed'
<1>1. actual \in Nat /\ "RESERVED" \in Open
  BY RepositoriesAssumption DEF Open
<1>2. Settle("reconcile", r, "RESERVED", actual, "RECONCILED", "USAGE")
  BY DEF Reconcile
<1>. QED
  BY <1>1, <1>2, SettleKeeps

\* release settles from the state it finds.
LEMMA ReleaseKeeps ==
  ASSUME Agreed, NEW r \in Res, Release(r)
  PROVE  Agreed'
<1>1. PICK expected \in Open : expected = dyn.res[r].state
  BY DEF Release
<1>2. Settle("release", r, expected, 0, "RELEASED", "RELEASE")
  BY <1>1 DEF Release
<1>. QED
  BY <1>2, SettleKeeps

\* mark_pending passes or fails on both stores; only the money it counts as pending
\* is counted in ways that differ later.
LEMMA MarkPendingKeeps ==
  ASSUME Agreed, NEW r \in Res, MarkPending(r)
  PROVE  Agreed'
<1>. DEFINE cost == dyn.res[r].cost
            df == Moved(dyn, r, "RESERVED") \cup HoldMissing(dyn, cost) \cup KeyTaken(dyn, r)
            mf == Moved(mem, r, "RESERVED") \cup HoldMissing(mem, cost) \cup KeyTaken(mem, r)
            f == [s \in Scope |-> MarkHeld(dyn.row[s], cost)]
            g == [s \in Scope |-> MarkHeld(mem.row[s], cost)]
            new == "RECONCILE_PENDING"
            res == [dyn.res EXCEPT ![r].state = new]
            led == dyn.ledger \cup Entries(r, "PENDING_ASSUMED", 0)
<1>1. /\ dyn \in Store /\ mem \in Store /\ now \in Nat /\ Alike(dyn, mem)
      /\ \A s \in Scope : /\ dyn.row[s] \in Row /\ mem.row[s] \in Row
                          /\ SameRow(dyn.row[s], mem.row[s])
      /\ dyn.res \in [Res -> [state : State, cost : Nat]]
      /\ dyn.res = mem.res /\ dyn.ledger = mem.ledger /\ dyn.ledger \in SUBSET LedgerEntry
  BY StoresAre DEF Store, Alike
<1>2. df = mf
  BY FailsAlike
<1>3. /\ dyn' = Outcome(dyn, df, [dyn EXCEPT !.row = f, !.res[r].state = new,
                                     !.ledger = @ \cup Entries(r, "PENDING_ASSUMED", 0)])
      /\ mem' = Outcome(mem, mf, [mem EXCEPT !.row = g, !.res[r].state = new,
                                     !.ledger = @ \cup Entries(r, "PENDING_ASSUMED", 0)])
      /\ answer'.dyn = df /\ answer'.mem = mf /\ now' = now
      /\ dyn.res[r].state = "RESERVED"
  BY DEF MarkPending, Answered
<1>. HIDE DEF mf
<1>4. CASE df # {}
  <2>. HIDE DEF df
  <2>1. UNCHANGED <<dyn, mem>>
    BY <1>2, <1>3, <1>4 DEF Outcome
  <2>. QED
    BY <2>1, <1>1, <1>2, <1>3, ReadKeeps
<1>5. CASE df = {}
  <2>1. \A s \in Scope : dyn.row[s].exists
    BY <1>5 DEF HoldMissing
  <2>. HIDE DEF df
  <2>2. cost \in Nat
    BY <1>1
  <2>. HIDE DEF cost
  <2>4. \A s \in Scope : /\ f[s] \in Row /\ g[s] \in Row /\ SameRow(f[s], g[s])
                         /\ f[s].exists /\ g[s].exists
                         /\ f[s].open = dyn.row[s].open
                         /\ f[s].warned = dyn.row[s].warned
    <3>. SUFFICES ASSUME NEW s \in Scope
                  PROVE  /\ f[s] \in Row /\ g[s] \in Row /\ SameRow(f[s], g[s])
                         /\ f[s].exists /\ g[s].exists
                         /\ f[s].open = dyn.row[s].open
                         /\ f[s].warned = dyn.row[s].warned
      OBVIOUS
    <3>. DEFINE a == dyn.row[s]  b == mem.row[s]
    <3>1. f[s] = MarkHeld(a, cost) /\ g[s] = MarkHeld(b, cost)
      OBVIOUS
    <3>2. a \in Row /\ b \in Row /\ SameRow(a, b) /\ a.exists /\ b.exists
      BY <1>1, <2>1 DEF SameRow
    <3>. HIDE DEF a, b, f, g
    <3>3. /\ MarkHeld(a, cost) \in Row /\ MarkHeld(b, cost) \in Row
          /\ SameRow(MarkHeld(a, cost), MarkHeld(b, cost))
          /\ MarkHeld(a, cost).exists = a.exists /\ MarkHeld(b, cost).exists = b.exists
          /\ MarkHeld(a, cost).open = a.open /\ MarkHeld(a, cost).warned = a.warned
      BY <2>2, <3>2, MarkAlike
    <3>. QED
      BY <3>1, <3>2, <3>3 DEF a
  <2>5. led \in SUBSET LedgerEntry
    BY <1>1, EntriesAre
  <2>. HIDE DEF f, g
  <2>6. /\ dyn' = [dyn EXCEPT !.row = f, !.res = res, !.ledger = led]
        /\ mem' = [mem EXCEPT !.row = g, !.res = res, !.ledger = led]
    <3>1. /\ dyn' = [dyn EXCEPT !.row = f, !.res[r].state = new,
                                !.ledger = @ \cup Entries(r, "PENDING_ASSUMED", 0)]
          /\ mem' = [mem EXCEPT !.row = g, !.res[r].state = new,
                                !.ledger = @ \cup Entries(r, "PENDING_ASSUMED", 0)]
      BY <1>2, <1>3, <1>5 DEF Outcome
    <3>. QED
      BY <3>1, <1>1 DEF Store
  <2>7. new \in State /\ new \in Open /\ new # "none" /\ dyn.res[r].state \in Open
        /\ res \in [Res -> [state : State, cost : Nat]]
    BY <1>1, <1>3 DEF State, Open
  <2>8. f \in [Scope -> Row] /\ g \in [Scope -> Row]
    BY <2>4 DEF f, g
  <2>. HIDE DEF led, new
  <2>9. Written(dyn, dyn', f, res, led) /\ Written(mem, mem', g, res, led)
    BY <1>1, <2>5, <2>6, <2>7, <2>8, Writes
  <2>10. \A s \in Scope : /\ SameRow(dyn'.row[s], mem'.row[s])
                          /\ dyn'.row[s].exists /\ mem'.row[s].exists
                          /\ dyn'.row[s].open
                               = dyn.row[s].open - (IF new \in Open THEN 0 ELSE 1)
                          /\ dyn'.row[s].warned = dyn.row[s].warned
    BY <1>1, <2>4, <2>7, <2>9 DEF Written, Row
  <2>11. /\ Written(dyn, dyn', dyn'.row, res, led) /\ Written(mem, mem', mem'.row, res, led)
         /\ dyn' \in Store /\ mem' \in Store
    BY <2>9 DEF Written
  <2>. QED
    BY <1>2, <1>3, <2>5, <2>7, <2>10, <2>11, OpenTransactionKeeps
<1>. QED
  BY <1>4, <1>5

-----------------------------------------------------------------------------
(* Conditional transitions *)

\* A flip is made by both stores or by neither: the alert of an item whose flag is
\* down is not there yet.
LEMMA TryFlipKeeps ==
  ASSUME Agreed, NEW s \in Scope, NEW floor, TryFlip(s, floor)
  PROVE  Agreed'
<1>. DEFINE d == CanFlip(dyn, s, floor) /\ Warning(s) \notin dyn.alerts
            m == MemCanFlip(s, floor)
            f == [dyn.row EXCEPT ![s].warned = TRUE]
            g == [mem.row EXCEPT ![s].warned = TRUE]
            raised == dyn.alerts \cup {Warning(s)}
<1>1. /\ dyn \in Store /\ mem \in Store /\ now \in Nat /\ Alike(dyn, mem)
      /\ \A x \in Scope : /\ dyn.row[x] \in Row /\ mem.row[x] \in Row
                          /\ SameRow(dyn.row[x], mem.row[x])
      /\ dyn.alerts = mem.alerts
  BY StoresAre DEF Alike
<1>2. d <=> m
  BY <1>1 DEF CanFlip, MemCanFlip, SameRow, Agreed, AlertsAreFlagged
<1>3. /\ dyn' = IF d THEN [dyn EXCEPT !.row[s].warned = TRUE,
                                      !.alerts = @ \cup {Warning(s)}]
                ELSE dyn
      /\ mem' = IF m THEN [mem EXCEPT !.row[s].warned = TRUE,
                                      !.alerts = @ \cup {Warning(s)}]
                ELSE mem
      /\ answer'.dyn = d /\ answer'.mem = m /\ now' = now
  BY DEF TryFlip, Answered
<1>4. answer'.dyn = answer'.mem
  <2>1. d \in BOOLEAN /\ m \in BOOLEAN
    BY DEF CanFlip, MemCanFlip
  <2>. HIDE DEF d, m
  <2>2. d = m
    BY <1>2, <2>1
  <2>. QED
    BY <1>3, <2>2
<1>5. CASE ~d
  <2>1. UNCHANGED <<dyn, mem>>
    BY <1>2, <1>3, <1>5
  <2>. QED
    BY <2>1, <1>1, <1>3, <1>4, ReadKeeps
<1>6. CASE d
  <2>1. /\ f \in [Scope -> Row] /\ g \in [Scope -> Row]
        /\ raised \in SUBSET {Warning(x) : x \in Scope}
        /\ dyn.row[s].exists /\ mem.row[s].exists
    <3>1. /\ dyn.row \in [Scope -> Row] /\ mem.row \in [Scope -> Row]
          /\ dyn.alerts \in SUBSET {Warning(x) : x \in Scope}
      BY <1>1 DEF Store
    <3>2. f \in [Scope -> Row] /\ g \in [Scope -> Row]
      BY <3>1, <1>1 DEF Row
    <3>3. dyn.row[s].exists /\ mem.row[s].exists
      BY <1>2, <1>6 DEF CanFlip, MemCanFlip
    <3>. QED
      BY <3>1, <3>2, <3>3
  <2>2. \A x \in Scope :
          /\ f[x].exists = dyn.row[x].exists /\ f[x].open = dyn.row[x].open
          /\ g[x].exists = mem.row[x].exists
          /\ x = s \/ (f[x] = dyn.row[x] /\ g[x] = mem.row[x])
          /\ f[s].warned /\ SameRow(f[x], g[x])
    <3>1. dyn.row \in [Scope -> Row] /\ mem.row \in [Scope -> Row]
      BY <1>1 DEF Store
    <3>2. \A x \in Scope : x # s => f[x] = dyn.row[x] /\ g[x] = mem.row[x]
      BY <3>1
    <3>3. /\ f[s] = [dyn.row[s] EXCEPT !.warned = TRUE]
          /\ g[s] = [mem.row[s] EXCEPT !.warned = TRUE]
      BY <3>1
    <3>4. /\ f[s].exists = dyn.row[s].exists /\ f[s].open = dyn.row[s].open
          /\ g[s].exists = mem.row[s].exists /\ f[s].warned /\ SameRow(f[s], g[s])
      <4>. DEFINE a == dyn.row[s]  b == mem.row[s]
                  u == [a EXCEPT !.warned = TRUE]  v == [b EXCEPT !.warned = TRUE]
      <4>1. a \in Row /\ b \in Row /\ SameRow(a, b)
        BY <1>1
      <4>2. f[s] = u /\ g[s] = v
        BY <3>3
      <4>. HIDE DEF a, b, f, g
      <4>3. /\ u.exists = a.exists /\ u.remaining = a.remaining /\ u.reserved = a.reserved
            /\ u.committed = a.committed /\ u.overage = a.overage /\ u.open = a.open
            /\ u.warned = TRUE
        BY <4>1 DEF Row
      <4>4. /\ v.exists = b.exists /\ v.remaining = b.remaining /\ v.reserved = b.reserved
            /\ v.committed = b.committed /\ v.overage = b.overage /\ v.open = b.open
            /\ v.warned = TRUE
        BY <4>1 DEF Row
      <4>. HIDE DEF u, v
      <4>5. SameRow(u, v)
        BY <4>1, <4>3, <4>4 DEF SameRow
      <4>. QED
        BY <4>2, <4>3, <4>4, <4>5 DEF a, b
    <3>. QED
      BY <3>2, <3>4, <1>1
  <2>. HIDE DEF f, g, raised
  <2>3. /\ dyn' = [dyn EXCEPT !.row = f, !.alerts = raised]
        /\ mem' = [mem EXCEPT !.row = g, !.alerts = raised]
    <3>1. /\ dyn' = [dyn EXCEPT !.row[s].warned = TRUE, !.alerts = @ \cup {Warning(s)}]
          /\ mem' = [mem EXCEPT !.row[s].warned = TRUE, !.alerts = @ \cup {Warning(s)}]
      BY <1>2, <1>3, <1>6
    <3>. QED
      BY <3>1, <1>1 DEF Store, f, g, raised
  <2>4. dyn' \in Store /\ mem' \in Store
    BY <1>1, <2>1, <2>3 DEF Store
  <2>5. /\ dyn'.row = f /\ dyn'.alerts = raised /\ dyn'.res = dyn.res
        /\ dyn'.ledger = dyn.ledger /\ dyn'.agent = dyn.agent /\ dyn'.review = dyn.review
        /\ dyn'.token = dyn.token
    BY <1>1, <2>3 DEF Store
  <2>6. /\ mem'.row = g /\ mem'.alerts = raised /\ mem'.res = mem.res
        /\ mem'.ledger = mem.ledger /\ mem'.agent = mem.agent /\ mem'.review = mem.review
        /\ mem'.token = mem.token
    BY <1>1, <2>3 DEF Store
  <2>7. SameBooks'
    <3>1. Alike(dyn', mem')
      BY <1>1, <2>2, <2>5, <2>6 DEF Alike
    <3>2. Books(dyn') = Books(mem')
      BY <3>1, <2>4, BooksAre
    <3>. QED
      BY <3>2 DEF SameBooks, Books
  <2>8. AlertsAreFlagged'
    <3>1. \A x \in Scope : Warning(x) = Warning(s) => x = s
      BY DEF Warning
    <3>2. \A x \in Scope : Warning(x) \in raised => Warning(x) \in dyn.alerts \/ x = s
      BY <3>1 DEF raised
    <3>. QED
      BY <3>2, <2>2, <2>5 DEF AlertsAreFlagged, Agreed
  <2>9. UnseededIsAbsent' /\ OpenIsCounted' /\ TableIsFinite'
    <3>1. OpenRes' = OpenRes /\ Known' = Known /\ SignedIn' = SignedIn
      BY <2>5 DEF OpenRes, Known, SignedIn
    <3>2. UnseededIsAbsent'
      BY <2>1, <2>2, <2>5, <2>6 DEF UnseededIsAbsent, Agreed
    <3>. QED
      BY <3>1, <3>2, <2>2, <2>5 DEF OpenIsCounted, TableIsFinite, Agreed
  <2>10. SameVerdict' /\ TypeOK'
    BY <1>1, <1>3, <1>4, <2>4 DEF SameVerdict, TypeOK
  <2>. QED
    BY <2>7, <2>8, <2>9, <2>10 DEF Agreed
<1>. QED
  BY <1>5, <1>6

\* What a step may do beside the books.
LEMMA RestKeeps ==
  ASSUME Agreed, dyn' \in Store, mem' \in Store, Alike(dyn', mem'),
         dyn'.row = dyn.row, mem'.row = mem.row, dyn'.res = dyn.res,
         dyn'.alerts = dyn.alerts, IsFiniteSet(SignedIn'),
         now' = now, answer'.dyn = answer'.mem
  PROVE  Agreed'
<1>1. TypeOK' /\ SameVerdict'
  BY StoresAre DEF TypeOK, SameVerdict
<1>2. SameBooks'
  <2>1. Books(dyn') = Books(mem')
    BY BooksAre
  <2>. QED
    BY <2>1 DEF SameBooks, Books
<1>3. OpenRes' = OpenRes /\ Known' = Known
  BY DEF OpenRes, Known
<1>4. UnseededIsAbsent' /\ OpenIsCounted' /\ AlertsAreFlagged' /\ TableIsFinite'
  BY <1>3 DEF UnseededIsAbsent, OpenIsCounted, AlertsAreFlagged, TableIsFinite, Agreed
<1>. QED
  BY <1>1, <1>2, <1>4 DEF Agreed

\* A transition is accepted by both stores or by neither, and flags the review alike.
LEMMA SetAgentStatusKeeps ==
  ASSUME Agreed, NEW t \in Transitions, SetAgentStatus(t[1], t[2])
  PROVE  Agreed'
<1>. DEFINE d == DynAccepts(t[1], t[2])  m == MemAccepts(t[1], t[2])
            flag == DynReview(t[2])
<1>1. /\ dyn \in Store /\ mem \in Store /\ now \in Nat /\ Alike(dyn, mem)
  BY StoresAre
<1>2. t[1] # t[2] /\ t[2] \in {"ACTIVE"} \cup Paused
  BY DEF Transitions, Paused
<1>3. d = m /\ MemReview(t[2]) = flag /\ flag \in BOOLEAN
  <2>1. d \in BOOLEAN /\ m \in BOOLEAN /\ (d <=> m)
    BY <1>1, <1>2 DEF DynAccepts, MemAccepts, Alike
  <2>2. flag \in BOOLEAN /\ MemReview(t[2]) \in BOOLEAN /\ (flag <=> MemReview(t[2]))
    BY DEF DynReview, MemReview
  <2>. HIDE DEF d, m, flag
  <2>. QED
    BY <2>1, <2>2
<1>4. /\ dyn' = IF d THEN [dyn EXCEPT !.agent = t[2], !.review = flag] ELSE dyn
      /\ mem' = IF m THEN [mem EXCEPT !.agent = t[2], !.review = MemReview(t[2])] ELSE mem
      /\ answer'.dyn = d /\ answer'.mem = m /\ now' = now
  BY DEF SetAgentStatus, Answered
<1>. HIDE DEF d, m, flag
<1>5. answer'.dyn = answer'.mem
  BY <1>3, <1>4
<1>6. CASE ~d
  <2>1. UNCHANGED <<dyn, mem>>
    BY <1>3, <1>4, <1>6
  <2>. QED
    BY <2>1, <1>1, <1>4, <1>5, ReadKeeps
<1>7. CASE d
  <2>1. /\ dyn' = [dyn EXCEPT !.agent = t[2], !.review = flag]
        /\ mem' = [mem EXCEPT !.agent = t[2], !.review = flag]
    BY <1>3, <1>4, <1>7
  <2>2. dyn' \in Store /\ mem' \in Store
    BY <1>1, <1>2, <1>3, <2>1 DEF Store
  <2>3. /\ dyn'.row = dyn.row /\ dyn'.alerts = dyn.alerts /\ dyn'.res = dyn.res
        /\ dyn'.ledger = dyn.ledger /\ dyn'.agent = t[2] /\ dyn'.review = flag
        /\ dyn'.token = dyn.token
    BY <1>1, <2>1 DEF Store
  <2>4. /\ mem'.row = mem.row /\ mem'.alerts = mem.alerts /\ mem'.res = mem.res
        /\ mem'.ledger = mem.ledger /\ mem'.agent = t[2] /\ mem'.review = flag
        /\ mem'.token = mem.token
    BY <1>1, <2>1 DEF Store
  <2>5. Alike(dyn', mem')
    BY <1>1, <2>3, <2>4 DEF Alike
  <2>6. IsFiniteSet(SignedIn')
    <3>1. SignedIn' = SignedIn
      BY <2>3 DEF SignedIn
    <3>. QED
      BY <3>1 DEF Agreed, TableIsFinite
  <2>. QED
    BY <1>1, <1>4, <1>5, <2>2, <2>3, <2>4, <2>5, <2>6, RestKeeps
<1>. QED
  BY <1>6, <1>7

-----------------------------------------------------------------------------
(* Reads *)

\* The image of a finite set is finite.
LEMMA ImageIsFinite ==
  ASSUME NEW S, IsFiniteSet(S), NEW tag
  PROVE  IsFiniteSet({<<tag, x>> : x \in S})
<1>. DEFINE T == {<<tag, x>> : x \in S}
            f == [x \in S |-> <<tag, x>>]
<1>1. f \in [S -> T] /\ \A t \in T : \E x \in S : f[x] = t
  OBVIOUS
<1>2. f \in Surjection(S, T)
  BY <1>1 DEF Surjection
<1>. QED
  BY <1>2, FS_Surjection

\* There are no more alerts than scopes.
LEMMA AlertsAreFinite ==
  ASSUME Agreed
  PROVE  IsFiniteSet(dyn.alerts)
<1>. DEFINE T == {Warning(s) : s \in Scope}
            f == [s \in Scope |-> Warning(s)]
<1>1. f \in [Scope -> T] /\ \A t \in T : \E s \in Scope : f[s] = t
  OBVIOUS
<1>2. IsFiniteSet(Scope)
  BY RepositoriesAssumption
<1>3. f \in Surjection(Scope, T)
  BY <1>1 DEF Surjection
<1>4. IsFiniteSet(T)
  BY <1>2, <1>3, FS_Surjection
<1>5. dyn.alerts \in SUBSET T
  BY StoresAre DEF Store
<1>. QED
  BY <1>4, <1>5, FS_Subset

\* The core table is finite.
LEMMA CoreIsFinite ==
  ASSUME Agreed
  PROVE  IsFiniteSet(CoreItems)
<1>. DEFINE seeded == {s \in Scope : dyn.row[s].exists}
<1>1. IsFiniteSet(seeded)
  BY RepositoriesAssumption, FS_Subset
<1>2. /\ IsFiniteSet({<<"row", s>> : s \in seeded})
      /\ IsFiniteSet({<<"res", r>> : r \in Known})
      /\ IsFiniteSet({<<"claim", r>> : r \in Known})
      /\ IsFiniteSet({<<"alert", a>> : a \in dyn.alerts})
      /\ IsFiniteSet({<<"login", t>> : t \in SignedIn})
  BY <1>1, ImageIsFinite, AlertsAreFinite DEF Agreed, TableIsFinite
<1>3. IsFiniteSet({<<"session", "s">>, <<"state", "agent">>})
  <2>1. IsFiniteSet({<<"session", "s">>}) /\ IsFiniteSet({<<"state", "agent">>})
    BY FS_Singleton
  <2>2. {<<"session", "s">>, <<"state", "agent">>}
          = {<<"session", "s">>} \cup {<<"state", "agent">>}
    OBVIOUS
  <2>. QED
    BY <2>1, <2>2, FS_Union
<1>4. CoreItems = (((({<<"row", s>> : s \in seeded} \cup {<<"res", r>> : r \in Known})
                       \cup {<<"claim", r>> : r \in Known})
                      \cup {<<"alert", a>> : a \in dyn.alerts})
                     \cup {<<"login", t>> : t \in SignedIn})
                    \cup {<<"session", "s">>, <<"state", "agent">>}
  BY DEF CoreItems, Known, SignedIn
<1>5. IsFiniteSet({<<"row", s>> : s \in seeded} \cup {<<"res", r>> : r \in Known})
  BY <1>2, FS_Union
<1>6. IsFiniteSet(({<<"row", s>> : s \in seeded} \cup {<<"res", r>> : r \in Known})
                    \cup {<<"claim", r>> : r \in Known})
  BY <1>2, <1>5, FS_Union
<1>7. IsFiniteSet((({<<"row", s>> : s \in seeded} \cup {<<"res", r>> : r \in Known})
                     \cup {<<"claim", r>> : r \in Known})
                    \cup {<<"alert", a>> : a \in dyn.alerts})
  BY <1>2, <1>6, FS_Union
<1>8. IsFiniteSet(((({<<"row", s>> : s \in seeded} \cup {<<"res", r>> : r \in Known})
                      \cup {<<"claim", r>> : r \in Known})
                     \cup {<<"alert", a>> : a \in dyn.alerts})
                    \cup {<<"login", t>> : t \in SignedIn})
  BY <1>2, <1>7, FS_Union
<1>. QED
  BY <1>3, <1>4, <1>8, FS_Union

\* A scan of a table that fits reads all of it.
LEMMA ScansReadAll ==
  ASSUME Agreed, TableFits, NEW limit \in {Page, ListLimit}, NEW found \in Read(limit)
  PROVE  found = CoreItems
<1>1. IsFiniteSet(CoreItems) /\ Cardinality(CoreItems) \in Nat
  BY CoreIsFinite, FS_CardinalityType
<1>2. Page \in Nat /\ ListLimit \in Nat
  BY RepositoriesAssumption
<1>3. Least(Cardinality(CoreItems), Least(limit, Page)) = Cardinality(CoreItems)
  BY <1>1, <1>2 DEF TableFits, Least
<1>4. found \in SUBSET CoreItems /\ Cardinality(found) = Cardinality(CoreItems)
  BY <1>3 DEF Read
<1>. QED
  BY <1>1, <1>4, FS_Subset

\* A list with room for all shows all.
LEMMA ShowsAll ==
  ASSUME NEW list, IsFiniteSet(list), Cardinality(list) <= ListLimit, NEW shown \in Shown(list)
  PROVE  shown = list
<1>1. Cardinality(list) \in Nat /\ ListLimit \in Nat
  BY FS_CardinalityType, RepositoriesAssumption
<1>2. shown \in SUBSET list /\ Cardinality(shown) = Cardinality(list)
  BY <1>1 DEF Shown, Least
<1>. QED
  BY <1>2, FS_Subset

\* Where the table fits, so do the alerts in it.
LEMMA AlertsFit ==
  ASSUME Agreed, TableFits
  PROVE  Cardinality(dyn.alerts) <= ListLimit
<1>. DEFINE f == [a \in dyn.alerts |-> <<"alert", a>>]
<1>1. f \in Injection(dyn.alerts, CoreItems)
  <2>1. \A a \in dyn.alerts : <<"alert", a>> \in CoreItems
    BY DEF CoreItems
  <2>2. f \in [dyn.alerts -> CoreItems]
    BY <2>1
  <2>3. \A a, b \in dyn.alerts : f[a] = f[b] => a = b
    OBVIOUS
  <2>. QED
    BY <2>2, <2>3 DEF Injection, IsInjective
<1>2. Cardinality(dyn.alerts) <= Cardinality(CoreItems)
  BY <1>1, CoreIsFinite, FS_Injection
<1>3. /\ Cardinality(dyn.alerts) \in Nat /\ Cardinality(CoreItems) \in Nat /\ ListLimit \in Nat
  BY AlertsAreFinite, CoreIsFinite, FS_CardinalityType, RepositoriesAssumption
<1>. QED
  BY <1>2, <1>3 DEF TableFits

\* The lists show what there is.
LEMMA ListAlertsKeeps ==
  ASSUME Agreed, TableFits, ListAlerts
  PROVE  Agreed'
<1>1. PICK found \in Read(ListLimit), shown \in Shown(mem.alerts) :
        Answered("alerts", {a \in dyn.alerts : <<"alert", a>> \in found}, shown)
  BY DEF ListAlerts
<1>2. found = CoreItems
  BY ScansReadAll
<1>3. \A a \in dyn.alerts : <<"alert", a>> \in found
  BY <1>2 DEF CoreItems
<1>4. dyn.alerts = mem.alerts /\ now \in Nat
  BY StoresAre DEF Alike
<1>5. shown = mem.alerts
  BY <1>4, AlertsAreFinite, AlertsFit, ShowsAll
<1>6. answer'.dyn = answer'.mem
  BY <1>1, <1>3, <1>4, <1>5 DEF Answered
<1>7. UNCHANGED <<dyn, mem, now>>
  BY DEF ListAlerts
<1>. QED
  BY <1>4, <1>6, <1>7, ReadKeeps

\* The same of the sessions.
LEMMA ListSessionsKeeps ==
  ASSUME Agreed, TableFits, ListSessions
  PROVE  Agreed'
<1>1. PICK found \in Read(ListLimit), shown \in Shown({"s"}) :
        Answered("sessions", {s \in {"s"} : <<"session", s>> \in found}, shown)
  BY DEF ListSessions
<1>2. found = CoreItems
  BY ScansReadAll
<1>3. <<"session", "s">> \in found
  BY <1>2 DEF CoreItems
<1>4. now \in Nat
  BY StoresAre
<1>5. shown = {"s"}
  <2>1. {<<"session", "s">>} \in SUBSET CoreItems
    BY <1>2, <1>3
  <2>2. Cardinality({<<"session", "s">>}) <= Cardinality(CoreItems)
    BY <2>1, CoreIsFinite, FS_Subset
  <2>3. /\ Cardinality({<<"session", "s">>}) = 1 /\ Cardinality({"s"}) = 1
        /\ IsFiniteSet({"s"})
    BY FS_Singleton
  <2>4. Cardinality(CoreItems) \in Nat /\ ListLimit \in Nat
    BY CoreIsFinite, FS_CardinalityType, RepositoriesAssumption
  <2>5. Cardinality({"s"}) <= ListLimit
    BY <2>2, <2>3, <2>4 DEF TableFits
  <2>. QED
    BY <2>3, <2>5, ShowsAll
<1>6. answer'.dyn = answer'.mem
  BY <1>1, <1>3, <1>5 DEF Answered
<1>7. UNCHANGED <<dyn, mem, now>>
  BY DEF ListSessions
<1>. QED
  BY <1>4, <1>6, <1>7, ReadKeeps

\* A change of the tokens that is the same in both stores.
LEMMA TokensKeep ==
  ASSUME Agreed, NEW token \in [Token -> {"none", "live", "revoked"}],
         dyn' = [dyn EXCEPT !.token = token], mem' = [mem EXCEPT !.token = token],
         IsFiniteSet({t \in Token : token[t] # "none"}),
         now' = now, answer'.dyn = answer'.mem
  PROVE  Agreed'
<1>1. /\ dyn \in Store /\ mem \in Store /\ now \in Nat /\ Alike(dyn, mem)
  BY StoresAre
<1>2. dyn' \in Store /\ mem' \in Store
  BY <1>1 DEF Store
<1>3. /\ dyn'.row = dyn.row /\ dyn'.alerts = dyn.alerts /\ dyn'.res = dyn.res
      /\ dyn'.ledger = dyn.ledger /\ dyn'.agent = dyn.agent /\ dyn'.review = dyn.review
      /\ dyn'.token = token
  BY <1>1 DEF Store
<1>4. /\ mem'.row = mem.row /\ mem'.alerts = mem.alerts /\ mem'.res = mem.res
      /\ mem'.ledger = mem.ledger /\ mem'.agent = mem.agent /\ mem'.review = mem.review
      /\ mem'.token = token
  BY <1>1 DEF Store
<1>5. Alike(dyn', mem')
  BY <1>1, <1>3, <1>4 DEF Alike
<1>6. IsFiniteSet(SignedIn')
  BY <1>3 DEF SignedIn
<1>. QED
  BY <1>2, <1>3, <1>4, <1>5, <1>6, RestKeeps

\* A login is entered in both stores.
LEMMA SignInKeeps ==
  ASSUME Agreed, NEW t \in Token, SignIn(t)
  PROVE  Agreed'
<1>. DEFINE token == [dyn.token EXCEPT ![t] = "live"]
<1>1. /\ dyn \in Store /\ mem \in Store /\ dyn.token = mem.token
      /\ dyn.token \in [Token -> {"none", "live", "revoked"}]
  BY StoresAre DEF Alike, Store
<1>2. /\ dyn' = [dyn EXCEPT !.token = token] /\ mem' = [mem EXCEPT !.token = token]
      /\ now' = now /\ answer'.dyn = answer'.mem
  BY <1>1 DEF SignIn, Answered, Store
<1>3. token \in [Token -> {"none", "live", "revoked"}]
  BY <1>1
<1>4. {x \in Token : token[x] # "none"} = SignedIn \cup {t}
  BY <1>1 DEF SignedIn
<1>5. IsFiniteSet(SignedIn \cup {t})
  BY FS_AddElement DEF Agreed, TableIsFinite
<1>. HIDE DEF token
<1>. QED
  BY <1>2, <1>3, <1>4, <1>5, TokensKeep

\* One scan finds every session of a user in a table that fits.
LEMMA RevokeKeeps ==
  ASSUME Agreed, TableFits, RevokeUserSessions
  PROVE  Agreed'
<1>. DEFINE token == [t \in Token |-> IF t \in Live(dyn) THEN "revoked" ELSE dyn.token[t]]
<1>1. /\ dyn \in Store /\ mem \in Store /\ dyn.token = mem.token
      /\ dyn.token \in [Token -> {"none", "live", "revoked"}]
  BY StoresAre DEF Alike, Store
<1>2. PICK found \in Read(Page) :
        LET tokens == {t \in Live(dyn) : <<"login", t>> \in found}
        IN /\ dyn' = Revoked(dyn, tokens)
           /\ mem' = Revoked(mem, Live(mem))
           /\ Answered("revoke", Cardinality(tokens), Cardinality(Live(mem)))
  BY DEF RevokeUserSessions
<1>3. found = CoreItems
  BY ScansReadAll
<1>4. {t \in Live(dyn) : <<"login", t>> \in found} = Live(dyn)
  BY <1>3 DEF CoreItems, Live
<1>5. Live(mem) = Live(dyn)
  BY <1>1 DEF Live
<1>6. /\ dyn' = Revoked(dyn, Live(dyn)) /\ mem' = Revoked(mem, Live(dyn))
      /\ answer'.dyn = answer'.mem /\ now' = now
  BY <1>2, <1>4, <1>5 DEF RevokeUserSessions, Answered
<1>7. dyn' = [dyn EXCEPT !.token = token] /\ mem' = [mem EXCEPT !.token = token]
  BY <1>1, <1>6 DEF Revoked
<1>8. token \in [Token -> {"none", "live", "revoked"}]
  BY <1>1
<1>9. {t \in Token : token[t] # "none"} = SignedIn
  BY DEF SignedIn, Live
<1>. HIDE DEF token
<1>. QED
  BY <1>6, <1>7, <1>8, <1>9, TokensKeep DEF Agreed, TableIsFinite

\* Queries read the same entries.
LEMMA QueryKeeps ==
  ASSUME Agreed, NEW since, QueryLedger(since) \/ ReadAudit
  PROVE  Agreed'
<1>1. dyn.ledger = mem.ledger /\ now \in Nat
  BY StoresAre DEF Alike
<1>2. CASE QueryLedger(since)
  <2>1. answer'.dyn = From(dyn, since) /\ answer'.mem = From(mem, since)
    BY <1>2 DEF QueryLedger
  <2>2. From(dyn, since) = From(mem, since)
    BY <1>1 DEF From
  <2>3. UNCHANGED <<dyn, mem, now>>
    BY <1>2 DEF QueryLedger
  <2>. QED
    BY <1>1, <2>1, <2>2, <2>3, ReadKeeps
<1>3. CASE ReadAudit
  <2>1. UNCHANGED <<dyn, mem, now>> /\ answer'.dyn = answer'.mem
    BY <1>3 DEF ReadAudit
  <2>. QED
    BY <1>1, <2>1, ReadKeeps
<1>. QED
  BY <1>2, <1>3

\* The clock changes no books.
LEMMA TickKeeps ==
  ASSUME Agreed, Tick
  PROVE  Agreed'
<1>1. now \in Nat /\ UNCHANGED <<dyn, mem, answer>> /\ now' = now + 1
  BY StoresAre DEF Tick
<1>2. now' \in Nat /\ (~answer'.refused => answer'.dyn = answer'.mem)
  BY <1>1 DEF Agreed, SameVerdict
<1>. QED
  BY <1>1, <1>2, ReadKeeps

-----------------------------------------------------------------------------
(* The books *)

\* Empty stores agree.
LEMMA AgreedInit == Init => Agreed
<1>. SUFFICES ASSUME Init PROVE Agreed
  OBVIOUS
<1>1. dyn = Empty /\ mem = Empty /\ answer.dyn = answer.mem /\ now = 0
  BY DEF Init
<1>2. Absent \in Row /\ Absent.open = 0
  BY DEF Absent, Row
<1>3. Empty \in Store
  <2>1. [s \in Scope |-> Absent] \in [Scope -> Row]
    BY <1>2
  <2>2. [r \in Res |-> [state |-> "none", cost |-> 0]]
          \in [Res -> [state : State, cost : Nat]]
    BY DEF State
  <2>. QED
    BY <2>1, <2>2 DEF Empty, Store
<1>4. /\ \A s \in Scope : dyn.row[s] = Absent /\ mem.row[s] = Absent
      /\ \A r \in Res : dyn.res[r].state = "none"
      /\ \A t \in Token : dyn.token[t] = "none"
      /\ dyn.alerts = {}
  BY <1>1 DEF Empty
<1>5. OpenRes = {} /\ Known = {} /\ SignedIn = {}
  BY <1>4 DEF OpenRes, Known, SignedIn, Open
<1>6. TypeOK /\ SameBooks /\ SameVerdict
  BY <1>1, <1>3 DEF TypeOK, SameBooks, SameVerdict
<1>7. UnseededIsAbsent /\ AlertsAreFlagged
  BY <1>4 DEF UnseededIsAbsent, AlertsAreFlagged
<1>8. OpenIsCounted /\ TableIsFinite
  BY <1>2, <1>4, <1>5, FS_EmptySet DEF OpenIsCounted, TableIsFinite
<1>. QED
  BY <1>6, <1>7, <1>8 DEF Agreed

\* Every step on tables that fit keeps the stores agreed.
LEMMA AgreedNext == Agreed /\ TableFits /\ [Next]_vars => Agreed'
<1>. SUFFICES ASSUME Agreed, TableFits, [Next]_vars PROVE Agreed'
  OBVIOUS
<1>1. ASSUME Transact PROVE Agreed'
  <2>1. PICK r \in Res : \/ \E cost \in Costs : Reserve(r, cost)
                         \/ \E actual \in Actuals : Reconcile(r, actual)
                         \/ Release(r)
                         \/ MarkPending(r)
    BY <1>1 DEF Transact
  <2>. QED
    BY <2>1, ReserveKeeps, ReconcileKeeps, ReleaseKeeps, MarkPendingKeeps
<1>2. ASSUME NEW s \in Scope, NEW floor, TryFlip(s, floor) PROVE Agreed'
  BY <1>2, TryFlipKeeps
<1>3. ASSUME NEW t \in Transitions, SetAgentStatus(t[1], t[2]) PROVE Agreed'
  BY <1>3, SetAgentStatusKeeps
<1>4. ASSUME ListAlerts \/ ListSessions \/ RevokeUserSessions PROVE Agreed'
  BY <1>4, ListAlertsKeeps, ListSessionsKeeps, RevokeKeeps
<1>5. ASSUME NEW t \in Token, SignIn(t) PROVE Agreed'
  BY <1>5, SignInKeeps
<1>6. ASSUME NEW since, QueryLedger(since) \/ ReadAudit PROVE Agreed'
  BY <1>6, QueryKeeps
<1>7. CASE Tick
  BY <1>7, TickKeeps
<1>8. CASE UNCHANGED vars
  <2>1. UNCHANGED <<dyn, mem, answer, now>>
    BY <1>8 DEF vars
  <2>2. now' \in Nat /\ (~answer'.refused => answer'.dyn = answer'.mem)
    BY <2>1, StoresAre DEF Agreed, SameVerdict
  <2>. QED
    BY <2>1, <2>2, ReadKeeps
<1>. QED
  BY <1>1, <1>2, <1>3, <1>4, <1>5, <1>6, <1>7, <1>8 DEF Next

\* As long as a scan reads the whole table, the two stores are in step: counters,
\* reservations, entries, status, alerts and tokens, and what either answers.
THEOREM StoresAgree == Spec /\ []TableFits => []Agreed
<1>. QED
  BY AgreedInit, AgreedNext, PTL DEF Spec

\* The in-memory store keeps the books DynamoDB keeps, after any calls.
THEOREM BooksAgree == Spec /\ []TableFits => []SameBooks
<1>1. Agreed => SameBooks
  BY DEF Agreed
<1>. QED
  BY <1>1, StoresAgree, PTL

\* And it refuses, wins and lists what DynamoDB does.
THEOREM VerdictsAgree == Spec /\ []TableFits => []SameVerdict
<1>1. Agreed => SameVerdict
  BY DEF Agreed
<1>. QED
  BY <1>1, StoresAgree, PTL

-----------------------------------------------------------------------------
(* The provider registry *)

\* What a gateway starts with has the right types.
LEMMA BootTypes ==
  /\ BootConfig \in [Provider -> Config]
  /\ BootSecrets \in [Provider -> Secret \cup {NoSecret}]
  /\ BootAdapters \in [Provider -> Secret \cup {NoSecret, Ambient}]
<1>1. BootConfig \in [Provider -> Config]
  <2>1. ASSUME NEW p \in Provider PROVE BootConfig[p] \in Config
    BY ProvidersAssumption DEF BootConfig, Config, Status
  <2>. QED
    BY <2>1 DEF BootConfig
<1>2. BootSecrets \in [Provider -> Secret \cup {NoSecret}]
  BY ProvidersAssumption DEF BootSecrets
<1>3. BootAdapters \in [Provider -> Secret \cup {NoSecret, Ambient}]
  BY <1>2 DEF BootAdapters, Built
<1>. QED
  BY <1>1, <1>2, <1>3

\* What a gateway starts with is in order.
LEMMA BootIsCurrent ==
  ASSUME NEW p \in Provider
  PROVE  BootAdapters[p] = IF BootConfig[p].enabled THEN Built(p, BootSecrets[p])
                             ELSE NoSecret
BY DEF BootAdapters

\* What an update writes has the right types.
LEMMA UpdateTypes ==
  ASSUME InOrder, NEW g \in Gateway, NEW p \in Provider,
         NEW key \in KeyInput, NEW want \in WantInput
  PROVE  /\ SecretAfter(g, p, key) \in Secret \cup {NoSecret}
         /\ MaskedAfter(g, p, key) \in Secret \cup {NoSecret}
         /\ ConfiguredAfter(g, p, key) \in BOOLEAN
         /\ EnabledAfter(g, p, want) \in BOOLEAN
         /\ Built(p, SecretAfter(g, p, key)) \in Secret \cup {NoSecret, Ambient}
<1>1. config[g][p] \in Config /\ secret[g][p] \in Secret \cup {NoSecret}
  BY DEF InOrder, RegistryTypeOK
<1>2. SecretAfter(g, p, key) \in Secret \cup {NoSecret}
  BY <1>1 DEF SecretAfter, KeyInput
<1>3. MaskedAfter(g, p, key) \in Secret \cup {NoSecret}
  BY <1>1 DEF MaskedAfter, KeyInput, Config
<1>4. ConfiguredAfter(g, p, key) \in BOOLEAN
  BY <1>1 DEF ConfiguredAfter, Config
<1>5. EnabledAfter(g, p, want) \in BOOLEAN
  <2>1. CASE want = {}
    BY <1>1, <2>1 DEF EnabledAfter, Config
  <2>2. CASE want # {}
    <3>1. want \subseteq BOOLEAN
      BY DEF WantInput
    <3>2. (CHOOSE on \in want : TRUE) \in want
      BY <2>2
    <3>. QED
      BY <2>2, <3>1, <3>2 DEF EnabledAfter
  <2>. QED
    BY <2>1, <2>2
<1>. QED
  BY <1>2, <1>3, <1>4, <1>5 DEF Built

\* An update changes one provider of one gateway, and keeps it in order.
LEMMA UpdateKeepsOrder ==
  ASSUME InOrder, NEW g \in Gateway, NEW p \in Provider,
         NEW key \in KeyInput, NEW want \in WantInput, UpdateProvider(g, p, key, want)
  PROVE  /\ config' \in [Gateway -> [Provider -> Config]]
         /\ secret' \in [Gateway -> [Provider -> Secret \cup {NoSecret}]]
         /\ adapter' \in [Gateway -> [Provider -> Secret \cup {NoSecret, Ambient}]]
         /\ AdaptersAreCurrent'
<1>. DEFINE cfg == [config[g][p] EXCEPT !.enabled = EnabledAfter(g, p, want),
                                        !.configured = ConfiguredAfter(g, p, key),
                                        !.masked = MaskedAfter(g, p, key)]
            sec == SecretAfter(g, p, key)
<1>1. /\ config \in [Gateway -> [Provider -> Config]] /\ config[g][p] \in Config
      /\ secret \in [Gateway -> [Provider -> Secret \cup {NoSecret}]]
      /\ adapter \in [Gateway -> [Provider -> Secret \cup {NoSecret, Ambient}]]
  BY DEF InOrder, RegistryTypeOK
<1>2. cfg \in Config /\ cfg.enabled = EnabledAfter(g, p, want)
  BY <1>1, UpdateTypes DEF Config
<1>3. sec \in Secret \cup {NoSecret} /\ Built(p, sec) \in Secret \cup {NoSecret, Ambient}
  BY UpdateTypes
<1>4. secret' = [secret EXCEPT ![g][p] = sec]
  BY DEF UpdateProvider
<1>5. secret' \in [Gateway -> [Provider -> Secret \cup {NoSecret}]]
  <2>. HIDE DEF sec
  <2>. QED
    BY <1>1, <1>3, <1>4
<1>6. ASSUME NEW h \in Gateway, NEW q \in Provider
      PROVE  \/ adapter[h][q] = (IF config[h][q].enabled THEN Built(q, secret[h][q])
                                 ELSE NoSecret)
             \/ config[h][q].enabled /\ q \in Keyed /\ secret[h][q] = NoSecret
  BY DEF InOrder, AdaptersAreCurrent
<1>7. CASE Refused(g, p, key, want)
  <2>1. config' = config /\ adapter' = adapter
    BY <1>7 DEF UpdateProvider
  <2>2. sec = secret[g][p] \/ (p \in Keyed /\ sec = NoSecret)
    BY <1>7 DEF Refused, ConfiguredAfter, SecretAfter
  <2>. HIDE DEF sec
  <2>3. ASSUME NEW h \in Gateway, NEW q \in Provider
        PROVE  \/ secret'[h][q] = secret[h][q]
               \/ h = g /\ q = p /\ p \in Keyed /\ secret'[h][q] = NoSecret
    BY <1>1, <1>4, <2>2
  <2>4. EnabledAfter(g, p, want) /\ ~ConfiguredAfter(g, p, key) /\ p \in Keyed
    BY <1>7 DEF Refused
  <2>5. ASSUME NEW h \in Gateway, NEW q \in Provider
        PROVE  \/ adapter'[h][q] = (IF config'[h][q].enabled THEN Built(q, secret'[h][q])
                                    ELSE NoSecret)
               \/ config'[h][q].enabled /\ q \in Keyed /\ secret'[h][q] = NoSecret
    BY <1>6, <2>1, <2>3
  <2>. QED
    BY <1>1, <1>5, <2>1, <2>5 DEF AdaptersAreCurrent
<1>8. CASE ~Refused(g, p, key, want)
  <2>. DEFINE ada == IF cfg.enabled THEN Built(p, sec) ELSE NoSecret
  <2>1. /\ config' = [config EXCEPT ![g][p] = cfg]
        /\ adapter' = [adapter EXCEPT ![g][p] = ada]
    BY <1>8 DEF UpdateProvider, Rebuild
  <2>2. ada \in Secret \cup {NoSecret, Ambient}
    BY <1>3
  <2>3. ada = (IF cfg.enabled THEN Built(p, sec) ELSE NoSecret)
    OBVIOUS
  <2>. HIDE DEF cfg, sec, ada
  <2>4. /\ config' \in [Gateway -> [Provider -> Config]]
        /\ adapter' \in [Gateway -> [Provider -> Secret \cup {NoSecret, Ambient}]]
    BY <1>1, <1>2, <2>1, <2>2
  <2>5. config'[g][p] = cfg /\ adapter'[g][p] = ada /\ secret'[g][p] = sec
    BY <1>1, <1>4, <2>1
  <2>6. ASSUME NEW h \in Gateway, NEW q \in Provider, h # g \/ q # p
        PROVE  /\ config'[h][q] = config[h][q] /\ adapter'[h][q] = adapter[h][q]
               /\ secret'[h][q] = secret[h][q]
    BY <1>1, <1>4, <2>1, <2>6
  <2>7. ASSUME NEW h \in Gateway, NEW q \in Provider
        PROVE  \/ adapter'[h][q] = (IF config'[h][q].enabled THEN Built(q, secret'[h][q])
                                    ELSE NoSecret)
               \/ config'[h][q].enabled /\ q \in Keyed /\ secret'[h][q] = NoSecret
    <3>1. CASE h = g /\ q = p
      BY <2>3, <2>5, <3>1
    <3>2. CASE h # g \/ q # p
      BY <1>6, <2>6, <3>2
    <3>. QED
      BY <3>1, <3>2
  <2>. QED
    BY <1>5, <2>4, <2>7 DEF AdaptersAreCurrent
<1>. QED
  BY <1>7, <1>8

\* A call that enters keeps the calls in order.
LEMMA EnterKeepsOrder ==
  ASSUME InOrder, NEW r \in Request, NEW g \in Gateway, NEW p \in Provider,
         NEW pc \in {"auditing", "refused"}, NEW row \in SUBSET AuditRow,
         pc = "auditing" => row # {}, Unused(r), Enter(r, g, p, pc, row)
  PROVE  /\ DOMAIN request' = DOMAIN request \cup {r}
         /\ request' \in [DOMAIN request' -> Frame]
         /\ RecordsAreReady'
<1>. DEFINE new == [pc |-> pc, at |-> g, for |-> p, row |-> row, was |-> config[g][p]]
<1>1. new \in Frame /\ new.pc = pc /\ new.row = row
  BY DEF InOrder, RegistryTypeOK, Frame
<1>2. request' = [q \in DOMAIN request \cup {r} |-> IF q = r THEN new ELSE request[q]]
  BY DEF Enter
<1>3. request \in [DOMAIN request -> Frame]
  BY DEF InOrder, RegistryTypeOK
<1>. HIDE DEF new
<1>4. DOMAIN request' = DOMAIN request \cup {r} /\ request' \in [DOMAIN request' -> Frame]
  BY <1>1, <1>2, <1>3
<1>5. RecordsAreReady'
  BY <1>1, <1>2, <1>4 DEF InOrder, RecordsAreReady
<1>. QED
  BY <1>4, <1>5

\* The routes' rows.
LEMMA RowTypes ==
  /\ \A action \in {"provider.configured", "provider.updated"}, had, has \in BOOLEAN :
       {[action |-> action, before |-> ConfiguredName(had),
         after |-> ConfiguredName(has)]}
         \subseteq AuditRow
  /\ {[action |-> "provider.enabled", before |-> "disabled", after |-> "enabled"]}
       \subseteq AuditRow
  /\ {[action |-> "provider.disabled", before |-> "enabled", after |-> "disabled"]}
       \subseteq AuditRow
  /\ \A found \in Status :
       {[action |-> "provider.connection_tested", before |-> "untested", after |-> found]}
         \subseteq AuditRow
BY DEF AuditRow, ConfiguredName, Status

\* The routes and their answers.
LEMMA NextInOrder == InOrder /\ [RegistryNext]_registry => InOrder'
<1>. SUFFICES ASSUME InOrder, [RegistryNext]_registry PROVE InOrder'
  OBVIOUS
<1>1. CASE UNCHANGED registry
  BY <1>1 DEF registry, InOrder, RegistryTypeOK, AdaptersAreCurrent, RecordsAreReady
<1>2. /\ DOMAIN request \subseteq Request /\ DOMAIN audit \subseteq DOMAIN request
      /\ audit \in [DOMAIN audit -> AuditRow] /\ request \in [DOMAIN request -> Frame]
  BY DEF InOrder, RegistryTypeOK
\* A change of one provider, whose call then writes its record or is refused.
<1>3. ASSUME NEW r \in Request, NEW g \in Gateway, NEW p \in Provider, Unused(r),
             NEW pc \in {"auditing", "refused"}, NEW row \in SUBSET AuditRow,
             pc = "auditing" => row # {}, Enter(r, g, p, pc, row), audit' = audit,
             /\ config' \in [Gateway -> [Provider -> Config]]
             /\ secret' \in [Gateway -> [Provider -> Secret \cup {NoSecret}]]
             /\ adapter' \in [Gateway -> [Provider -> Secret \cup {NoSecret, Ambient}]]
             /\ AdaptersAreCurrent'
      PROVE  InOrder'
  <2>1. /\ DOMAIN request' = DOMAIN request \cup {r}
        /\ request' \in [DOMAIN request' -> Frame]
        /\ RecordsAreReady'
    BY <1>3, EnterKeepsOrder
  <2>. QED
    BY <1>2, <1>3, <2>1 DEF InOrder, RegistryTypeOK
<1>4. ASSUME NEW r \in Request, NEW g \in Gateway, NEW p \in Provider,
             NEW key \in KeyInput, NEW want \in WantInput, PutProvider(r, g, p, key, want)
      PROVE  InOrder'
  <2>1. Unused(r) /\ UpdateProvider(g, p, key, want) /\ audit' = audit
    BY <1>4 DEF PutProvider
  <2>4. /\ config' \in [Gateway -> [Provider -> Config]]
        /\ secret' \in [Gateway -> [Provider -> Secret \cup {NoSecret}]]
        /\ adapter' \in [Gateway -> [Provider -> Secret \cup {NoSecret, Ambient}]]
        /\ AdaptersAreCurrent'
    BY <2>1, UpdateKeepsOrder
  <2>2. CASE Refused(g, p, key, want)
    <3>1. Enter(r, g, p, "refused", {})
      BY <1>4, <2>2 DEF PutProvider
    <3>. QED
      BY <1>3, <2>1, <2>4, <3>1
  <2>3. CASE ~Refused(g, p, key, want)
    <3>1. PICK action \in {"provider.configured", "provider.updated"} :
            ToAudit(r, g, p, action, ConfiguredName(config[g][p].configured),
                    ConfiguredName(ConfiguredAfter(g, p, key)))
      BY <1>4, <2>3 DEF PutProvider
    <3>. DEFINE row == {[action |-> action,
                         before |-> ConfiguredName(config[g][p].configured),
                         after |-> ConfiguredName(ConfiguredAfter(g, p, key))]}
    <3>2. config[g][p].configured \in BOOLEAN /\ ConfiguredAfter(g, p, key) \in BOOLEAN
      BY UpdateTypes DEF InOrder, RegistryTypeOK, Config
    <3>3. row \in SUBSET AuditRow /\ row # {}
      BY <3>2, RowTypes
    <3>4. Enter(r, g, p, "auditing", row)
      BY <3>1 DEF ToAudit
    <3>. HIDE DEF row
    <3>. QED
      BY <1>3, <2>1, <2>4, <3>3, <3>4
  <2>. QED
    BY <2>2, <2>3
<1>5. ASSUME NEW r \in Request, NEW g \in Gateway, NEW p \in Provider, EnableProvider(r, g, p)
      PROVE  InOrder'
  <2>1. Unused(r) /\ audit' = audit
    BY <1>5 DEF EnableProvider
  <2>2. CASE config[g][p].configured
    <3>. DEFINE row == {[action |-> "provider.enabled", before |-> "disabled",
                         after |-> "enabled"]}
    <3>1. UpdateProvider(g, p, None, {TRUE}) /\ Enter(r, g, p, "auditing", row)
      BY <1>5, <2>2 DEF EnableProvider, ToAudit
    <3>2. row \in SUBSET AuditRow /\ row # {}
      BY RowTypes
    <3>3. None \in KeyInput /\ {TRUE} \in WantInput
      BY DEF KeyInput, WantInput
    <3>. HIDE DEF row
    <3>. QED
      BY <1>3, <2>1, <3>1, <3>2, <3>3, UpdateKeepsOrder
  <2>3. CASE ~config[g][p].configured
    <3>1. Enter(r, g, p, "refused", {}) /\ UNCHANGED <<config, secret, adapter>>
      BY <1>5, <2>3 DEF EnableProvider
    <3>2. AdaptersAreCurrent'
      BY <3>1 DEF InOrder, AdaptersAreCurrent
    <3>3. /\ config' \in [Gateway -> [Provider -> Config]]
          /\ secret' \in [Gateway -> [Provider -> Secret \cup {NoSecret}]]
          /\ adapter' \in [Gateway -> [Provider -> Secret \cup {NoSecret, Ambient}]]
      BY <3>1 DEF InOrder, RegistryTypeOK
    <3>. QED
      BY <1>3, <2>1, <3>1, <3>2, <3>3
  <2>. QED
    BY <2>2, <2>3
<1>6. ASSUME NEW r \in Request, NEW g \in Gateway, NEW p \in Provider,
             DisableProvider(r, g, p)
      PROVE  InOrder'
  <2>. DEFINE row == {[action |-> "provider.disabled", before |-> "enabled",
                       after |-> "disabled"]}
  <2>1. /\ Unused(r) /\ audit' = audit
        /\ UpdateProvider(g, p, None, {FALSE}) /\ Enter(r, g, p, "auditing", row)
    BY <1>6 DEF DisableProvider, ToAudit
  <2>2. row \in SUBSET AuditRow /\ row # {}
    BY RowTypes
  <2>3. None \in KeyInput /\ {FALSE} \in WantInput
    BY DEF KeyInput, WantInput
  <2>. HIDE DEF row
  <2>. QED
    BY <1>3, <2>1, <2>2, <2>3, UpdateKeepsOrder
<1>7. ASSUME NEW r \in Request, NEW g \in Gateway, NEW p \in Provider,
             TestConnection(r, g, p)
      PROVE  InOrder'
  <2>1. PICK found \in TestResult(g, p) \cup {"unhealthy"} :
          /\ config' = [config EXCEPT ![g][p].status = found]
          /\ ToAudit(r, g, p, "provider.connection_tested", "untested", found)
    BY <1>7 DEF TestConnection
  <2>. DEFINE row == {[action |-> "provider.connection_tested", before |-> "untested",
                       after |-> found]}
  <2>2. Unused(r) /\ UNCHANGED <<secret, adapter, audit>>
    BY <1>7 DEF TestConnection
  <2>3. found \in Status
    BY DEF TestResult, Status
  <2>4. row \in SUBSET AuditRow /\ row # {} /\ Enter(r, g, p, "auditing", row)
    BY <2>1, <2>3, RowTypes DEF ToAudit
  <2>5. config \in [Gateway -> [Provider -> Config]]
    BY DEF InOrder, RegistryTypeOK
  <2>6. /\ config' \in [Gateway -> [Provider -> Config]]
        /\ \A h \in Gateway, q \in Provider : config'[h][q].enabled = config[h][q].enabled
    <3>. DEFINE cfg == [config[g][p] EXCEPT !.status = found]
    <3>1. config[g][p] \in Config
      BY <2>5
    <3>2. cfg \in Config /\ cfg.enabled = config[g][p].enabled
      BY <2>3, <3>1 DEF Config
    <3>3. config' = [config EXCEPT ![g][p] = cfg]
      BY <2>1
    <3>. HIDE DEF cfg
    <3>. QED
      BY <2>5, <3>2, <3>3
  <2>7. AdaptersAreCurrent'
    BY <2>2, <2>6 DEF InOrder, AdaptersAreCurrent
  <2>. HIDE DEF row
  <2>. QED
    BY <1>3, <2>2, <2>4, <2>6, <2>7 DEF InOrder, RegistryTypeOK
<1>8. ASSUME NEW r \in Request, RecordAudit(r) PROVE InOrder'
  <2>1. /\ r \in DOMAIN request /\ request[r].row # {} /\ request[r] \in Frame
        /\ request[r].row \subseteq AuditRow
    BY <1>2, <1>8 DEF RecordAudit, InOrder, RecordsAreReady, Frame
  <2>2. (CHOOSE row \in request[r].row : TRUE) \in AuditRow
    BY <2>1
  <2>3. DOMAIN audit' = DOMAIN audit \cup {r} /\ audit' \in [DOMAIN audit' -> AuditRow]
    BY <1>2, <1>8, <2>2 DEF RecordAudit
  <2>4. request' = [request EXCEPT ![r].pc = "done"]
    BY <1>8 DEF RecordAudit
  <2>5. /\ DOMAIN request' = DOMAIN request /\ request' \in [DOMAIN request' -> Frame]
    BY <1>2, <2>1, <2>4 DEF Frame
  <2>6. RecordsAreReady'
    BY <1>2, <2>1, <2>4 DEF InOrder, RecordsAreReady, Frame
  <2>7. UNCHANGED <<config, secret, adapter>>
    BY <1>8 DEF RecordAudit
  <2>8. AdaptersAreCurrent'
    BY <2>7 DEF InOrder, AdaptersAreCurrent
  <2>. QED
    BY <1>2, <2>1, <2>3, <2>5, <2>6, <2>7, <2>8 DEF InOrder, RegistryTypeOK
<1>9. ASSUME NEW g \in Gateway, Restart(g) PROVE InOrder'
  <2>1. /\ config' = [config EXCEPT ![g] = BootConfig]
        /\ secret' = [secret EXCEPT ![g] = BootSecrets]
        /\ adapter' = [adapter EXCEPT ![g] = BootAdapters]
        /\ audit' = audit
    BY <1>9 DEF Restart
  <2>2. /\ config' \in [Gateway -> [Provider -> Config]]
        /\ secret' \in [Gateway -> [Provider -> Secret \cup {NoSecret}]]
        /\ adapter' \in [Gateway -> [Provider -> Secret \cup {NoSecret, Ambient}]]
    BY <2>1, BootTypes DEF InOrder, RegistryTypeOK
  <2>3. AdaptersAreCurrent'
    <3>1. ASSUME NEW h \in Gateway, NEW p \in Provider, h # g
          PROVE  /\ config'[h][p] = config[h][p] /\ secret'[h][p] = secret[h][p]
                 /\ adapter'[h][p] = adapter[h][p]
      BY <2>1, <3>1 DEF InOrder, RegistryTypeOK
    <3>2. config'[g] = BootConfig /\ secret'[g] = BootSecrets /\ adapter'[g] = BootAdapters
      BY <2>1 DEF InOrder, RegistryTypeOK
    <3>3. ASSUME NEW h \in Gateway, NEW p \in Provider
          PROVE  \/ adapter'[h][p] = (IF config'[h][p].enabled THEN Built(p, secret'[h][p])
                                      ELSE NoSecret)
                 \/ config'[h][p].enabled /\ p \in Keyed /\ secret'[h][p] = NoSecret
      <4>1. CASE h = g
        BY <3>2, <4>1, BootIsCurrent
      <4>2. CASE h # g
        BY <3>1, <4>2 DEF InOrder, AdaptersAreCurrent
      <4>. QED
        BY <4>1, <4>2
    <3>. QED
      BY <3>3 DEF AdaptersAreCurrent
  <2>4. request' = [r \in DOMAIN request |->
                      IF request[r].at = g /\ request[r].pc = "auditing"
                      THEN [request[r] EXCEPT !.pc = "lost"] ELSE request[r]]
    BY <1>9 DEF Restart
  <2>5. DOMAIN request' = DOMAIN request /\ request' \in [DOMAIN request' -> Frame]
    BY <1>2, <2>4 DEF Frame
  <2>6. RecordsAreReady'
    <3>1. ASSUME NEW r \in DOMAIN request, request'[r].pc = "auditing"
          PROVE  request'[r].row # {}
      <4>1. request[r] \in Frame
        BY <1>2
      <4>2. request'[r] = request[r]
        BY <2>4, <3>1, <4>1 DEF Frame
      <4>. QED
        BY <3>1, <4>2 DEF InOrder, RecordsAreReady
    <3>. QED
      BY <2>5, <3>1 DEF RecordsAreReady
  <2>. QED
    BY <1>2, <2>1, <2>2, <2>3, <2>5, <2>6 DEF InOrder, RegistryTypeOK
<1>. QED
  BY <1>1, <1>4, <1>5, <1>6, <1>7, <1>8, <1>9 DEF RegistryNext

\* A gateway that has just started is in order.
LEMMA InitInOrder == RegistryInit => InOrder
<1>. SUFFICES ASSUME RegistryInit PROVE InOrder
  OBVIOUS
<1>1. \A g \in Gateway : /\ config[g] = BootConfig /\ secret[g] = BootSecrets
                         /\ adapter[g] = BootAdapters
  BY DEF RegistryInit
<1>2. AdaptersAreCurrent
  BY <1>1, BootIsCurrent DEF AdaptersAreCurrent
<1>3. /\ config \in [Gateway -> [Provider -> Config]]
      /\ secret \in [Gateway -> [Provider -> Secret \cup {NoSecret}]]
      /\ adapter \in [Gateway -> [Provider -> Secret \cup {NoSecret, Ambient}]]
  BY BootTypes DEF RegistryInit
<1>4. DOMAIN request = {} /\ DOMAIN audit = {}
      /\ request \in [DOMAIN request -> Frame] /\ audit \in [DOMAIN audit -> AuditRow]
  BY DEF RegistryInit
<1>. QED
  BY <1>2, <1>3, <1>4 DEF InOrder, RegistryTypeOK, RecordsAreReady

\* In every reachable state adapters agree with configuration and keys.
THEOREM RegistryInOrder == RegistrySpec => []InOrder
BY InitInOrder, NextInOrder, PTL DEF RegistrySpec

\* A gateway serves only what is enabled there, never with a replaced key.
THEOREM ServesEnabled == RegistrySpec => []ServesWhatIsEnabled
<1>1. InOrder => ServesWhatIsEnabled
  BY DEF InOrder, AdaptersAreCurrent, ServesWhatIsEnabled, Serves, Built
<1>. QED
  BY <1>1, RegistryInOrder, PTL

\* What is enabled with its key at hand is served.
THEOREM EnabledIsServed == RegistrySpec => []EnabledWithKeyIsServed
<1>1. InOrder => EnabledWithKeyIsServed
  BY ProvidersAssumption DEF InOrder, AdaptersAreCurrent, EnabledWithKeyIsServed, Serves,
         Built
<1>. QED
  BY <1>1, RegistryInOrder, PTL
=============================================================================
