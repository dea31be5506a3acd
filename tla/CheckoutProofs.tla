--------------------------- MODULE CheckoutProofs ---------------------------
(***************************************************************************)
(* Proofs about Checkout, for any customers, carts, variants and workers:  *)
(* no stock is ever negative, and a variant's stock only changes by a      *)
(* posting from the stock before it, or by a write that is counted blind.  *)
(***************************************************************************)
EXTENDS Checkout, SumLemmas, FiniteSetTheorems, TLAPS

Kinds == {"idle", "checkout", "fetch", "cancel", "adjust", "edit"}

Request == [kind : Kinds, customer : Customers \cup {None}, lines : Seq(Variants),
            delta : Int, held : Nat, read : [Variants -> Nat], slot : Nat,
            coupon : BOOLEAN, late : BOOLEAN]

\* What a request is at each stage.
ReqOK ==
    /\ req \in [Workers -> Request]
    /\ \A p \in Workers :
          /\ req[p].held <= Len(req[p].lines)
          /\ req[p].kind \in {"fetch", "cancel"} => req[p].delta = 1
          /\ req[p].kind \in {"checkout", "fetch", "cancel"} => req[p].customer \in Customers
          /\ req[p].kind = "fetch" => req[p].held < Len(req[p].lines)
          /\ req[p].kind = "edit" => Len(req[p].lines) = 1

\* The rows a block has changed are its own, the change leaves no negative
\* stock, and a stock read under the lock is still the row's.
HeldOK ==
    \A p \in Workers : \A i \in 1..req[p].held :
        LET v == req[p].lines[i] IN
        /\ rowLock[v] = p
        /\ req[p].read[v] + req[p].delta >= 0
        /\ req[p].kind \in {"checkout", "adjust"} => req[p].read[v] = stock[v]

Cancelling(c) == {q \in Workers : req[q].customer = c /\ req[q].kind # "checkout"}

\* No more orders of a customer are being cancelled than are live.
LiveOK == \A c \in Customers : IsFiniteSet(Cancelling(c)) /\ Cardinality(Cancelling(c)) <= live[c]

IInv == TypeOK /\ ReqOK /\ HeldOK /\ LiveOK

Stock(v) == INSTANCE Ledger WITH Deltas <- Int, balance <- stock[v], entries <- moves[v]

\* What a step may do to a variant's row.
PostsOrIsBlind(v) == blind'[v] # blind[v] \/ [Stock(v)!Next]_<<stock[v], moves[v]>>

-----------------------------------------------------------------------------
\* Sets that gain or lose an element.
LEMMA OneMore ==
    ASSUME NEW S, NEW x, NEW n \in Nat, IsFiniteSet(S), Cardinality(S) < n
    PROVE  IsFiniteSet(S \cup {x}) /\ Cardinality(S \cup {x}) <= n
<1>1. Cardinality(S) \in Nat
  BY FS_CardinalityType
<1> QED
  BY <1>1, FS_AddElement

LEMMA OneLess ==
    ASSUME NEW S, NEW x, NEW n \in Nat, IsFiniteSet(S), Cardinality(S) <= n
    PROVE  /\ IsFiniteSet(S \ {x}) /\ Cardinality(S \ {x}) <= n
           /\ x \in S => n > 0 /\ Cardinality(S \ {x}) <= n - 1
<1>1. Cardinality(S) \in Nat /\ Cardinality(S \ {x}) \in Nat
  BY FS_CardinalityType, FS_RemoveElement
<1> QED
  BY <1>1, FS_RemoveElement

LEMMA RestOK == Rest \in Request
  BY DEF Rest, Request, Kinds

LEMMA RestFields == Rest.kind = "idle" /\ Rest.customer = None /\ Rest.held = 0 /\ Rest.lines = <<>>
  BY DEF Rest

LEMMA InitIInv == Init => IInv
<1> SUFFICES ASSUME Init PROVE IInv
  OBVIOUS
<1>1. TypeOK
  <2>1. moves \in [Variants -> Seq([delta : Int, after : Nat])]
    BY DEF Init
  <2>2. Opening \in Nat
    BY CheckoutAssumption
  <2> QED
    BY <2>1, <2>2 DEF TypeOK, Init
<1>2. ReqOK
  BY RestOK DEF ReqOK, Rest, Init
<1>3. HeldOK
  BY DEF HeldOK, Rest, Init
<1>4. LiveOK
  <2>1. ASSUME NEW c \in Customers PROVE Cancelling(c) = {}
    BY CheckoutAssumption DEF Cancelling, Rest, Init
  <2>2. \A c \in Customers : live[c] = 0
    BY DEF Init
  <2> QED
    BY <2>1, <2>2, FS_EmptySet DEF LiveOK
<1> QED
  BY <1>1, <1>2, <1>3, <1>4 DEF IInv

\* A request that begins holds no row; a cancellation that begins is of a live order.
LEMMA BeginOK ==
    ASSUME IInv, NEW p \in Workers, NEW r \in Request, Begin(p, r),
           r.held = 0, r.kind # "idle",
           r.kind \in {"fetch", "cancel"} => r.delta = 1 /\ r.lines # <<>>,
           r.kind \in {"checkout", "fetch", "cancel"} => r.customer \in Customers,
           r.kind \notin {"checkout", "fetch", "cancel"} => r.customer = None,
           r.kind \in {"fetch", "cancel"} =>
               live[r.customer] > Cardinality(Cancelling(r.customer)),
           r.kind = "edit" => Len(r.lines) = 1,
           UNCHANGED <<stock, live, rowLock>>
    PROVE  ReqOK' /\ HeldOK' /\ LiveOK'
<1>1. req' = [req EXCEPT ![p] = r] /\ req[p].kind = "idle" /\ req \in [Workers -> Request]
  BY DEF Begin, Idle, IInv, ReqOK
<1>2. r.lines \in Seq(Variants)
  BY DEF Request
<1>3. ReqOK'
  BY <1>1, <1>2 DEF IInv, ReqOK
<1>4. HeldOK'
  BY <1>1 DEF IInv, HeldOK
<1>5. LiveOK'
  <2> SUFFICES ASSUME NEW c \in Customers
               PROVE  IsFiniteSet(Cancelling(c)') /\ Cardinality(Cancelling(c)') <= live[c]
    BY DEF LiveOK
  <2>1. IsFiniteSet(Cancelling(c)) /\ Cardinality(Cancelling(c)) <= live[c] /\ live[c] \in Nat
    BY DEF IInv, LiveOK, TypeOK
  <2>2. CASE r.customer = c /\ r.kind # "checkout"
    <3>1. Cancelling(c)' = Cancelling(c) \cup {p}
      BY <1>1, <2>2 DEF Cancelling
    <3>2. r.kind \in {"fetch", "cancel"}
      BY <2>2, CheckoutAssumption DEF Request, Kinds
    <3>3. Cardinality(Cancelling(c)) < live[c]
      BY <2>2, <3>2, <2>1, FS_CardinalityType
    <3> QED
      BY <2>1, <3>1, <3>3, OneMore
  <2>3. CASE ~(r.customer = c /\ r.kind # "checkout")
    <3>1. Cancelling(c)' = Cancelling(c) \ {p}
      BY <1>1, <2>3 DEF Cancelling
    <3> QED
      BY <2>1, <3>1, OneLess
  <2> QED
    BY <2>2, <2>3
<1> QED
  BY <1>3, <1>4, <1>5

-----------------------------------------------------------------------------
(* Handlers begin. *)

Keeps == UNCHANGED <<stock, moves, blind>>

LEMMA FillOK == ASSUME IInv, NEW c \in Customers, FillCart(c) PROVE IInv' /\ Keeps
<1>1. UNCHANGED <<stock, live, req, rowLock>>
  BY DEF FillCart
<1>2. TypeOK'
  BY DEF FillCart, IInv, TypeOK
<1>3. ReqOK' /\ HeldOK' /\ LiveOK'
  BY <1>1 DEF IInv, ReqOK, HeldOK, LiveOK, Cancelling
<1> QED
  BY <1>2, <1>3 DEF IInv, FillCart, Keeps

\* What every start leaves alone, and what it must say of its request.
LEMMA StartType ==
    ASSUME IInv, NEW p \in Workers, NEW r \in Request, Begin(p, r),
           UNCHANGED <<stock, moves, shopVars, rowLock, blind>>,
           edits' \in Nat, overlapped' \in BOOLEAN
    PROVE  TypeOK'
<1>1. DOMAIN req' = Workers
  BY DEF Begin, IInv, TypeOK
<1> QED
  BY <1>1 DEF IInv, TypeOK, shopVars

\* The requests of a checkout and of a cancellation.
LEMMA CheckoutForm ==
    ASSUME NEW k \in Kinds, NEW c \in Customers, NEW lines \in Seq(Variants), NEW d \in Int,
           NEW n \in Nat, NEW b \in BOOLEAN
    PROVE  [Rest EXCEPT !.kind = k, !.customer = c, !.lines = lines, !.delta = d, !.slot = n,
                        !.coupon = b] \in Request
  BY RestOK DEF Request

LEMMA CancelForm ==
    ASSUME NEW k \in Kinds, NEW c \in Customers, NEW lines \in Seq(Variants), NEW d \in Int,
           NEW read \in [Variants -> Nat], NEW n \in Nat, NEW b \in BOOLEAN
    PROVE  [Rest EXCEPT !.kind = k, !.customer = c, !.lines = lines, !.delta = d, !.read = read,
                        !.slot = n, !.late = b] \in Request
  BY RestOK DEF Request

LEMMA CheckoutOK ==
    ASSUME IInv, NEW p \in Workers, NEW c \in Customers, Checkout(p, c) PROVE IInv' /\ Keeps
<1> DEFINE r == [Rest EXCEPT !.kind = "checkout", !.customer = c, !.lines = LinesOf[c],
                             !.delta = -1, !.slot = booked, !.coupon = Eligible(c)]
<1>1. LinesOf[c] \in Seq(Variants)
  BY CheckoutAssumption
<1>3. booked \in Nat /\ Eligible(c) \in BOOLEAN
  BY DEF IInv, TypeOK, Eligible
<1> HIDE DEF Eligible
<1>4. r \in Request
  <2>1. "checkout" \in Kinds /\ -1 \in Int
    BY DEF Kinds
  <2> QED
    BY <1>1, <1>3, <2>1, CheckoutForm, Zenon
<1>5. Begin(p, r) /\ UNCHANGED <<stock, moves, shopVars, rowLock, edits, blind>>
  BY DEF Checkout
<1>6. edits' \in Nat /\ overlapped' \in BOOLEAN
  BY <1>5 DEF IInv, TypeOK, Checkout, NoteOverlap
<1>7. TypeOK'
  BY <1>4, <1>5, <1>6, StartType
<1>8. UNCHANGED <<stock, live, rowLock>>
  BY <1>5 DEF shopVars
<1>9. r.held = 0 /\ r.kind = "checkout" /\ r.customer = c
  BY RestOK, RestFields DEF Request
<1> HIDE DEF r
<1>10. ReqOK' /\ HeldOK' /\ LiveOK'
  BY <1>4, <1>5, <1>8, <1>9, BeginOK
<1> QED
  BY <1>5, <1>7, <1>8, <1>10 DEF IInv, Keeps

LEMMA CancelOK ==
    ASSUME IInv, NEW p \in Workers, NEW c \in Customers, NEW path \in CancelPaths, Cancel(p, c, path)
    PROVE  IInv' /\ Keeps
<1> DEFINE kind == IF path = "ops" THEN "fetch" ELSE "cancel"
           r == [Rest EXCEPT !.kind = kind, !.customer = c, !.lines = LinesOf[c],
                             !.delta = 1, !.read = stock, !.slot = booked,
                             !.late = path = "ops"]
<1>1. LinesOf[c] \in Seq(Variants) /\ LinesOf[c] # <<>>
  BY CheckoutAssumption
<1>3. booked \in Nat /\ stock \in [Variants -> Nat] /\ kind \in {"fetch", "cancel"}
  BY DEF IInv, TypeOK
<1> HIDE DEF kind
<1>4. r \in Request
  <2>1. kind \in Kinds /\ 1 \in Int /\ (path = "ops") \in BOOLEAN
    BY <1>3 DEF Kinds
  <2> QED
    BY <1>1, <1>3, <2>1, CancelForm, Zenon
<1>5. Begin(p, r) /\ UNCHANGED <<stock, moves, shopVars, rowLock, edits, blind>>
  BY DEF Cancel, kind
<1>6. edits' \in Nat /\ overlapped' \in BOOLEAN
  BY <1>5 DEF IInv, TypeOK, Cancel, NoteOverlap
<1>7. TypeOK'
  BY <1>4, <1>5, <1>6, StartType
<1>8. UNCHANGED <<stock, live, rowLock>>
  BY <1>5 DEF shopVars
<1>9. r.held = 0 /\ r.kind \in {"fetch", "cancel"} /\ r.customer = c /\ r.delta = 1 /\ r.lines # <<>>
  BY <1>1, <1>3, RestOK, RestFields DEF Request
<1>a. live[c] > Cardinality(Cancelling(c))
  <2>1. {q \in Serving(c) : req[q].kind # "checkout"} = Cancelling(c)
    BY DEF Serving, Cancelling
  <2> QED
    BY <2>1 DEF Cancel
<1> HIDE DEF r
<1>10. ReqOK' /\ HeldOK' /\ LiveOK'
  BY <1>4, <1>5, <1>8, <1>9, <1>a, BeginOK
<1> QED
  BY <1>5, <1>7, <1>8, <1>10 DEF IInv, Keeps

\* The warehouse, the import and the editors.
LEMMA HouseOK ==
    ASSUME IInv, NEW p \in Workers, NEW r \in Request, Begin(p, r),
           r.held = 0, r.customer = None,
           r.kind = "adjust" \/ (r.kind = "edit" /\ Len(r.lines) = 1),
           UNCHANGED <<stock, moves, shopVars, rowLock, blind, overlapped>>, edits' \in Nat
    PROVE  IInv' /\ Keeps
<1>1. TypeOK'
  BY StartType DEF IInv, TypeOK
<1>2. UNCHANGED <<stock, live, rowLock>>
  BY DEF shopVars
<1>3. ReqOK' /\ HeldOK' /\ LiveOK'
  BY <1>2, BeginOK
<1> QED
  BY <1>1, <1>2, <1>3 DEF IInv, Keeps

LEMMA OneLine == ASSUME NEW v \in Variants PROVE <<v>> \in Seq(Variants) /\ Len(<<v>>) = 1
  OBVIOUS

LEMMA AdjustOK ==
    ASSUME IInv, NEW p \in Workers, NEW v \in Variants, NEW d \in Int,
           Begin(p, [Rest EXCEPT !.kind = "adjust", !.lines = <<v>>, !.delta = d]),
           UNCHANGED <<stock, moves, shopVars, rowLock, edits, blind, overlapped>>
    PROVE  IInv' /\ Keeps
<1> DEFINE r == [Rest EXCEPT !.kind = "adjust", !.lines = <<v>>, !.delta = d]
<1>1. r.held = 0 /\ r.customer = None /\ r.kind = "adjust"
  BY RestOK, RestFields DEF Request
<1>2. r \in Request
  BY RestOK, OneLine DEF Request, Kinds
<1>3. edits' \in Nat
  BY DEF IInv, TypeOK
<1> HIDE DEF r
<1> QED
  BY <1>1, <1>2, <1>3, HouseOK DEF r

LEMMA EditOK ==
    ASSUME IInv, NEW p \in Workers, NEW v \in Variants, NEW units \in Nat, Edit(p, v, units)
    PROVE  IInv' /\ Keeps
<1> DEFINE r == [Rest EXCEPT !.kind = "edit", !.lines = <<v>>, !.read[v] = units]
<1>2. r \in Request
  BY RestOK, OneLine DEF Request, Kinds
<1>3. edits' \in Nat /\ Begin(p, r)
      /\ UNCHANGED <<stock, moves, shopVars, rowLock, blind, overlapped>>
  BY DEF IInv, TypeOK, Edit
<1>4. r.held = 0 /\ r.customer = None /\ r.kind = "edit" /\ Len(r.lines) = 1
  BY RestOK, RestFields, OneLine DEF Request
<1> HIDE DEF r
<1> QED
  BY <1>2, <1>3, <1>4, HouseOK

LEMMA StartOK == ASSUME IInv, NEW p \in Workers, Start(p) PROVE IInv' /\ Keeps
<1> USE CheckoutAssumption
<1>1. ASSUME NEW c \in Customers, Checkout(p, c) PROVE IInv' /\ Keeps
  BY <1>1, CheckoutOK
<1>2. ASSUME NEW c \in Customers, NEW path \in CancelPaths, Cancel(p, c, path)
      PROVE  IInv' /\ Keeps
  BY <1>2, CancelOK
<1>3. ASSUME NEW v \in Variants, NEW d \in Deltas, Adjust(p, v, d) PROVE IInv' /\ Keeps
  BY <1>3, AdjustOK DEF Adjust
<1>4. ASSUME NEW v \in Variants, NEW t \in Targets, SetStock(p, v, t) PROVE IInv' /\ Keeps
  <2>1. t - stock[v] \in Int
    BY DEF IInv, TypeOK
  <2> QED
    BY <1>4, <2>1, AdjustOK DEF SetStock
<1>5. ASSUME NEW v \in Variants, NEW units \in Targets \cup {stock[v]}, Edit(p, v, units)
      PROVE  IInv' /\ Keeps
  <2>1. units \in Nat
    BY DEF IInv, TypeOK
  <2> QED
    BY <1>5, <2>1, EditOK
<1> QED
  BY <1>1, <1>2, <1>3, <1>4, <1>5 DEF Start

-----------------------------------------------------------------------------
(* Handlers go on. *)

LEMMA ReqFacts ==
    ASSUME IInv, NEW p \in Workers
    PROVE  /\ req[p] \in Request /\ req[p].lines \in Seq(Variants) /\ req[p].delta \in Int
           /\ req[p].held \in Nat /\ req[p].held <= Len(req[p].lines)
           /\ req[p].read \in [Variants -> Nat] /\ req[p].slot \in Nat
           /\ \A i \in 1..Len(req[p].lines) : req[p].lines[i] \in Variants
  BY DEF IInv, ReqOK, Request

LEMMA NextInCart ==
    ASSUME IInv, NEW p \in Workers, req[p].held < Len(req[p].lines)
    PROVE  req[p].lines[req[p].held + 1] \in Variants
<1>1. Len(req[p].lines) \in Nat /\ req[p].held \in Nat
  BY ReqFacts
<1>2. req[p].held + 1 \in 1..Len(req[p].lines)
  BY <1>1
<1> QED
  BY <1>2, ReqFacts

LEMMA FetchOK == ASSUME IInv, NEW p \in Workers, Fetch(p) PROVE IInv' /\ Keeps
<1> DEFINE r == req[p]
           v == r.lines[r.held + 1]
           new == [r EXCEPT !.kind = "cancel", !.read[v] = stock[v]]
<1>1. r \in Request /\ r.kind = "fetch" /\ r.held < Len(r.lines) /\ r.delta = 1
      /\ r.customer \in Customers /\ r.held \in Nat
  BY ReqFacts DEF Fetch, IInv, ReqOK
<1>2. v \in Variants /\ stock[v] \in Nat
  <2>1. v \in Variants
    BY <1>1, NextInCart
  <2> QED
    BY <2>1 DEF IInv, TypeOK
<1>3. /\ req' = [req EXCEPT ![p] = new]
      /\ UNCHANGED <<stock, moves, shopVars, rowLock, edits, blind, overlapped>>
  BY DEF Fetch, NextLine
<1>4. /\ new \in Request /\ new.kind = "cancel" /\ new.held = r.held /\ new.lines = r.lines
      /\ new.delta = r.delta /\ new.customer = r.customer
      /\ new.read = [r.read EXCEPT ![v] = stock[v]]
  BY <1>1, <1>2 DEF Request, Kinds
<1> HIDE DEF new
<1>5. req \in [Workers -> Request] /\ req'[p] = new /\ \A q \in Workers \ {p} : req'[q] = req[q]
  BY <1>3 DEF IInv, ReqOK
<1>6. TypeOK'
  BY <1>3 DEF IInv, TypeOK, shopVars
<1>7. ReqOK'
  BY <1>1, <1>3, <1>4, <1>5 DEF IInv, ReqOK
<1>8. HeldOK'
  <2> SUFFICES ASSUME NEW q \in Workers, NEW i \in 1..req'[q].held
               PROVE  /\ rowLock[req'[q].lines[i]] = q
                      /\ req'[q].read[req'[q].lines[i]] + req'[q].delta >= 0
                      /\ req'[q].kind \in {"checkout", "adjust"} =>
                            req'[q].read[req'[q].lines[i]] = stock[req'[q].lines[i]]
    BY <1>3 DEF HeldOK
  <2>1. CASE q # p
    BY <1>5, <2>1 DEF IInv, HeldOK
  <2>2. CASE q = p
    <3> DEFINE w == r.lines[i]
    <3>1. i \in 1..r.held /\ rowLock[w] = p
      BY <1>4, <1>5, <2>2 DEF IInv, HeldOK
    <3>2. w \in Variants /\ new.read[w] \in Nat
      <4>1. i \in 1..Len(r.lines)
        BY <3>1, ReqFacts
      <4>2. w \in Variants
        BY <4>1, ReqFacts
      <4>3. new.read \in [Variants -> Nat]
        BY <1>4 DEF Request
      <4> QED
        BY <4>2, <4>3
    <3>3. new.read[w] + new.delta >= 0
      BY <1>1, <1>4, <3>2
    <3> QED
      BY <1>4, <1>5, <2>2, <3>1, <3>3
  <2> QED
    BY <2>1, <2>2
<1>9. LiveOK'
  <2>1. ASSUME NEW c \in Customers PROVE Cancelling(c)' = Cancelling(c)
    BY <1>1, <1>4, <1>5 DEF Cancelling
  <2> QED
    BY <2>1, <1>3 DEF IInv, LiveOK, shopVars
<1> QED
  BY <1>3, <1>6, <1>7, <1>8, <1>9 DEF IInv, Keeps, shopVars

\* What adjust_stock is about to write is never negative, and under the lock
\* it starts from the row's value.
LEMMA TakeRowOK == ASSUME IInv, NEW p \in Workers, TakeRow(p) PROVE IInv' /\ Keeps
<1> DEFINE r == req[p]
           v == r.lines[r.held + 1]
           n == StockRead(p)
           more == r.held + 1 < Len(r.lines)
           kind == IF r.kind = "cancel" /\ r.late /\ more THEN "fetch" ELSE r.kind
           new == [r EXCEPT !.held = @ + 1, !.read[v] = n, !.kind = kind]
<1>1. r \in Request /\ r.held < Len(r.lines) /\ r.held \in Nat
      /\ r.kind \in {"checkout", "cancel", "adjust"}
  BY ReqFacts DEF TakeRow
<1>2. v \in Variants /\ stock[v] \in Nat /\ r.read[v] \in Nat
  <2>1. v \in Variants /\ r.read \in [Variants -> Nat]
    BY <1>1, NextInCart, ReqFacts
  <2> QED
    BY <2>1 DEF IInv, TypeOK
<1>3. n \in Nat /\ n + r.delta >= 0 /\ (r.kind \in {"checkout", "adjust"} => n = stock[v])
  BY <1>2 DEF TakeRow, StockRead, Locked, InStock, NextLine
<1>4. /\ rowLock[v] = None /\ rowLock' = [rowLock EXCEPT ![v] = p]
      /\ req' = [req EXCEPT ![p] = new]
      /\ UNCHANGED <<stock, moves, shopVars, edits, blind, overlapped>>
  BY DEF TakeRow, NextLine, RowFree
<1>5. kind \in Kinds /\ (kind = r.kind \/ (r.kind = "cancel" /\ kind = "fetch" /\ more))
  BY <1>1 DEF Kinds
<1> HIDE DEF n, kind
<1>6. /\ new \in Request /\ new.kind = kind /\ new.held = r.held + 1 /\ new.lines = r.lines
      /\ new.delta = r.delta /\ new.customer = r.customer /\ new.read = [r.read EXCEPT ![v] = n]
  <2>0. r \in Request /\ v \in Variants /\ n \in Nat /\ kind \in Kinds
    BY <1>1, <1>2, <1>3, <1>5
  <2> HIDE DEF r, v
  <2>1. /\ new.kind = kind /\ new.held = r.held + 1 /\ new.lines = r.lines
        /\ new.delta = r.delta /\ new.customer = r.customer
    BY <2>0 DEF Request
  <2>2. new.read = [r.read EXCEPT ![v] = n]
    BY <2>0 DEF Request
  <2>3. [r.read EXCEPT ![v] = n] \in [Variants -> Nat] /\ r.held + 1 \in Nat
    BY <2>0 DEF Request
  <2>4. new \in Request
    BY <2>0, <2>3 DEF Request
  <2> QED
    BY <2>1, <2>2, <2>4
<1> HIDE DEF new
<1>7. req \in [Workers -> Request] /\ req'[p] = new /\ \A q \in Workers \ {p} : req'[q] = req[q]
  BY <1>4 DEF IInv, ReqOK
<1>8. TypeOK'
  BY <1>4 DEF IInv, TypeOK, shopVars
<1>9. ReqOK'
  BY <1>1, <1>4, <1>5, <1>6, <1>7 DEF IInv, ReqOK
<1>10. HeldOK'
  <2> SUFFICES ASSUME NEW q \in Workers, NEW i \in 1..req'[q].held
               PROVE  /\ rowLock'[req'[q].lines[i]] = q
                      /\ req'[q].read[req'[q].lines[i]] + req'[q].delta >= 0
                      /\ req'[q].kind \in {"checkout", "adjust"} =>
                            req'[q].read[req'[q].lines[i]] = stock[req'[q].lines[i]]
    BY <1>4 DEF HeldOK
  <2>0. rowLock \in [Variants -> Workers \cup {None}] /\ None \notin Workers
    BY CheckoutAssumption DEF IInv, TypeOK
  <2>1. CASE q # p
    <3>1. req'[q] = req[q] /\ i \in 1..req[q].held
      BY <1>7, <2>1
    <3>2. rowLock[req[q].lines[i]] = q /\ req[q].lines[i] # v
      BY <1>4, <2>0, <3>1 DEF IInv, HeldOK
    <3> QED
      BY <1>4, <3>1, <3>2 DEF IInv, HeldOK
  <2>2. CASE q = p /\ i = r.held + 1
    BY <1>1, <1>2, <1>3, <1>4, <1>5, <1>6, <1>7, <2>0, <2>2, ReqFacts
  <2>3. CASE q = p /\ i # r.held + 1
    <3> DEFINE w == r.lines[i]
    <3>1. i \in 1..r.held
      BY <1>1, <1>6, <1>7, <2>3
    <3>2. /\ rowLock[w] = p /\ r.read[w] + r.delta >= 0
          /\ r.kind \in {"checkout", "adjust"} => r.read[w] = stock[w]
      BY <3>1 DEF IInv, HeldOK
    <3>3. w # v /\ w \in Variants
      BY <1>1, <1>4, <2>0, <3>1, <3>2, ReqFacts
    <3>4. new.read[w] = r.read[w] /\ rowLock'[w] = p
      BY <1>4, <1>6, <3>2, <3>3, <2>0, ReqFacts
    <3> QED
      BY <1>5, <1>6, <1>7, <2>3, <3>2, <3>4
  <2> QED
    BY <2>1, <2>2, <2>3
<1>11. LiveOK'
  <2>1. ASSUME NEW c \in Customers PROVE Cancelling(c)' = Cancelling(c)
    BY <1>1, <1>5, <1>6, <1>7 DEF Cancelling
  <2> QED
    BY <2>1, <1>4 DEF IInv, LiveOK, shopVars
<1> QED
  BY <1>4, <1>8, <1>9, <1>10, <1>11 DEF IInv, Keeps, shopVars

-----------------------------------------------------------------------------
(* Blocks end. *)

\* A handler that ends, however it does, holds nothing any more.
LEMMA EndOK ==
    ASSUME IInv, NEW p \in Workers, Return(p),
           \A v \in Variants, q \in Workers \ {p} : rowLock[v] = q => rowLock'[v] = q,
           \A v \in Variants, q \in Workers \ {p} : rowLock[v] = q => stock'[v] = stock[v]
    PROVE  /\ ReqOK' /\ HeldOK'
           /\ \A c \in Customers : Cancelling(c)' = Cancelling(c) \ {p}
<1>1. /\ req' = [req EXCEPT ![p] = Rest] /\ req \in [Workers -> Request]
      /\ req'[p] = Rest /\ \A q \in Workers \ {p} : req'[q] = req[q]
  BY DEF Return, IInv, ReqOK
<1>2. ReqOK'
  BY <1>1, RestOK, RestFields DEF IInv, ReqOK
<1>3. HeldOK'
  <2> SUFFICES ASSUME NEW q \in Workers, NEW i \in 1..req'[q].held
               PROVE  /\ rowLock'[req'[q].lines[i]] = q
                      /\ req'[q].read[req'[q].lines[i]] + req'[q].delta >= 0
                      /\ req'[q].kind \in {"checkout", "adjust"} =>
                            req'[q].read[req'[q].lines[i]] = stock'[req'[q].lines[i]]
    BY DEF HeldOK
  <2>1. q # p /\ req'[q] = req[q] /\ i \in 1..req[q].held
    BY <1>1, RestFields
  <2> DEFINE w == req[q].lines[i]
  <2>2. w \in Variants
    <3>1. i \in 1..Len(req[q].lines)
      BY <2>1, ReqFacts
    <3> QED
      BY <3>1, ReqFacts
  <2>3. /\ rowLock[w] = q /\ req[q].read[w] + req[q].delta >= 0
        /\ req[q].kind \in {"checkout", "adjust"} => req[q].read[w] = stock[w]
    BY <2>1 DEF IInv, HeldOK
  <2>4. rowLock'[w] = q /\ stock'[w] = stock[w]
    BY <2>1, <2>2, <2>3
  <2> QED
    BY <2>1, <2>3, <2>4
<1>4. ASSUME NEW c \in Customers PROVE Cancelling(c)' = Cancelling(c) \ {p}
  <2>1. Rest.customer # c
    BY RestFields, CheckoutAssumption
  <2> QED
    BY <1>1, <2>1 DEF Cancelling
<1> QED
  BY <1>2, <1>3, <1>4

\* OutOfStock and DeadlockVictim: the block is rolled back.
LEMMA RollbackOK ==
    ASSUME IInv, NEW p \in Workers, Return(p), rowLock' = Released(p),
           UNCHANGED <<stock, moves, shopVars, edits, blind, overlapped>>
    PROVE  IInv' /\ Keeps
<1>1. \A v \in Variants : rowLock'[v] \in {rowLock[v], None} /\ (rowLock[v] # p => rowLock'[v] = rowLock[v])
  BY DEF Released
<1>2. rowLock' \in [Variants -> Workers \cup {None}]
  BY DEF Released, IInv, TypeOK
<1>3. TypeOK'
  BY <1>2 DEF IInv, TypeOK, shopVars, Return
<1>4. ReqOK' /\ HeldOK' /\ \A c \in Customers : Cancelling(c)' = Cancelling(c) \ {p}
  BY <1>1, EndOK
<1>5. LiveOK'
  <2> SUFFICES ASSUME NEW c \in Customers
               PROVE  IsFiniteSet(Cancelling(c)') /\ Cardinality(Cancelling(c)') <= live[c]
    BY DEF LiveOK, shopVars
  <2>1. IsFiniteSet(Cancelling(c)) /\ Cardinality(Cancelling(c)) <= live[c] /\ live[c] \in Nat
    BY DEF IInv, LiveOK, TypeOK
  <2> QED
    BY <1>4, <2>1, OneLess
<1> QED
  BY <1>3, <1>4, <1>5 DEF IInv, Keeps

LEMMA EditSaveOK ==
    ASSUME IInv, NEW p \in Workers, EditSave(p)
    PROVE  IInv' /\ \A v \in Variants : PostsOrIsBlind(v)
<1> DEFINE v == req[p].lines[1]
           n == req[p].read[v]
<1>1. req[p].kind = "edit" /\ v \in Variants /\ n \in Nat
  <2>1. req[p].kind = "edit" /\ Len(req[p].lines) = 1
    BY DEF EditSave, IInv, ReqOK
  <2>2. v \in Variants /\ req[p].read \in [Variants -> Nat]
    BY <2>1, ReqFacts
  <2> QED
    BY <2>1, <2>2
<1>2. /\ rowLock[v] = None /\ Return(p)
      /\ stock' = [stock EXCEPT ![v] = n]
      /\ blind' = IF n # stock[v] THEN [blind EXCEPT ![v] = @ + 1] ELSE blind
      /\ UNCHANGED <<moves, shopVars, rowLock, edits, overlapped>>
  BY DEF EditSave, RowFree
<1> HIDE DEF n, v
<1>3. stock \in [Variants -> Nat] /\ blind \in [Variants -> Nat] /\ None \notin Workers
  BY CheckoutAssumption DEF IInv, TypeOK
<1>4. TypeOK'
  BY <1>1, <1>2, <1>3 DEF IInv, TypeOK, shopVars, Return
<1>5. ReqOK' /\ HeldOK' /\ \A c \in Customers : Cancelling(c)' = Cancelling(c) \ {p}
  BY <1>1, <1>2, <1>3, EndOK
<1>6. LiveOK'
  <2> SUFFICES ASSUME NEW c \in Customers
               PROVE  IsFiniteSet(Cancelling(c)') /\ Cardinality(Cancelling(c)') <= live[c]
    BY <1>2 DEF LiveOK, shopVars
  <2>1. IsFiniteSet(Cancelling(c)) /\ Cardinality(Cancelling(c)) <= live[c] /\ live[c] \in Nat
    BY DEF IInv, LiveOK, TypeOK
  <2> QED
    BY <1>5, <2>1, OneLess
<1>7. ASSUME NEW w \in Variants PROVE PostsOrIsBlind(w)
  <2>1. blind'[w] # blind[w] \/ (stock'[w] = stock[w] /\ moves'[w] = moves[w])
    BY <1>1, <1>2, <1>3
  <2> QED
    BY <2>1 DEF PostsOrIsBlind
<1> QED
  BY <1>4, <1>5, <1>6, <1>7 DEF IInv

\* What a block writes that commits: for each of its lines the stock it read
\* and its change, with a movement that says so.
LEMMA CommitRows ==
    ASSUME IInv, NEW p \in Workers, Commit(p), NEW v \in LinesIn(p)
    PROVE  /\ v \in Variants /\ rowLock[v] = p /\ req[p].read[v] + req[p].delta \in Nat
           /\ req[p].read[v] \in Nat
           /\ req[p].kind # "cancel" => req[p].read[v] = stock[v]
<1>1. PICK i \in DOMAIN req[p].lines : v = req[p].lines[i]
  BY DEF LinesIn, ToSet
<1>2. i \in 1..Len(req[p].lines) /\ i \in 1..req[p].held
  BY ReqFacts DEF Commit
<1>3. v \in Variants /\ req[p].read[v] \in Nat /\ req[p].delta \in Int
  BY <1>1, <1>2, ReqFacts
<1>4. /\ rowLock[v] = p /\ req[p].read[v] + req[p].delta >= 0
      /\ req[p].kind \in {"checkout", "adjust"} => req[p].read[v] = stock[v]
  BY <1>1, <1>2 DEF IInv, HeldOK
<1> QED
  BY <1>3, <1>4 DEF Commit

LEMMA CommitOK ==
    ASSUME IInv, NEW p \in Workers, Commit(p)
    PROVE  IInv' /\ \A v \in Variants : PostsOrIsBlind(v)
<1> DEFINE r == req[p]
           c == r.customer
           T == [delta : Int, after : Nat]
<1>1. /\ r.kind \in {"checkout", "cancel", "adjust"} /\ Return(p) /\ rowLock' = Released(p)
      /\ UNCHANGED <<edits, overlapped>>
  BY DEF Commit
<1>2. ASSUME NEW v \in Variants
      PROVE  /\ stock'[v] = IF v \in LinesIn(p) THEN r.read[v] + r.delta ELSE stock[v]
             /\ moves'[v] = IF v \in LinesIn(p) THEN Append(moves[v], Movement(r.read[v], r.delta))
                                                ELSE moves[v]
             /\ blind'[v] = IF v \in LinesIn(p) /\ ~Locked(p) /\ r.read[v] # stock[v]
                              THEN blind[v] + 1 ELSE blind[v]
  BY DEF Commit
<1>3. ASSUME NEW v \in LinesIn(p)
      PROVE  /\ v \in Variants /\ rowLock[v] = p /\ r.read[v] + r.delta \in Nat
             /\ r.read[v] \in Nat
             /\ r.kind # "cancel" => r.read[v] = stock[v]
  BY <1>3, CommitRows
<1>4. r.delta \in Int /\ r.slot \in Nat /\ r.held \in Nat
  BY ReqFacts
<1>5. \A v \in Variants : Movement(r.read[v], r.delta)
                            = [delta |-> r.delta, after |-> r.read[v] + r.delta]
  BY DEF Movement
<1>6. stock' \in [Variants -> Nat] /\ blind' \in [Variants -> Nat]
  <2>1. /\ stock' = [v \in Variants |-> stock'[v]] /\ blind' = [v \in Variants |-> blind'[v]]
    BY DEF Commit
  <2>2. ASSUME NEW v \in Variants PROVE stock'[v] \in Nat /\ blind'[v] \in Nat
    <3>1. stock[v] \in Nat /\ blind[v] \in Nat
      BY DEF IInv, TypeOK
    <3>2. stock'[v] \in Nat
      BY <1>2, <1>3, <3>1
    <3>3. blind'[v] \in {blind[v], blind[v] + 1}
      BY <1>2
    <3> QED
      BY <3>1, <3>2, <3>3
  <2> QED
    BY <2>1, <2>2
<1>7. moves' \in [Variants -> Seq(T)]
  <2>1. moves' = [v \in Variants |-> moves'[v]]
    BY DEF Commit
  <2>2. ASSUME NEW v \in Variants PROVE moves'[v] \in Seq(T)
    <3>1. moves[v] \in Seq(T)
      BY DEF IInv, TypeOK
    <3>2. CASE v \in LinesIn(p)
      <4> DEFINE row == Movement(r.read[v], r.delta)
      <4>1. r.read[v] + r.delta \in Nat
        BY <1>3, <3>2
      <4>2. row \in T
        BY <1>4, <4>1 DEF Movement
      <4>3. moves'[v] = Append(moves[v], row)
        BY <1>2, <3>2
      <4> HIDE DEF T, row
      <4> QED
        BY <3>1, <4>2, <4>3
    <3>3. CASE v \notin LinesIn(p)
      BY <1>2, <3>1, <3>3
    <3> QED
      BY <3>2, <3>3
  <2> HIDE DEF T
  <2> QED
    BY <2>1, <2>2
<1>8. rowLock' \in [Variants -> Workers \cup {None}]
      /\ \A v \in Variants, q \in Workers \ {p} : rowLock[v] = q => rowLock'[v] = q
  BY <1>1 DEF Released, IInv, TypeOK
<1>9. ReqOK' /\ HeldOK' /\ \A x \in Customers : Cancelling(x)' = Cancelling(x) \ {p}
  <2>1. \A v \in Variants, q \in Workers \ {p} : rowLock[v] = q => stock'[v] = stock[v]
    BY <1>2, <1>3
  <2> QED
    BY <1>1, <1>8, <2>1, EndOK
<1>10. /\ live' \in [Customers -> Nat] /\ carts' \subseteq Customers /\ filled' \in [Customers -> Nat]
       /\ placed' \in [Customers -> Nat] /\ booked' \in Nat /\ timesUsed' \in Nat
       /\ redeemed' \in [Customers -> Nat] /\ LiveOK'
  <2>0. /\ live \in [Customers -> Nat] /\ carts \subseteq Customers /\ filled \in [Customers -> Nat]
        /\ placed \in [Customers -> Nat] /\ booked \in Nat /\ timesUsed \in Nat
        /\ redeemed \in [Customers -> Nat]
    BY DEF IInv, TypeOK
  <2>1. ASSUME NEW x \in Customers
        PROVE  /\ IsFiniteSet(Cancelling(x)') /\ Cardinality(Cancelling(x)') <= live[x]
               /\ p \in Cancelling(x) => live[x] > 0 /\ Cardinality(Cancelling(x)') <= live[x] - 1
    <3>1. IsFiniteSet(Cancelling(x)) /\ Cardinality(Cancelling(x)) <= live[x] /\ live[x] \in Nat
      BY DEF IInv, LiveOK, TypeOK
    <3> QED
      BY <1>9, <3>1, OneLess
  <2>a. \A x \in Customers : Cardinality(Cancelling(x)') \in Nat
    BY <2>1, FS_CardinalityType
  <2>2. CASE r.kind = "checkout"
    <3>1. /\ carts' = carts \ {c} /\ placed' = [placed EXCEPT ![c] = @ + 1]
          /\ live' = [live EXCEPT ![c] = @ + 1] /\ booked' = r.slot + 1 /\ filled' = filled
      BY <2>2 DEF Commit
    <3>a. \/ timesUsed' = timesUsed + 1 /\ redeemed' = [redeemed EXCEPT ![c] = @ + 1]
          \/ timesUsed' = timesUsed /\ redeemed' = redeemed
      <4>1. CASE r.coupon
        BY <2>2, <4>1 DEF Commit
      <4>2. CASE ~r.coupon
        BY <2>2, <4>2 DEF Commit
      <4> QED
        BY <4>1, <4>2
    <3>2. \A x \in Customers : live'[x] >= live[x] /\ live'[x] \in Nat
      BY <2>0, <3>1
    <3>3. LiveOK'
      BY <2>0, <2>1, <2>a, <3>2 DEF LiveOK
    <3>c. c \in Customers
      BY <2>2 DEF IInv, ReqOK
    <3> HIDE DEF c, r
    <3>4. /\ carts' \subseteq Customers /\ placed' \in [Customers -> Nat]
          /\ live' \in [Customers -> Nat] /\ booked' \in Nat
      BY <1>4, <2>0, <3>1, <3>c
    <3>5. timesUsed' \in Nat /\ redeemed' \in [Customers -> Nat]
      <4>1. CASE timesUsed' = timesUsed /\ redeemed' = redeemed
        BY <2>0, <4>1
      <4>2. CASE timesUsed' = timesUsed + 1 /\ redeemed' = [redeemed EXCEPT ![c] = @ + 1]
        BY <2>0, <3>c, <4>2
      <4> QED
        BY <3>a, <4>1, <4>2
    <3> QED
      BY <2>0, <3>1, <3>3, <3>4, <3>5
  <2>3. CASE r.kind = "cancel"
    <3>1. /\ live' = [live EXCEPT ![c] = @ - 1]
          /\ booked' = (LET slot == IF r.late THEN booked ELSE r.slot
                        IN  IF slot > 0 THEN slot - 1 ELSE booked)
          /\ UNCHANGED <<carts, filled, placed, timesUsed, redeemed>>
      BY <2>3 DEF Commit
    <3>2. c \in Customers /\ p \in Cancelling(c)
      BY <2>3 DEF IInv, ReqOK, Cancelling
    <3>3. \A x \in Customers : /\ live'[x] \in Nat /\ Cardinality(Cancelling(x)') <= live'[x]
      BY <2>0, <2>1, <2>a, <3>1, <3>2
    <3>4. booked' \in Nat
      BY <1>4, <2>0, <3>1
    <3>5. LiveOK'
      BY <2>1, <3>3 DEF LiveOK
    <3>6. live' \in [Customers -> Nat]
      BY <2>0, <3>1, <3>3
    <3> QED
      BY <2>0, <3>1, <3>4, <3>5, <3>6
  <2>4. CASE r.kind = "adjust"
    <3>1. UNCHANGED shopVars
      BY <2>4 DEF Commit
    <3>2. LiveOK'
      BY <2>1, <3>1 DEF LiveOK, shopVars
    <3> QED
      BY <2>0, <3>1, <3>2 DEF shopVars
  <2> QED
    BY <1>1, <2>2, <2>3, <2>4
<1>11. TypeOK'
  <2>1. DOMAIN req' = Workers /\ edits' \in Nat /\ overlapped' \in BOOLEAN
    BY <1>1 DEF Return, IInv, TypeOK
  <2> QED
    BY <1>6, <1>7, <1>8, <1>10, <2>1 DEF TypeOK
<1>12. ASSUME NEW v \in Variants PROVE PostsOrIsBlind(v)
  <2>1. CASE v \notin LinesIn(p)
    BY <1>2, <2>1 DEF PostsOrIsBlind
  <2>2. CASE v \in LinesIn(p) /\ r.read[v] # stock[v]
    <3>1. ~Locked(p)
      BY <1>3, <2>2 DEF Locked
    <3>2. blind'[v] = blind[v] + 1 /\ blind[v] \in Nat
      BY <1>2, <2>2, <3>1 DEF IInv, TypeOK
    <3> QED
      BY <3>2 DEF PostsOrIsBlind
  <2>3. CASE v \in LinesIn(p) /\ r.read[v] = stock[v]
    <3>1. stock[v] + r.delta >= 0 /\ stock'[v] = stock[v] + r.delta
      BY <1>2, <1>3, <1>4, <2>3
    <3>2. moves'[v] = Append(moves[v], [delta |-> r.delta, after |-> stock[v] + r.delta])
      BY <1>2, <2>3 DEF Movement
    <3>3. Stock(v)!Post(r.delta)
      BY <3>1, <3>2 DEF Stock!Post
    <3> QED
      BY <1>4, <3>3 DEF PostsOrIsBlind, Stock!Next
  <2> QED
    BY <2>1, <2>2, <2>3
<1> QED
  BY <1>9, <1>10, <1>11, <1>12 DEF IInv

-----------------------------------------------------------------------------
LEMMA NextOK ==
    ASSUME IInv, [Next]_vars PROVE IInv' /\ \A v \in Variants : PostsOrIsBlind(v)
<1>a. ASSUME Keeps PROVE \A v \in Variants : PostsOrIsBlind(v)
  BY <1>a DEF Keeps, PostsOrIsBlind
<1>1. ASSUME NEW c \in Customers, FillCart(c) PROVE IInv' /\ Keeps
  BY <1>1, FillOK
<1>2. ASSUME NEW p \in Workers, Start(p) PROVE IInv' /\ Keeps
  BY <1>2, StartOK
<1>3. ASSUME NEW p \in Workers, Fetch(p) \/ TakeRow(p) PROVE IInv' /\ Keeps
  BY <1>3, FetchOK, TakeRowOK
<1>4. ASSUME NEW p \in Workers, OutOfStock(p) \/ DeadlockVictim(p) PROVE IInv' /\ Keeps
  <2>1. Return(p) /\ rowLock' = Released(p)
        /\ UNCHANGED <<stock, moves, shopVars, edits, blind, overlapped>>
    BY <1>4 DEF OutOfStock, DeadlockVictim
  <2> QED
    BY <2>1, RollbackOK
<1>5. ASSUME NEW p \in Workers, Commit(p) \/ EditSave(p)
      PROVE  IInv' /\ \A v \in Variants : PostsOrIsBlind(v)
  BY <1>5, CommitOK, EditSaveOK
<1>6. ASSUME UNCHANGED vars PROVE IInv' /\ Keeps
  <2>1. TypeOK'
    BY <1>6 DEF vars, shopVars, IInv, TypeOK
  <2>2. ReqOK' /\ HeldOK'
    BY <1>6 DEF vars, shopVars, IInv, ReqOK, HeldOK
  <2>3. LiveOK'
    BY <1>6 DEF vars, shopVars, IInv, LiveOK, Cancelling
  <2> QED
    BY <1>6, <2>1, <2>2, <2>3 DEF vars, IInv, Keeps
<1> QED
  BY <1>a, <1>1, <1>2, <1>3, <1>4, <1>5, <1>6 DEF Next, Continue

\* Whatever customers, warehouse, import and editors do at once, no variant's stock
\* and no recorded movement ever shows less than nothing.
THEOREM CheckoutTypeCorrect == Spec => []TypeOK
<1>1. IInv /\ [Next]_vars => IInv'
  BY NextOK
<1>2. IInv => TypeOK
  BY DEF IInv
<1> QED
  BY <1>1, <1>2, InitIInv, PTL DEF Spec

\* Every variant's stock is a Ledger but for blind writes: adjust_stock posts from
\* the row's own value, because nobody writes a row that another block holds.
THEOREM StockPostsUnlessBlind ==
    Spec => [][\A v \in Variants : PostsOrIsBlind(v)]_vars
<1>1. IInv /\ [Next]_vars => IInv' /\ \A v \in Variants : PostsOrIsBlind(v)
  BY NextOK
<1> QED
  BY <1>1, InitIInv, PTL DEF Spec

Bounded == \A v \in Variants : stock[v] <= MaxStock

\* A posting between two stocks within the bound is within the interval.
LEMMA BoundedPosting == ASSUME IInv, Bounded, Bounded', [Next]_vars PROVE PostsOrBlind
<1> SUFFICES ASSUME NEW v \in Variants, blind'[v] = blind[v], ~(UNCHANGED <<stock[v], moves[v]>>)
             PROVE  LedgerOf(v)!Next
  BY DEF PostsOrBlind
<1>1. Stock(v)!Next /\ IInv'
  BY NextOK DEF PostsOrIsBlind
<1>2. PICK d \in Int : /\ stock[v] + d >= 0 /\ stock'[v] = stock[v] + d
                       /\ moves'[v] = Append(moves[v], [delta |-> d, after |-> stock[v] + d])
  BY <1>1 DEF Stock!Next, Stock!Post
<1>3. stock[v] \in Nat /\ stock[v] <= MaxStock /\ stock'[v] <= MaxStock /\ MaxStock \in Nat
  BY CheckoutAssumption DEF IInv, TypeOK, Bounded
<1>4. d \in -MaxStock..MaxStock
  BY <1>2, <1>3
<1> QED
  BY <1>2, <1>4 DEF LedgerOf!Next, LedgerOf!Post

\* As long as no stock exceeds MaxStock, each variant is a Ledger but for blind
\* writes: what the run checks, whatever the bounds on moves and carts
\* (adjust_stock, set_stock and the saves of the catalogue's editors).
THEOREM StockLedger == Spec /\ []Bounded => StockIsLedger
<1>1. Init => LedgersInit
  BY DEF Init, LedgersInit, LedgerOf!Init
<1>2. IInv /\ [Next]_vars => IInv'
  BY NextOK
<1>3. IInv /\ Bounded /\ Bounded' /\ [Next]_vars => [PostsOrBlind]_vars
  BY BoundedPosting
<1> QED
  BY <1>1, <1>2, <1>3, InitIInv, PTL DEF Spec, StockIsLedger

-----------------------------------------------------------------------------
(***************************************************************************)
(* The counters: what the movements of a variant, the orders of the slot   *)
(* and the redemptions of the coupon add up to.                            *)
(***************************************************************************)

CInv == IInv /\ DriftOnlyByBlindWrites

LEMMA BlindGrows ==
    ASSUME IInv, [Next]_vars, NEW v \in Variants PROVE blind[v] \in Nat /\ blind'[v] >= blind[v]
<1>1. blind \in [Variants -> Nat]
  BY DEF IInv, TypeOK
<1>2. ASSUME NEW p \in Workers, Commit(p) PROVE blind'[v] \in {blind[v], blind[v] + 1}
  BY <1>2 DEF Commit
<1>3. ASSUME NEW p \in Workers, EditSave(p) PROVE blind'[v] \in {blind[v], blind[v] + 1}
  BY <1>1, <1>3 DEF EditSave
<1>4. blind' = blind \/ \E p \in Workers : Commit(p) \/ EditSave(p)
  BY DEF Next, Start, Continue, FillCart, Checkout, Cancel, Adjust, SetStock, Edit, Fetch, TakeRow,
         OutOfStock, DeadlockVictim, vars
<1> QED
  BY <1>1, <1>2, <1>3, <1>4

\* A posting adds its change to the sum of the movements.
LEMMA DriftStep ==
    ASSUME CInv, [Next]_vars PROVE DriftOnlyByBlindWrites'
<1> DEFINE T == [delta : Int, after : Nat]
<1> SUFFICES ASSUME NEW v \in Variants, blind'[v] = 0
             PROVE  /\ stock'[v] = Opening + SumOfDeltas(v)'
                    /\ moves'[v] # <<>> => Last(moves'[v]).after = stock'[v]
  BY DEF DriftOnlyByBlindWrites
<1>1. blind[v] = 0
  BY BlindGrows DEF CInv
<1>2. /\ stock[v] = Opening + SumOfDeltas(v) /\ moves[v] \in Seq(T) /\ stock[v] \in Nat
      /\ moves[v] # <<>> => Last(moves[v]).after = stock[v]
  BY <1>1 DEF CInv, DriftOnlyByBlindWrites, IInv, TypeOK
<1>3. PostsOrIsBlind(v)
  BY NextOK DEF CInv
<1>4. CASE UNCHANGED <<stock[v], moves[v]>>
  BY <1>2, <1>4 DEF SumOfDeltas
<1>5. CASE Stock(v)!Next
  <2>1. PICK d \in Int : /\ stock[v] + d >= 0 /\ stock'[v] = stock[v] + d
                         /\ moves'[v] = Append(moves[v], [delta |-> d, after |-> stock[v] + d])
    BY <1>5 DEF Stock!Next, Stock!Post
  <2> DEFINE n == Len(moves[v])
             row == [delta |-> d, after |-> stock[v] + d]
             f == [i \in DOMAIN moves[v] |-> moves[v][i].delta]
             e == [i \in DOMAIN moves'[v] |-> moves'[v][i].delta]
  <2>2. n \in Nat /\ DOMAIN moves[v] = 1..n
    BY <1>2
  <2> HIDE DEF T
  <2>3. row \in T
    BY <1>2, <2>1 DEF T
  <2>4. /\ DOMAIN moves'[v] = 1..(n + 1) /\ moves'[v][n + 1] = row /\ Len(moves'[v]) = n + 1
        /\ \A i \in 1..n : moves'[v][i] = moves[v][i]
    BY <1>2, <2>1, <2>2, <2>3
  <2>5. ASSUME NEW i \in 1..n PROVE moves[v][i].delta \in Int
    <3>1. moves[v][i] \in T
      BY <1>2, <2>2
    <3> QED
      BY <3>1 DEF T
  <2>6. /\ f \in [1..n -> Int] /\ e \in [1..(n + 1) -> Int] /\ e[n + 1] = d
        /\ SameOn(1..n, f, e)
    <3>1. \A i \in 1..(n + 1) : moves'[v][i].delta \in Int
      <4>1. \A i \in 1..(n + 1) : i \in 1..n \/ i = n + 1
        BY <2>2
      <4> QED
        BY <4>1, <2>4, <2>5
    <3>2. n + 1 \in 1..(n + 1) /\ \A i \in 1..n : i \in 1..(n + 1)
      BY <2>2
    <3>3. f \in [1..n -> Int]
      BY <2>2, <2>5
    <3>4. e \in [1..(n + 1) -> Int]
      BY <2>4, <3>1
    <3>5. e[n + 1] = d
      BY <2>4, <3>2
    <3>6. SameOn(1..n, f, e)
      BY <2>2, <2>4, <3>2 DEF SameOn
    <3> QED
      BY <3>3, <3>4, <3>5, <3>6
  <2>7. SumOfDeltas(v) = SumOf(f) /\ SumOfDeltas(v)' = SumOf(e)
    BY DEF SumOfDeltas
  <2>a. moves'[v] # <<>> /\ Last(moves'[v]) = row
    BY <2>2, <2>4 DEF Last
  <2> HIDE DEF f, e, n
  <2>b. SumOf(e) = SumOf(f) + d /\ SumOf(f) \in Int
    BY <2>2, <2>6, SumAppend
  <2>8. Opening \in Nat
    BY CheckoutAssumption
  <2> QED
    BY <1>2, <2>1, <2>7, <2>a, <2>b, <2>8
<1> QED
  BY <1>1, <1>3, <1>4, <1>5 DEF PostsOrIsBlind

\* The stock of a variant is its opening stock and its movements, and the last of
\* these recorded it, as long as no cancellation or edit wrote over another's change.
THEOREM StockDriftsOnlyByBlindWrites == Spec => []DriftOnlyByBlindWrites
<1>1. Init => DriftOnlyByBlindWrites
  <2> SUFFICES ASSUME Init, NEW v \in Variants
               PROVE  stock[v] = Opening + SumOfDeltas(v) /\ moves[v] = <<>>
    BY DEF DriftOnlyByBlindWrites
  <2>1. moves[v] = <<>> /\ stock[v] = Opening /\ Opening \in Nat
    BY CheckoutAssumption DEF Init
  <2> DEFINE f == [i \in DOMAIN moves[v] |-> moves[v][i].delta]
  <2>2. f \in [{} -> Int]
    BY <2>1
  <2> HIDE DEF f
  <2>3. SumOf(f) = 0
    BY <2>2, SumType, FS_EmptySet
  <2> QED
    BY <2>1, <2>3 DEF SumOfDeltas, f
<1>2. CInv /\ [Next]_vars => CInv'
  BY NextOK, DriftStep DEF CInv
<1>3. Init => CInv
  BY <1>1, InitIInv DEF CInv
<1>4. CInv => DriftOnlyByBlindWrites
  BY DEF CInv
<1> QED
  BY <1>2, <1>3, <1>4, PTL DEF Spec

-----------------------------------------------------------------------------
(***************************************************************************)
(* The slot and the coupon.  Customers served one after the other read     *)
(* counters that nobody else changes before they write them.               *)
(***************************************************************************)

\* The redemptions are counted whoever overlaps.
Redeemed == timesUsed = SumOf(redeemed)

Counted ==
    /\ booked = LiveOrders /\ booked <= Capacity
    /\ timesUsed <= UsageLimit
    /\ \A c \in Customers :
          /\ redeemed[c] <= 1
          /\ placed[c] <= filled[c] /\ (c \in carts => placed[c] < filled[c])

OneCustomer ==
    \A p, q \in Workers : req[p].customer # None /\ req[q].customer # None => p = q

\* What the handler decided on still holds.
Decided(p) ==
    /\ req[p].kind = "checkout" =>
          /\ req[p].customer \in carts
          /\ req[p].slot = booked /\ req[p].slot < Capacity
          /\ req[p].coupon => timesUsed < UsageLimit /\ redeemed[req[p].customer] < 1
    /\ req[p].kind \in {"fetch", "cancel"} => req[p].slot = booked

ShopInv ==
    /\ Redeemed
    /\ ~overlapped => Counted /\ OneCustomer /\ \A p \in Workers : Decided(p)

SInv == IInv /\ ShopInv

LEMMA InitShop == Init => ShopInv
<1> SUFFICES ASSUME Init PROVE ShopInv
  OBVIOUS
<1>1. /\ live = [c \in Customers |-> 0] /\ redeemed = [c \in Customers |-> 0]
      /\ placed = [c \in Customers |-> 0] /\ filled = [c \in Customers |-> 0]
      /\ carts = {} /\ booked = 0 /\ timesUsed = 0
  BY DEF Init
<1>2. IsFiniteSet(Customers) /\ Capacity \in Nat /\ UsageLimit \in Nat
  BY CheckoutAssumption
<1> DEFINE zero == [c \in Customers |-> 0]
<1>3. SumOf(zero) = 0
  <2>1. zero \in [Customers -> Int] /\ \A c \in Customers : zero[c] = 0
    OBVIOUS
  <2> HIDE DEF zero
  <2> QED
    BY <1>2, <2>1, SumOfZeros
<1>4. Redeemed /\ Counted
  BY <1>1, <1>2, <1>3 DEF Redeemed, Counted, LiveOrders
<1>5. \A p \in Workers : req[p].customer = None /\ req[p].kind = "idle"
  BY RestFields DEF Init
<1>6. OneCustomer /\ \A p \in Workers : Decided(p)
  BY <1>5 DEF OneCustomer, Decided
<1> QED
  BY <1>4, <1>6 DEF ShopInv

\* The steps that touch neither the counters nor what a handler decided.
SameDecision(p) ==
    \/ /\ req'[p].customer = req[p].customer /\ req'[p].slot = req[p].slot
       /\ req'[p].coupon = req[p].coupon
       /\ req'[p].kind = req[p].kind \/ {req'[p].kind, req[p].kind} \subseteq {"fetch", "cancel"}
    \/ req'[p].customer = None /\ req'[p].kind \notin {"checkout", "fetch", "cancel"}

LEMMA CalmStep ==
    ASSUME SInv, UNCHANGED <<shopVars, overlapped>>, \A p \in Workers : SameDecision(p)
    PROVE  ShopInv'
<1>1. Redeemed' /\ (Counted => Counted')
  BY DEF SInv, ShopInv, Redeemed, Counted, LiveOrders, shopVars
<1>2. OneCustomer => OneCustomer'
  BY DEF OneCustomer, SameDecision
<1>3. ASSUME NEW p \in Workers, Decided(p) PROVE Decided(p)'
  <2>1. UNCHANGED <<carts, booked, timesUsed, redeemed>>
    BY DEF shopVars
  <2> QED
    BY <1>3, <2>1 DEF Decided, SameDecision
<1> QED
  BY <1>1, <1>2, <1>3 DEF SInv, ShopInv

LEMMA ResumeShop ==
    ASSUME SInv, NEW p \in Workers,
           Fetch(p) \/ TakeRow(p) \/ OutOfStock(p) \/ EditSave(p) \/ DeadlockVictim(p)
    PROVE  ShopInv'
<1>1. UNCHANGED <<shopVars, overlapped>>
  BY DEF Fetch, TakeRow, OutOfStock, EditSave, DeadlockVictim
<1>2. req[p] \in Request /\ req \in [Workers -> Request]
  BY DEF SInv, IInv, ReqOK
<1>3. ASSUME Return(p) PROVE \A q \in Workers : SameDecision(q)
  BY <1>2, <1>3, RestFields DEF Return, SameDecision
<1>4. ASSUME Fetch(p) PROVE \A q \in Workers : SameDecision(q)
  BY <1>2, <1>4 DEF Fetch, SameDecision, Request
<1>5. ASSUME TakeRow(p) PROVE \A q \in Workers : SameDecision(q)
  BY <1>2, <1>5 DEF TakeRow, SameDecision, Request
<1> QED
  BY <1>1, <1>3, <1>4, <1>5, CalmStep DEF OutOfStock, EditSave, DeadlockVictim

\* The warehouse, the import and the editors are no customers.
LEMMA HouseShop ==
    ASSUME SInv, NEW p \in Workers, NEW r, Begin(p, r), r.customer = None,
           r.kind \in {"adjust", "edit"}, UNCHANGED <<shopVars, overlapped>>
    PROVE  ShopInv'
<1>1. \A q \in Workers : SameDecision(q)
  BY DEF SInv, IInv, ReqOK, Begin, SameDecision
<1> QED
  BY <1>1, CalmStep

LEMMA FillShop == ASSUME SInv, NEW c \in Customers, FillCart(c) PROVE ShopInv'
<1>1. /\ carts' = carts \cup {c} /\ filled' = [filled EXCEPT ![c] = @ + 1] /\ c \notin carts
      /\ UNCHANGED <<placed, live, booked, timesUsed, redeemed, req, overlapped>>
  BY DEF FillCart
<1>2. filled \in [Customers -> Nat] /\ placed \in [Customers -> Nat]
  BY DEF SInv, IInv, TypeOK
<1>3. Redeemed' /\ (OneCustomer => OneCustomer')
  BY <1>1 DEF SInv, ShopInv, Redeemed, OneCustomer
<1>4. ASSUME Counted PROVE Counted'
  <2>1. booked' = LiveOrders' /\ booked' <= Capacity /\ timesUsed' <= UsageLimit
    BY <1>1, <1>4 DEF Counted, LiveOrders
  <2>2. ASSUME NEW x \in Customers
        PROVE  /\ redeemed'[x] <= 1
               /\ placed'[x] <= filled'[x] /\ (x \in carts' => placed'[x] < filled'[x])
    <3>1. redeemed[x] <= 1 /\ placed[x] <= filled[x] /\ (x \in carts => placed[x] < filled[x])
      BY <1>4 DEF Counted
    <3> QED
      BY <1>1, <1>2, <3>1
  <2> QED
    BY <2>1, <2>2 DEF Counted
<1>5. ASSUME NEW p \in Workers, Decided(p) PROVE Decided(p)'
  BY <1>1, <1>5 DEF Decided
<1> QED
  BY <1>1, <1>3, <1>4, <1>5 DEF SInv, ShopInv

\* A customer's handler that begins while no other runs.
LEMMA BeginShop ==
    ASSUME SInv, NEW p \in Workers, NEW r, Begin(p, r), NoteOverlap, UNCHANGED shopVars,
           r.kind = "checkout" => /\ r.customer \in carts
                                  /\ r.slot = booked /\ r.slot < Capacity
                                  /\ r.coupon => timesUsed < UsageLimit /\ redeemed[r.customer] < 1,
           r.kind \in {"fetch", "cancel"} => r.slot = booked
    PROVE  ShopInv'
<1>1. UNCHANGED <<carts, filled, placed, live, booked, timesUsed, redeemed>>
  BY DEF shopVars
<1>2. Redeemed' /\ (Counted => Counted')
  BY <1>1 DEF SInv, ShopInv, Redeemed, Counted, LiveOrders
<1>3. ASSUME ~overlapped' PROVE ~overlapped /\ \A q \in Workers : req[q].customer = None
  BY <1>3 DEF NoteOverlap
<1>4. req' = [req EXCEPT ![p] = r] /\ DOMAIN req = Workers
  BY DEF Begin, SInv, IInv, TypeOK
<1>5. ASSUME ~overlapped' PROVE OneCustomer'
  BY <1>3, <1>4, <1>5 DEF OneCustomer
<1>6. ASSUME NEW q \in Workers, Decided(q) PROVE Decided(q)'
  <2>1. CASE q = p
    BY <1>1, <1>4, <2>1 DEF Decided
  <2>2. CASE q # p
    BY <1>1, <1>4, <1>6, <2>2 DEF Decided
  <2> QED
    BY <2>1, <2>2
<1> QED
  BY <1>2, <1>3, <1>5, <1>6 DEF SInv, ShopInv

LEMMA StartShop == ASSUME SInv, NEW p \in Workers, Start(p) PROVE ShopInv'
<1>1. ASSUME NEW c \in Customers, Checkout(p, c) PROVE ShopInv'
  <2> DEFINE r == [Rest EXCEPT !.kind = "checkout", !.customer = c, !.lines = LinesOf[c],
                               !.delta = -1, !.slot = booked, !.coupon = Eligible(c)]
  <2>1. /\ r.kind = "checkout" /\ r.customer = c /\ r.slot = booked /\ r.coupon = Eligible(c)
    BY DEF Rest
  <2>2. Begin(p, r) /\ NoteOverlap /\ UNCHANGED shopVars /\ c \in carts /\ booked < Capacity
    BY <1>1 DEF Checkout, NotFull
  <2> HIDE DEF r
  <2> QED
    BY <2>1, <2>2, BeginShop DEF Eligible
<1>2. ASSUME NEW c \in Customers, NEW path \in CancelPaths, Cancel(p, c, path) PROVE ShopInv'
  <2> DEFINE r == [Rest EXCEPT !.kind = IF path = "ops" THEN "fetch" ELSE "cancel",
                               !.customer = c, !.lines = LinesOf[c],
                               !.delta = 1, !.read = stock, !.slot = booked,
                               !.late = path = "ops"]
  <2>1. r.kind \in {"fetch", "cancel"} /\ r.slot = booked
    BY DEF Rest
  <2>2. Begin(p, r) /\ NoteOverlap /\ UNCHANGED shopVars
    BY <1>2 DEF Cancel
  <2> HIDE DEF r
  <2> QED
    BY <2>1, <2>2, BeginShop
<1>3. ASSUME NEW v \in Variants, NEW d,
             Begin(p, [Rest EXCEPT !.kind = "adjust", !.lines = <<v>>, !.delta = d]),
             UNCHANGED <<shopVars, overlapped>>
      PROVE  ShopInv'
  <2> DEFINE r == [Rest EXCEPT !.kind = "adjust", !.lines = <<v>>, !.delta = d]
  <2>1. r.kind = "adjust" /\ r.customer = None
    BY DEF Rest
  <2> HIDE DEF r
  <2> QED
    BY <1>3, <2>1, HouseShop DEF r
<1>4. ASSUME NEW v \in Variants, NEW units, Edit(p, v, units) PROVE ShopInv'
  <2> DEFINE r == [Rest EXCEPT !.kind = "edit", !.lines = <<v>>, !.read[v] = units]
  <2>1. r.kind = "edit" /\ r.customer = None
    BY DEF Rest
  <2>2. Begin(p, r) /\ UNCHANGED <<shopVars, overlapped>>
    BY <1>4 DEF Edit
  <2> HIDE DEF r
  <2> QED
    BY <2>1, <2>2, HouseShop
<1> QED
  BY <1>1, <1>2, <1>3, <1>4 DEF Start, Adjust, SetStock

-----------------------------------------------------------------------------
\* One customer's number changes by d, and so does the sum.
ShiftsBy(f, e, c, d) == e[c] = f[c] + d /\ SameOn(Customers \ {c}, f, e)

LEMMA CustomerSum ==
    ASSUME NEW f \in [Customers -> Nat], NEW e \in [Customers -> Nat], NEW c \in Customers,
           NEW d \in Int, ShiftsBy(f, e, c, d)
    PROVE  SumOf(e) = SumOf(f) + d /\ SumOf(f) \in Int /\ f[c] <= SumOf(f)
<1>1. IsFiniteSet(Customers)
  BY CheckoutAssumption
<1>2. f \in [Customers -> Int] /\ e \in [Customers -> Int]
  OBVIOUS
<1>3. SumOf(e) = SumOf(f) + d
  BY <1>1, <1>2, SumShift DEF ShiftsBy
<1>4. SumOf(f) \in Int
  BY <1>1, <1>2, SumType
<1>5. f[c] <= SumOf(f)
  BY <1>1, SumAtLeast
<1> QED
  BY <1>3, <1>4, <1>5

\* The handler that commits was the only one.
LEMMA AloneAtCommit ==
    ASSUME SInv, NEW p \in Workers, Commit(p), req[p].kind \in {"checkout", "cancel"}, ~overlapped
    PROVE  Counted /\ Decided(p) /\ OneCustomer' /\ \A q \in Workers : Decided(q)'
<1>1. Counted /\ OneCustomer /\ \A q \in Workers : Decided(q)
  BY DEF SInv, ShopInv
<1>2. req' = [req EXCEPT ![p] = Rest] /\ req \in [Workers -> Request]
  BY DEF Commit, Return, SInv, IInv, ReqOK
<1>3. \A q \in Workers : req[q].kind \in {"checkout", "fetch", "cancel"} => req[q].customer # None
  BY CheckoutAssumption DEF SInv, IInv, ReqOK
<1>4. ASSUME NEW q \in Workers PROVE req'[q].kind \notin {"checkout", "fetch", "cancel"}
  <2>1. CASE q = p
    BY <1>2, <2>1, RestFields
  <2>2. CASE q # p
    BY <1>1, <1>2, <1>3, <2>2 DEF OneCustomer
  <2> QED
    BY <2>1, <2>2
<1>5. OneCustomer'
  BY <1>1, <1>2, RestFields DEF OneCustomer
<1>6. \A q \in Workers : Decided(q)'
  BY <1>4 DEF Decided
<1> QED
  BY <1>1, <1>5, <1>6

LEMMA CheckoutShop ==
    ASSUME SInv, NEW p \in Workers, Commit(p), req[p].kind = "checkout" PROVE ShopInv'
<1>1. PICK c \in Customers : c = req[p].customer
  BY DEF SInv, IInv, ReqOK
<1>2. /\ live \in [Customers -> Nat] /\ redeemed \in [Customers -> Nat] /\ booked \in Nat
      /\ placed \in [Customers -> Nat] /\ filled \in [Customers -> Nat] /\ timesUsed \in Nat
  BY DEF SInv, IInv, TypeOK
<1>3. /\ carts' = carts \ {c} /\ placed' = [placed EXCEPT ![c] = @ + 1]
      /\ live' = [live EXCEPT ![c] = @ + 1] /\ booked' = req[p].slot + 1
      /\ UNCHANGED <<filled, overlapped>>
  BY <1>1 DEF Commit
<1>4. Redeemed' /\ timesUsed' = (IF req[p].coupon THEN timesUsed + 1 ELSE timesUsed)
      /\ redeemed' = (IF req[p].coupon THEN [redeemed EXCEPT ![c] = @ + 1] ELSE redeemed)
  <2>1. CASE req[p].coupon
    <3>1. timesUsed' = timesUsed + 1 /\ redeemed' = [redeemed EXCEPT ![c] = redeemed[c] + 1]
      BY <1>1, <2>1 DEF Commit
    <3>2. redeemed' \in [Customers -> Nat] /\ ShiftsBy(redeemed, redeemed', c, 1)
      BY <1>2, <3>1 DEF ShiftsBy, SameOn
    <3>3. SumOf(redeemed') = SumOf(redeemed) + 1
      BY <1>2, <3>2, CustomerSum
    <3> QED
      BY <2>1, <3>1, <3>3 DEF SInv, ShopInv, Redeemed
  <2>2. CASE ~req[p].coupon
    <3>1. timesUsed' = timesUsed /\ redeemed' = redeemed
      BY <2>2 DEF Commit
    <3> QED
      BY <2>2, <3>1 DEF SInv, ShopInv, Redeemed
  <2> QED
    BY <2>1, <2>2
<1>5. ASSUME ~overlapped PROVE Counted'
  <2>1. Counted /\ Decided(p)
    BY <1>5, AloneAtCommit
  <2>2. /\ c \in carts /\ req[p].slot = booked /\ booked < Capacity
        /\ req[p].coupon => timesUsed < UsageLimit /\ redeemed[c] < 1
    BY <1>1, <2>1 DEF Decided
  <2>3. live' \in [Customers -> Nat] /\ ShiftsBy(live, live', c, 1)
    BY <1>2, <1>3 DEF ShiftsBy, SameOn
  <2>4. SumOf(live') = SumOf(live) + 1
    BY <1>2, <2>3, CustomerSum
  <2>5. Capacity \in Nat /\ UsageLimit \in Nat
    BY CheckoutAssumption
  <2>6. booked' = LiveOrders' /\ booked' <= Capacity /\ timesUsed' <= UsageLimit
    BY <1>2, <1>3, <1>4, <2>1, <2>2, <2>4, <2>5 DEF Counted, LiveOrders
  <2>7. ASSUME NEW x \in Customers
        PROVE  /\ redeemed'[x] <= 1
               /\ placed'[x] <= filled'[x] /\ (x \in carts' => placed'[x] < filled'[x])
    <3>1. redeemed[x] <= 1 /\ placed[x] <= filled[x] /\ (x \in carts => placed[x] < filled[x])
      BY <2>1 DEF Counted
    <3>2. redeemed'[x] <= 1
      BY <1>2, <1>4, <2>2, <3>1
    <3>3. placed'[x] <= filled'[x] /\ (x \in carts' => placed'[x] < filled'[x])
      BY <1>2, <1>3, <2>2, <3>1
    <3> QED
      BY <3>2, <3>3
  <2> QED
    BY <2>6, <2>7 DEF Counted
<1> QED
  BY <1>3, <1>4, <1>5, AloneAtCommit DEF ShopInv

LEMMA CancelShop ==
    ASSUME SInv, NEW p \in Workers, Commit(p), req[p].kind = "cancel" PROVE ShopInv'
<1>1. PICK c \in Customers : c = req[p].customer
  BY DEF SInv, IInv, ReqOK
<1>2. live \in [Customers -> Nat] /\ booked \in Nat
  BY DEF SInv, IInv, TypeOK
<1>3. /\ live' = [live EXCEPT ![c] = live[c] - 1]
      /\ booked' = (LET slot == IF req[p].late THEN booked ELSE req[p].slot
                    IN  IF slot > 0 THEN slot - 1 ELSE booked)
      /\ UNCHANGED <<carts, filled, placed, timesUsed, redeemed, overlapped>>
  BY <1>1 DEF Commit
<1>4. live[c] > 0
  <2>1. p \in Cancelling(c) /\ IsFiniteSet(Cancelling(c)) /\ Cardinality(Cancelling(c)) <= live[c]
    BY <1>1 DEF Cancelling, SInv, IInv, LiveOK
  <2> QED
    BY <1>2, <2>1, OneLess
<1>5. Redeemed'
  BY <1>3 DEF SInv, ShopInv, Redeemed
<1>6. ASSUME ~overlapped PROVE Counted'
  <2>1. Counted /\ Decided(p)
    BY <1>6, AloneAtCommit
  <2>2. req[p].slot = booked
    BY <2>1 DEF Decided
  <2>3. live' \in [Customers -> Nat] /\ ShiftsBy(live, live', c, -1)
    <3>1. live[c] \in Nat /\ live[c] - 1 \in Nat /\ live[c] + (-1) = live[c] - 1
      BY <1>2, <1>4
    <3> QED
      BY <1>2, <1>3, <3>1 DEF ShiftsBy, SameOn
  <2>4. SumOf(live') = SumOf(live) + (-1) /\ live[c] <= SumOf(live)
    BY <1>2, <2>3, CustomerSum
  <2>5. booked = SumOf(live) /\ booked > 0
    BY <1>2, <1>4, <2>1, <2>4 DEF Counted, LiveOrders
  <2>6. booked' = booked - 1
    BY <1>3, <2>2, <2>5
  <2>7. Capacity \in Nat
    BY CheckoutAssumption
  <2>8. booked' = LiveOrders' /\ booked' <= Capacity
    BY <1>2, <2>1, <2>4, <2>5, <2>6, <2>7 DEF LiveOrders, Counted
  <2> QED
    BY <1>3, <2>1, <2>8 DEF Counted
<1> QED
  BY <1>3, <1>5, <1>6, AloneAtCommit DEF ShopInv

LEMMA ShopStep == ASSUME SInv, [Next]_vars PROVE ShopInv'
<1>1. ASSUME NEW c \in Customers, FillCart(c) PROVE ShopInv'
  BY <1>1, FillShop
<1>2. ASSUME NEW p \in Workers, Start(p) PROVE ShopInv'
  BY <1>2, StartShop
<1>3. ASSUME NEW p \in Workers,
             Fetch(p) \/ TakeRow(p) \/ OutOfStock(p) \/ EditSave(p) \/ DeadlockVictim(p)
      PROVE  ShopInv'
  BY <1>3, ResumeShop
<1>4. ASSUME NEW p \in Workers, Commit(p), req[p].kind = "adjust" PROVE ShopInv'
  <2>1. UNCHANGED <<shopVars, overlapped>> /\ req' = [req EXCEPT ![p] = Rest]
    BY <1>4 DEF Commit, Return
  <2>2. \A q \in Workers : SameDecision(q)
    BY <2>1, RestFields DEF SameDecision, SInv, IInv, ReqOK
  <2> QED
    BY <2>1, <2>2, CalmStep
<1>5. ASSUME NEW p \in Workers, Commit(p) PROVE ShopInv'
  <2>1. req[p].kind \in {"checkout", "cancel", "adjust"}
    BY <1>5 DEF Commit
  <2> QED
    BY <1>4, <1>5, <2>1, CheckoutShop, CancelShop
<1>6. ASSUME UNCHANGED vars PROVE ShopInv'
  <2>1. UNCHANGED <<shopVars, overlapped>> /\ \A q \in Workers : SameDecision(q)
    BY <1>6 DEF vars, SameDecision
  <2> QED
    BY <2>1, CalmStep
<1> QED
  BY <1>1, <1>2, <1>3, <1>5, <1>6 DEF Next, Continue

LEMMA ShopInvariance == Spec => []ShopInv
<1>1. SInv /\ [Next]_vars => SInv'
  BY NextOK, ShopStep DEF SInv
<1>2. Init => SInv
  BY InitIInv, InitShop DEF SInv
<1>3. SInv => ShopInv
  BY DEF SInv
<1> QED
  BY <1>1, <1>2, <1>3, PTL DEF Spec

\* While customers are served one after the other, the slot counts exactly its live
\* orders, within its capacity, and nobody's filled cart is bought twice.
THEOREM SlotCountsItsOrders == Spec => []SlotCountsOrders
<1>1. ShopInv => SlotCountsOrders
  BY DEF ShopInv, Counted, SlotCountsOrders
<1> QED
  BY <1>1, ShopInvariance, PTL

\* The coupon's counter is its redemptions in every interleaving: each checkout adds
\* one to both or to neither. Its limits hold for customers served in turn.
THEOREM CouponIsCounted == Spec => []CouponCounted
<1>1. ShopInv => CouponCounted
  BY DEF ShopInv, Redeemed, Counted, CouponCounted
<1> QED
  BY <1>1, ShopInvariance, PTL

=============================================================================
