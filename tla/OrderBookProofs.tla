---------------------------- MODULE OrderBookProofs ----------------------------
(***************************************************************************)
(* The draft of a conversation is what was said in it, the records of a phone *)
(* are no more than the calls that raced, and the figures of the dashboard     *)
(* agree and add up: for any number of conversations, pages, turns and items,  *)
(* any hours and prices, and whatever the parser answers.  What DataInv says   *)
(* of an order - its hour is not ahead of the clock, its total is its lines    *)
(* and its fee - is what the facts of DashboardProofs assume.                  *)
(***************************************************************************)
EXTENDS OrderBook, SequenceTheorems, DashboardProofs

USE MergeAssumption, BookAssumption

\* The two parts of DraftIsWhatWasSaid, of one conversation.
Holds(c) ==
    /\ DOMAIN draft[c].items = UNION {KeysOf(said[c][n].items) : n \in DOMAIN said[c]}
    /\ \A k \in DOMAIN draft[c].items :
          /\ LastSaying(c, k) \in DOMAIN said[c]
          /\ draft[c].items[k] = Snapshot(said[c][LastSaying(c, k)].items)[k]

AsReadLast(c) ==
    c \in Placing =>
        LET latest == Snapshot(said[c][Len(said[c])].items)
        IN /\ placing[c].request.items = latest
           /\ \A k \in DOMAIN latest : k[1] \in Active /\ latest[k] > 0

\* Orders are records that name a conversation.
OrdersAreRecords ==
    \E S : orders \in Seq(S) /\ \A order \in S : "conversation" \in DOMAIN order

BookInv ==
    /\ draft = [c \in Conversation |-> draft[c]]
    /\ said \in [Conversation -> Seq(Parses)]
    /\ placing = [w \in Writer |-> placing[w]]
    /\ OrdersAreRecords
    /\ \A c \in Conversation : ~HasOrder(c) => Holds(c) /\ AsReadLast(c)

----------------------------------------------------------------------------
(* Sequences and maxima *)

LEMMA MaxIs ==
    ASSUME NEW S \in SUBSET Nat, NEW m \in S, \A n \in S : n <= m
    PROVE  Max(S) = m
  <1>1. \A x \in S : (\A n \in S : x >= n) => x = m
    OBVIOUS
  <1>2. \E x \in S : \A n \in S : x >= n
    OBVIOUS
  <1> QED
    BY <1>1, <1>2, Zenon DEF Max

LEMMA AppendIs ==
    ASSUME NEW S, NEW seq \in Seq(S), NEW e \in S
    PROVE  /\ Append(seq, e) \in Seq(S)
           /\ Len(Append(seq, e)) = Len(seq) + 1
           /\ Len(seq) \in Nat
           /\ DOMAIN seq = 1..Len(seq)
           /\ DOMAIN Append(seq, e) = 1..(Len(seq) + 1)
           /\ \A i \in 1..Len(seq) : Append(seq, e)[i] = seq[i]
           /\ Append(seq, e)[Len(seq) + 1] = e
  OBVIOUS

LEMMA RowsAreFinite ==
    ASSUME NEW n \in Nat, NEW S \in SUBSET (1..n)
    PROVE  IsFiniteSet(S)
  <1>1. n \in Int /\ 1 \in Int
    OBVIOUS
  <1>2. IsFiniteSet(1..n)
    BY <1>1, FS_Interval
  <1> QED
    BY <1>2, FS_Subset

----------------------------------------------------------------------------
(* Merging *)

\* What is merged: the snapshot, and of the rest what there was before; if
\* nothing is left over, the snapshot alone (services/accumulated_draft_merge.py:91-117).
LEMMA MergedIs ==
    ASSUME NEW prior, NEW parsed
    PROVE  LET merged == Merged(prior, parsed)
               new == Snapshot(parsed.items)
           IN /\ DOMAIN merged.items = DOMAIN new \cup DOMAIN prior.items
              /\ \A k \in DOMAIN new : merged.items[k] = new[k]
              /\ \A k \in DOMAIN prior.items \ DOMAIN new : merged.items[k] = prior.items[k]
              /\ merged.is_complete =>
                    /\ merged.items = new
                    /\ \A k \in DOMAIN new : new[k] > 0
  <1> DEFINE new == Snapshot(parsed.items)
             left_out == DOMAIN prior.items \ DOMAIN new
             items == [k \in DOMAIN new \cup left_out |->
                          IF k \in left_out THEN prior.items[k] ELSE new[k]]
             merged == Merged(prior, parsed)
  <1>1. merged.items = items /\ merged.is_complete = IsComplete(items, left_out)
    BY DEF Merged
  <1>2. new = [k \in DOMAIN new |-> new[k]]
    BY DEF Snapshot
  <1> HIDE DEF new
  <1>3. /\ DOMAIN items = DOMAIN new \cup DOMAIN prior.items
        /\ \A k \in DOMAIN new : items[k] = new[k]
        /\ \A k \in left_out : items[k] = prior.items[k]
    OBVIOUS
  <1>4. ASSUME left_out = {} PROVE items = new
    BY <1>2, <1>4
  <1>5. IsComplete(items, left_out) => items = new /\ \A k \in DOMAIN new : new[k] > 0
    <2> HIDE DEF items, left_out
    <2> SUFFICES ASSUME IsComplete(items, left_out)
                 PROVE  items = new /\ \A k \in DOMAIN new : new[k] > 0
      OBVIOUS
    <2>1. left_out = {} /\ \A k \in DOMAIN items : items[k] > 0
      BY DEF IsComplete
    <2>2. items = new
      BY <1>4, <2>1
    <2> QED
      BY <2>1, <2>2
  <1> QED
    BY <1>1, <1>3, <1>5 DEF new

LEMMA KeysAreDomain == \A raw : DOMAIN Snapshot(raw) = KeysOf(raw)
  BY DEF Snapshot

----------------------------------------------------------------------------
(* Steps *)

LEMMA BookInvInit == BookInit => BookInv
  <1> SUFFICES ASSUME BookInit PROVE BookInv
    OBVIOUS
  <1>1. /\ draft = [c \in Conversation |-> draft[c]]
        /\ said \in [Conversation -> Seq(Parses)]
        /\ placing = [w \in Writer |-> placing[w]]
    BY DEF BookInit
  <1>2. OrdersAreRecords
    <2>1. orders \in Seq({})
      BY DEF BookInit
    <2> QED
      BY <2>1 DEF OrdersAreRecords
  <1>3. \A c \in Conversation : Holds(c)
    <2> TAKE c \in Conversation
    <2>1. DOMAIN draft[c].items = {}
      BY DEF BookInit, NoDraft
    <2>2. DOMAIN said[c] = {}
      BY DEF BookInit
    <2> QED
      BY <2>1, <2>2 DEF Holds
  <1>4. \A c \in Conversation : AsReadLast(c)
    BY DEF BookInit, AsReadLast, Placing, Writer
  <1> QED
    BY <1>1, <1>2, <1>3, <1>4 DEF BookInv

\* A conversation that a step does not touch is as it was, and an order that
\* is there stays there.
LEMMA Untouched ==
    ASSUME NEW c \in Conversation,
           ~HasOrder(c) => Holds(c) /\ AsReadLast(c),
           HasOrder(c) => HasOrder(c)',
           draft'[c] = draft[c], said'[c] = said[c],
           placing'[c] \in {placing[c], NoPlacing}
    PROVE  (~HasOrder(c) => Holds(c) /\ AsReadLast(c))'
  <1> SUFFICES ASSUME ~HasOrder(c)' PROVE Holds(c)' /\ AsReadLast(c)'
    OBVIOUS
  <1>1. Holds(c) /\ AsReadLast(c)
    OBVIOUS
  <1>2. Holds(c)'
    <2>1. \A k : LastSaying(c, k)' = LastSaying(c, k)
      BY DEF LastSaying
    <2> QED
      BY <1>1, <2>1 DEF Holds
  <1>3. AsReadLast(c)'
    BY <1>1 DEF AsReadLast, Placing
  <1> QED
    BY <1>2, <1>3

\* A call of create_draft begins with what is requested, or not at all.
LEMMA BeginIs ==
    ASSUME NEW w \in Writer, NEW request, BeginDraft(w, request),
           placing = [v \in Writer |-> placing[v]]
    PROVE  /\ placing' = [v \in Writer |-> placing'[v]]
           /\ \A v \in Writer \ {w} : placing'[v] = placing[v]
           /\ \/ placing'[w] = placing[w]
              \/ placing'[w].request = request /\ ~IsRefused(request)
  BY DEF BeginDraft

LEMMA RecordsStay ==
    ASSUME NEW c \in Conversation, UNCHANGED orders
    PROVE  /\ HasOrder(c) => HasOrder(c)'
           /\ OrdersAreRecords => OrdersAreRecords'
  BY DEF HasOrder, OrdersAreRecords

\* A turn: the draft holds what was said, the last saying included.
LEMMA TurnHolds ==
    ASSUME BookInv, NEW c \in Conversation, NEW parse \in Parses, Turn(c, parse)
    PROVE  Holds(c)' /\ AsReadLast(c)'
  <1> DEFINE new == Snapshot(parse.items)
             merged == Merged(draft[c], parse)
             last == Len(said[c]) + 1
  <1>1. /\ Holds(c) /\ c \notin Placing
        /\ draft'[c] = merged
        /\ said'[c] = Append(said[c], parse)
    BY DEF BookInv, Turn
  <1>2. /\ Len(said[c]) \in Nat
        /\ DOMAIN said[c] = 1..Len(said[c])
        /\ DOMAIN said'[c] = 1..last
        /\ \A i \in 1..Len(said[c]) : said'[c][i] = said[c][i]
        /\ said'[c][last] = parse
        /\ Len(said'[c]) = last
    BY <1>1, AppendIs DEF BookInv
  <1>3. /\ DOMAIN merged.items = DOMAIN new \cup DOMAIN draft[c].items
        /\ \A k \in DOMAIN new : merged.items[k] = new[k]
        /\ \A k \in DOMAIN draft[c].items \ DOMAIN new : merged.items[k] = draft[c].items[k]
        /\ merged.is_complete => merged.items = new /\ \A k \in DOMAIN new : new[k] > 0
    BY MergedIs
  <1>4. DOMAIN new = KeysOf(parse.items)
    BY KeysAreDomain
  <1> HIDE DEF new, merged
  <1>5. DOMAIN draft'[c].items = UNION {KeysOf(said'[c][n].items) : n \in DOMAIN said'[c]}
    <2>1. DOMAIN draft[c].items = UNION {KeysOf(said[c][n].items) : n \in DOMAIN said[c]}
      BY <1>1 DEF Holds
    <2>2. \A k : k \in DOMAIN draft[c].items <=>
                    \E n \in 1..Len(said[c]) : k \in KeysOf(said[c][n].items)
      BY <1>2, <2>1
    <2>3. \A k : (\E n \in 1..last : k \in KeysOf(said'[c][n].items)) <=>
                    \/ \E n \in 1..Len(said[c]) : k \in KeysOf(said[c][n].items)
                    \/ k \in KeysOf(parse.items)
      <3>1. 1..last = 1..Len(said[c]) \cup {last}
        BY <1>2
      <3> HIDE DEF last
      <3> QED
        BY <1>2, <3>1
    <2> DEFINE all == UNION {KeysOf(said'[c][n].items) : n \in DOMAIN said'[c]}
    <2>4. \A k : k \in all <=> \E n \in 1..last : k \in KeysOf(said'[c][n].items)
      BY <1>2
    <2>5. \A k : k \in DOMAIN draft'[c].items <=>
                    k \in KeysOf(parse.items) \/ k \in DOMAIN draft[c].items
      BY <1>1, <1>3, <1>4
    <2>6. \A k : k \in DOMAIN draft'[c].items <=> k \in all
      BY <2>2, <2>3, <2>4, <2>5
    <2> HIDE DEF all
    <2> QED
      BY <2>6 DEF all
  <1>6. \A k \in DOMAIN new : LastSaying(c, k)' = last
    <2> TAKE k \in DOMAIN new
    <2> DEFINE S == {n \in DOMAIN said'[c] : k \in KeysOf(said'[c][n].items)}
    <2>1. S \in SUBSET Nat /\ last \in S /\ \A n \in S : n <= last
      BY <1>2, <1>4
    <2> HIDE DEF S
    <2>2. Max(S) = last
      BY <2>1, MaxIs
    <2> QED
      BY <2>2 DEF LastSaying, S
  <1>7. \A k : k \notin DOMAIN new => LastSaying(c, k)' = LastSaying(c, k)
    <2> SUFFICES ASSUME NEW k, k \notin DOMAIN new
                 PROVE  {n \in DOMAIN said'[c] : k \in KeysOf(said'[c][n].items)} =
                        {n \in DOMAIN said[c] : k \in KeysOf(said[c][n].items)}
      BY DEF LastSaying
    <2> QED
      BY <1>2, <1>4
  <1>8. Holds(c)'
    <2>1. \A k \in DOMAIN new : merged.items[k] =
             Snapshot(said'[c][LastSaying(c, k)'].items)[k]
      BY <1>2, <1>3, <1>6 DEF new
    <2>2. \A k \in DOMAIN draft[c].items \ DOMAIN new : merged.items[k] =
             Snapshot(said'[c][LastSaying(c, k)'].items)[k]
      <3> TAKE k \in DOMAIN draft[c].items \ DOMAIN new
      <3>1. draft[c].items[k] = Snapshot(said[c][LastSaying(c, k)].items)[k]
        BY <1>1 DEF Holds
      <3>2. LastSaying(c, k) \in 1..Len(said[c])
        BY <1>1, <1>2 DEF Holds
      <3> QED
        BY <1>2, <1>3, <1>7, <3>1, <3>2
    <2>3. \A k \in DOMAIN merged.items : LastSaying(c, k)' \in DOMAIN said'[c]
      <3>1. last \in DOMAIN said'[c] /\ DOMAIN said[c] \subseteq DOMAIN said'[c]
        BY <1>2
      <3> QED
        BY <1>1, <1>3, <1>6, <1>7, <3>1 DEF Holds
    <2> QED
      BY <1>1, <1>3, <1>5, <2>1, <2>2, <2>3 DEF Holds
  <1>9. AsReadLast(c)'
    <2> SUFFICES ASSUME placing'[c] # NoPlacing
                 PROVE  /\ placing'[c].request.items = Snapshot(said'[c][Len(said'[c])].items)
                        /\ \A k \in DOMAIN Snapshot(said'[c][Len(said'[c])].items) :
                              /\ k[1] \in Active
                              /\ Snapshot(said'[c][Len(said'[c])].items)[k] > 0
      BY DEF AsReadLast, Placing
    <2>1. placing[c] = NoPlacing
      BY <1>1 DEF Placing, Writer
    <2>2. IsReady(merged, Active) /\ BeginDraft(c, ToRequest(merged, SessionPhone[c]))
      BY <2>1 DEF Turn, merged
    <2>3. placing'[c].request = ToRequest(merged, SessionPhone[c])
      BY <2>1, <2>2, BeginIs DEF BookInv, Writer
    <2>4. placing'[c].request.items = merged.items
      BY <2>3 DEF ToRequest
    <2>5. merged.items = new /\ \A k \in DOMAIN new : k[1] \in Active /\ new[k] > 0
      BY <1>3, <2>2 DEF IsReady
    <2>6. Snapshot(said'[c][Len(said'[c])].items) = new
      BY <1>2 DEF new
    <2> QED
      BY <2>4, <2>5, <2>6
  <1> QED
    BY <1>8, <1>9

LEMMA TurnKeeps ==
    ASSUME BookInv, NEW c \in Conversation, NEW parse \in Parses, Turn(c, parse)
    PROVE  BookInv'
  <1>1. draft' = [draft EXCEPT ![c] = Merged(draft[c], parse)]
        /\ said' = [said EXCEPT ![c] = Append(said[c], parse)]
        /\ UNCHANGED orders
    BY DEF Turn
  <1>2. said' \in [Conversation -> Seq(Parses)]
    BY <1>1, AppendIs DEF BookInv
  <1>3. draft' = [b \in Conversation |-> draft'[b]]
    BY <1>1 DEF BookInv
  <1>4. /\ placing' = [w \in Writer |-> placing'[w]]
        /\ \A w \in Writer \ {c} : placing'[w] = placing[w]
    <2>1. CASE UNCHANGED placing
      BY <2>1 DEF BookInv
    <2>2. CASE \E request : BeginDraft(c, request)
      BY <2>2, BeginIs DEF BookInv, Writer
    <2> QED
      BY <2>1, <2>2 DEF Turn
  <1>5. \A b \in Conversation : (~HasOrder(b) => Holds(b) /\ AsReadLast(b))'
    <2> TAKE b \in Conversation
    <2>1. CASE b = c
      BY <2>1, TurnHolds
    <2>2. CASE b # c
      <3>1. draft'[b] = draft[b] /\ said'[b] = said[b] /\ placing'[b] = placing[b]
        BY <1>1, <1>4, <2>2 DEF BookInv, Writer
      <3> QED
        BY <1>1, <3>1, RecordsStay, Untouched DEF BookInv
    <2> QED
      BY <2>1, <2>2
  <1> QED
    BY <1>1, <1>2, <1>3, <1>4, <1>5, RecordsStay DEF BookInv, OrdersAreRecords

LEMMA PageKeeps ==
    ASSUME BookInv, NEW p \in Page,
           \/ \E form \in Forms : FillForm(p, form)
           \/ \E parse \in Parses, phone \in TypedPhones : ReviewParse(p, parse, phone)
    PROVE  BookInv'
  <1>1. PICK request : BeginDraft(p, request)
    BY DEF FillForm, ReviewParse
  <1>2. UNCHANGED <<draft, said, orders>>
    BY DEF FillForm, ReviewParse
  <1>3. /\ placing' = [w \in Writer |-> placing'[w]]
        /\ \A w \in Writer \ {p} : placing'[w] = placing[w]
    BY <1>1, BeginIs DEF BookInv, Writer
  <1>4. \A c \in Conversation : placing'[c] = placing[c]
    BY <1>3 DEF Writer
  <1>5. \A c \in Conversation : (~HasOrder(c) => Holds(c) /\ AsReadLast(c))'
    BY <1>2, <1>4, RecordsStay, Untouched DEF BookInv
  <1> QED
    BY <1>2, <1>3, <1>5 DEF BookInv, OrdersAreRecords

\* Orders that are added or move on are still there.
LEMMA AddedIs ==
    ASSUME OrdersAreRecords, NEW order, "conversation" \in DOMAIN order,
           orders' = Append(orders, order)
    PROVE  /\ OrdersAreRecords'
           /\ \A c \in Conversation : HasOrder(c) => HasOrder(c)'
           /\ \A c \in Conversation : order.conversation = c => HasOrder(c)'
           /\ \A i \in DOMAIN orders' :
                 (i \in DOMAIN orders /\ orders'[i] = orders[i]) \/ orders'[i] = order
  <1>1. PICK S : orders \in Seq(S) /\ \A o \in S : "conversation" \in DOMAIN o
    BY DEF OrdersAreRecords
  <1> DEFINE T == S \cup {order}
  <1>2. orders \in Seq(T) /\ order \in T /\ \A o \in T : "conversation" \in DOMAIN o
    BY <1>1
  <1> HIDE DEF T
  <1>3. /\ orders' \in Seq(T)
        /\ DOMAIN orders' = 1..(Len(orders) + 1)
        /\ DOMAIN orders = 1..Len(orders)
        /\ Len(orders) \in Nat
        /\ \A i \in 1..Len(orders) : orders'[i] = orders[i]
        /\ orders'[Len(orders) + 1] = order
    BY <1>2, AppendIs
  <1>4. OrdersAreRecords'
    BY <1>2, <1>3 DEF OrdersAreRecords
  <1>5. DOMAIN orders \subseteq DOMAIN orders' /\ Len(orders) + 1 \in DOMAIN orders'
    BY <1>3
  <1>6. /\ \A c \in Conversation : HasOrder(c) => HasOrder(c)'
        /\ \A c \in Conversation : order.conversation = c => HasOrder(c)'
    BY <1>3, <1>5 DEF HasOrder
  <1>7. \A i \in DOMAIN orders' :
           (i \in DOMAIN orders /\ orders'[i] = orders[i]) \/ orders'[i] = order
    BY <1>3
  <1> QED
    BY <1>4, <1>6, <1>7, Zenon

LEMMA MovedIs ==
    ASSUME OrdersAreRecords, NEW i \in DOMAIN orders, NEW to,
           orders' = [orders EXCEPT ![i].status = to]
    PROVE  /\ OrdersAreRecords'
           /\ \A c \in Conversation : HasOrder(c) => HasOrder(c)'
           /\ DOMAIN orders' = DOMAIN orders
           /\ orders'[i] = [orders[i] EXCEPT !.status = to]
           /\ \A k \in DOMAIN orders : k # i => orders'[k] = orders[k]
  <1>1. PICK S : orders \in Seq(S) /\ \A o \in S : "conversation" \in DOMAIN o
    BY DEF OrdersAreRecords
  <1> DEFINE order == [orders[i] EXCEPT !.status = to]
             T == S \cup {order}
  <1>2. "conversation" \in DOMAIN orders[i]
    BY <1>1
  <1>3. /\ "conversation" \in DOMAIN order
        /\ order.conversation = orders[i].conversation
    BY <1>2
  <1>4. orders' = [orders EXCEPT ![i] = order]
    OBVIOUS
  <1> HIDE DEF order
  <1>5. orders \in Seq(T) /\ order \in T /\ \A o \in T : "conversation" \in DOMAIN o
    BY <1>1, <1>3
  <1> HIDE DEF T
  <1>6. /\ orders' \in Seq(T)
        /\ DOMAIN orders' = DOMAIN orders
        /\ \A k \in DOMAIN orders : orders'[k] = IF k = i THEN order ELSE orders[k]
    <2>1. DOMAIN orders = 1..Len(orders) /\ i \in 1..Len(orders)
      BY <1>5
    <2>2. /\ orders' \in Seq(T)
          /\ Len(orders') = Len(orders)
          /\ \A k \in 1..Len(orders) : orders'[k] = IF k = i THEN order ELSE orders[k]
      <3> DEFINE new == [orders EXCEPT ![i] = order]
      <3>1. /\ new \in Seq(T)
            /\ Len(new) = Len(orders)
            /\ \A k \in 1..Len(orders) : new[k] = IF k = i THEN order ELSE orders[k]
        <4>1. orders \in Seq(T) /\ order \in T
          BY <1>5
        <4> QED
          BY <2>1, <4>1, ExceptSeq
      <3>2. orders' = new
        BY <1>4
      <3> HIDE DEF new
      <3> QED
        BY <3>1, <3>2
    <2>3. DOMAIN orders' = 1..Len(orders')
      BY <2>2
    <2> QED
      BY <2>1, <2>2, <2>3
  <1>7. OrdersAreRecords'
    BY <1>5, <1>6 DEF OrdersAreRecords
  <1>8. \A c \in Conversation : HasOrder(c) => HasOrder(c)'
    BY <1>3, <1>6 DEF HasOrder
  <1>9. orders'[i] = [orders[i] EXCEPT !.status = to]
    BY <1>6 DEF order
  <1> QED
    BY <1>6, <1>7, <1>8, <1>9

LEMMA CreateKeeps ==
    ASSUME BookInv, NEW w \in Writer, CreateOrder(w)
    PROVE  BookInv'
  <1>1. /\ orders' = Append(orders, NewOrder(w))
        /\ placing' = [placing EXCEPT ![w] = NoPlacing]
        /\ said' = IF w \in Conversation THEN [said EXCEPT ![w] = <<>>] ELSE said
        /\ draft' = draft
    BY DEF CreateOrder
  <1>2. /\ "conversation" \in DOMAIN NewOrder(w)
        /\ w \in Conversation => NewOrder(w).conversation = w
    BY DEF NewOrder
  <1>3. /\ OrdersAreRecords'
        /\ \A c \in Conversation : HasOrder(c) => HasOrder(c)'
        /\ w \in Conversation => HasOrder(w)'
    BY <1>1, <1>2, AddedIs DEF BookInv
  <1>4. /\ said' \in [Conversation -> Seq(Parses)]
        /\ placing' = [v \in Writer |-> placing'[v]]
        /\ \A v \in Writer : placing'[v] \in {placing[v], NoPlacing}
    <2>1. said' \in [Conversation -> Seq(Parses)]
      <3>1. <<>> \in Seq(Parses)
        OBVIOUS
      <3> QED
        BY <1>1, <3>1 DEF BookInv
    <2>2. /\ placing' = [v \in Writer |-> placing'[v]]
          /\ \A v \in Writer : placing'[v] \in {placing[v], NoPlacing}
      BY <1>1 DEF BookInv
    <2> QED
      BY <2>1, <2>2
  <1>5. \A c \in Conversation : (~HasOrder(c) => Holds(c) /\ AsReadLast(c))'
    <2> TAKE c \in Conversation
    <2>1. CASE c = w
      BY <1>3, <2>1
    <2>2. CASE c # w
      <3>1. said'[c] = said[c] /\ placing'[c] \in {placing[c], NoPlacing} /\ draft'[c] = draft[c]
        BY <1>1, <1>4, <2>2 DEF BookInv, Writer
      <3> QED
        BY <1>3, <3>1, Untouched DEF BookInv
    <2> QED
      BY <2>1, <2>2
  <1> QED
    BY <1>1, <1>3, <1>4, <1>5 DEF BookInv

LEMMA OthersKeep ==
    ASSUME BookInv,
           \/ \E w \in Writer : FailToCreate(w)
           \/ \E i \in DOMAIN orders, to \in OrderStatus : Progress(i, to)
           \/ Advance
           \/ UNCHANGED vars
    PROVE  BookInv'
  <1>1. UNCHANGED <<draft, said>>
    BY DEF FailToCreate, Progress, Advance, vars
  <1>2. OrdersAreRecords' /\ \A c \in Conversation : HasOrder(c) => HasOrder(c)'
    <2>1. CASE \E i \in DOMAIN orders, to \in OrderStatus : Progress(i, to)
      BY <2>1, MovedIs DEF Progress, BookInv
    <2>2. CASE UNCHANGED orders
      BY <2>2, RecordsStay DEF BookInv, OrdersAreRecords
    <2> QED
      BY <2>1, <2>2 DEF FailToCreate, Advance, vars
  <1>3. /\ placing' = [w \in Writer |-> placing'[w]]
        /\ \A w \in Writer : placing'[w] \in {placing[w], NoPlacing}
    BY DEF BookInv, FailToCreate, Progress, Advance, vars
  <1>4. \A c \in Conversation : (~HasOrder(c) => Holds(c) /\ AsReadLast(c))'
    BY <1>1, <1>2, <1>3, Untouched DEF BookInv, Writer
  <1> QED
    BY <1>1, <1>2, <1>3, <1>4 DEF BookInv

\* Nothing that was ever read in a conversation is forgotten or changed but by a
\* later reading, and what becomes an order is the last reading of the whole
\* transcript, complete and of products that are for sale
\* (services/accumulated_draft_merge.py:42-158,
\* services/conversation_advancement.py:384-430).
THEOREM DraftIsWhatWasSaidAlways == Spec => []DraftIsWhatWasSaid
  <1>1. BookInv /\ [Next]_vars => BookInv'
    BY TurnKeeps, PageKeeps, CreateKeeps, OthersKeep DEF Next
  <1>2. BookInv => DraftIsWhatWasSaid
    BY DEF BookInv, Holds, AsReadLast, DraftIsWhatWasSaid
  <1> QED
    BY <1>1, <1>2, BookInvInit, PTL DEF Spec

----------------------------------------------------------------------------
(* What the book holds *)

IsRequest(request) ==
    /\ DOMAIN request.items \in SUBSET ItemKey /\ IsFiniteSet(DOMAIN request.items)
    /\ \A k \in DOMAIN request.items : request.items[k] \in Int
    /\ request.phone \in Phone \cup {NoPhone}
    /\ request.packaging_fee \in Int

\* What create_draft was asked for and has checked, and the customer it found.
IsPlaced(call) ==
    /\ PositiveItems(call.request) # {} /\ IsFiniteSet(PositiveItems(call.request))
    /\ \A k \in PositiveItems(call.request) :
          /\ k \in ItemKey /\ k[1] \in Product
          /\ call.request.items[k] \in Nat \ {0}
    /\ call.request.packaging_fee \in Int
    /\ call.request.phone \in Phone \cup {NoPhone}
    /\ call.customer \in 0..Len(customers)
    /\ call.customer # 0 =>
          /\ call.request.phone # NoPhone
          /\ customers[call.customer] = Canonical[call.request.phone]

\* An order as NewOrder writes it.
Shaped(order) ==
    order = [created_at |-> order.created_at, status |-> order.status,
             conversation |-> order.conversation, customer |-> order.customer,
             phone |-> order.phone, items |-> order.items,
             packaging_fee |-> order.packaging_fee, total |-> order.total]

IsLinked(order) == order.customer # 0 => customers[order.customer] = order.phone

\* What it costs, and of which products.
IsPriced(order) ==
    /\ IsFiniteSet(DOMAIN order.items)
    /\ \A k \in DOMAIN order.items : k[1] \in Product
    /\ order.packaging_fee \in Int
    /\ order.total = Subtotal(order.items) + order.packaging_fee

IsBooked(order) == Shaped(order) /\ IsOrder(order) /\ IsLinked(order) /\ IsPriced(order)

IsDraft(d) ==
    /\ d.conflicts \subseteq DOMAIN d.items
    /\ DOMAIN d.items \subseteq ItemKey /\ IsFiniteSet(DOMAIN d.items)
    /\ \A k \in DOMAIN d.items : d.items[k] \in Int
    /\ d.phone \in Phone \cup {NoPhone}
    /\ d.packaging_fee \in Int

\* The records of a phone, and the calls that will add another one.
Records(phone) == {i \in DOMAIN customers : customers[i] = phone}

Bringing(phone) ==
    {w \in Writer : NeedsCustomer(w) /\ Canonical[placing[w].request.phone] = phone}

\* Phones are written down as they are compared.
CustomersInv ==
    /\ customers \in Seq(Phone)
    /\ \A i \in DOMAIN customers : Canonical[customers[i]] = customers[i]

DraftsInv == \A c \in Conversation : IsDraft(draft[c]) /\ Len(said[c]) <= MaxTurns

OrdersInv == \A i \in DOMAIN orders : IsBooked(orders[i])

PastInv == \A i \in DOMAIN orders : orders[i].created_at <= now

PlacingInv == \A w \in Writer : placing[w] = NoPlacing \/ IsPlaced(placing[w])

\* A record that a call is about to add counts as one that is there.
RacesInv ==
    \A phone \in Phone :
        Cardinality(Records(phone)) + Cardinality(Bringing(phone)) <= Cardinality(Writer)

DataInv ==
    /\ now \in Instants
    /\ BookInv /\ CustomersInv /\ DraftsInv /\ OrdersInv /\ PlacingInv /\ RacesInv
    /\ PastInv

LEMMA SnapshotIs ==
    ASSUME NEW raw \in Seq(RawItem)
    PROVE  /\ KeysOf(raw) \in SUBSET ItemKey /\ IsFiniteSet(KeysOf(raw))
           /\ \A k \in KeysOf(raw) : Snapshot(raw)[k] \in Int
  <1>1. /\ DOMAIN raw = 1..Len(raw) /\ Len(raw) \in Nat
        /\ \A i \in DOMAIN raw : raw[i] \in RawItem
    OBVIOUS
  <1>2. KeysOf(raw) \in SUBSET ItemKey
    BY <1>1 DEF KeysOf, Key, RawItem, ItemKey
  <1>0. IsFiniteSet(KeysOf(raw))
    <2> DEFINE keys == [i \in DOMAIN raw |-> Key(raw[i])]
    <2>1. keys \in Surjection(DOMAIN raw, KeysOf(raw))
      BY DEF Surjection, KeysOf
    <2>2. IsFiniteSet(DOMAIN raw)
      <3>1. Len(raw) \in Nat /\ DOMAIN raw \in SUBSET (1..Len(raw))
        BY <1>1
      <3> QED
        BY <3>1, RowsAreFinite
    <2> HIDE DEF keys
    <2> QED
      BY <2>1, <2>2, FS_Surjection
  <1>3. ASSUME NEW k \in KeysOf(raw) PROVE Snapshot(raw)[k] \in Int
    <2> DEFINE quantities == [i \in DOMAIN raw |-> raw[i].quantity]
               same == {i \in DOMAIN raw : Key(raw[i]) = k}
    <2>1. same \in SUBSET (1..Len(raw)) /\ \A i \in same : quantities[i] \in Int
      BY <1>1 DEF RawItem
    <2>2. Snapshot(raw)[k] = SumFunctionOnSet(quantities, same)
      BY DEF Snapshot
    <2> HIDE DEF quantities, same
    <2>3. IsFiniteSet(same)
      <3>1. Len(raw) \in Nat
        BY <1>1
      <3> QED
        BY <2>1, <3>1, RowsAreFinite
    <2>4. Sum(quantities, same) \in Int
      BY <2>1, <2>3, SumIsNumber
    <2> QED
      BY <2>2, <2>4 DEF Sum
  <1> QED
    BY <1>2, <1>0, <1>3

\* What a conversation and what a page asks create_draft for.
LEMMA TurnAsks ==
    ASSUME NEW c \in Conversation, NEW parse \in Parses, IsDraft(draft[c])
    PROVE  /\ IsDraft(Merged(draft[c], parse))
           /\ IsRequest(ToRequest(Merged(draft[c], parse), SessionPhone[c]))
  <1> DEFINE new == Snapshot(parse.items)
             merged == Merged(draft[c], parse)
  <1>1. /\ DOMAIN new \in SUBSET ItemKey /\ IsFiniteSet(DOMAIN new)
        /\ \A k \in DOMAIN new : new[k] \in Int
        /\ parse.phone \in Phone \cup {NoPhone} /\ parse.packaging_fee \in Int
    BY InputAssumption, SnapshotIs, KeysAreDomain
  <1>2. /\ DOMAIN merged.items = DOMAIN new \cup DOMAIN draft[c].items
        /\ \A k \in DOMAIN new : merged.items[k] = new[k]
        /\ \A k \in DOMAIN draft[c].items \ DOMAIN new : merged.items[k] = draft[c].items[k]
    BY MergedIs
  <1>3. /\ merged.conflicts = DOMAIN draft[c].items \ DOMAIN new
        /\ merged.phone = IF parse.phone = NoPhone THEN draft[c].phone ELSE parse.phone
        /\ merged.packaging_fee = IF parse.packaging_fee = 0 THEN draft[c].packaging_fee
                                  ELSE parse.packaging_fee
    BY DEF Merged
  <1> HIDE DEF new, merged
  <1>0. IsFiniteSet(DOMAIN merged.items)
    <2>1. IsFiniteSet(DOMAIN draft[c].items)
      BY DEF IsDraft
    <2>2. IsFiniteSet(DOMAIN new \cup DOMAIN draft[c].items)
      BY <1>1, <2>1, FS_Union
    <2> QED
      BY <1>2, <2>2
  <1>4. IsDraft(merged)
    BY <1>1, <1>0, <1>2, <1>3 DEF IsDraft
  <1>5. IsRequest(ToRequest(merged, SessionPhone[c]))
    BY <1>4 DEF IsDraft, IsRequest, ToRequest
  <1> QED
    BY <1>4, <1>5 DEF merged

LEMMA PageAsks ==
    ASSUME NEW p \in Page,
           \/ \E form \in Forms : FillForm(p, form)
           \/ \E parse \in Parses, phone \in TypedPhones : ReviewParse(p, parse, phone)
    PROVE  \E request : IsRequest(request) /\ BeginDraft(p, request)
  <1>1. CASE \E form \in Forms : FillForm(p, form)
    <2>1. PICK form \in Forms : BeginDraft(p, form)
      BY <1>1 DEF FillForm
    <2>2. IsRequest(form)
      BY InputAssumption DEF IsRequest
    <2> QED
      BY <2>1, <2>2
  <1>2. CASE \E parse \in Parses, phone \in TypedPhones : ReviewParse(p, parse, phone)
    <2>1. PICK parse \in Parses, phone \in TypedPhones :
             BeginDraft(p, [items |-> Candidate(parse.items), phone |-> phone,
                            packaging_fee |-> 0])
      BY <1>2 DEF ReviewParse
    <2> DEFINE items == Candidate(parse.items)
               new == Snapshot(parse.items)
    <2>2. /\ DOMAIN new \in SUBSET ItemKey /\ \A k \in DOMAIN new : new[k] \in Int
          /\ IsFiniteSet(DOMAIN new)
      BY InputAssumption, SnapshotIs, KeysAreDomain
    <2>3. /\ DOMAIN items \in SUBSET DOMAIN new
          /\ \A k \in DOMAIN items : items[k] = new[k]
      BY DEF Candidate
    <2> HIDE DEF items, new
    <2>4. phone \in Phone \cup {NoPhone}
      BY InputAssumption
    <2>0. IsFiniteSet(DOMAIN items)
      BY <2>2, <2>3, FS_Subset
    <2>5. IsRequest([items |-> items, phone |-> phone, packaging_fee |-> 0])
      BY <2>0, <2>2, <2>3, <2>4 DEF IsRequest
    <2> QED
      BY <2>1, <2>5 DEF items
  <1> QED
    BY <1>1, <1>2

\* A call that begins has checked its items, and needs a customer only if there
\* is no record of its phone.
LEMMA BegunIs ==
    ASSUME CustomersInv, NEW w \in Writer, NEW request, IsRequest(request),
           BeginDraft(w, request), placing = [v \in Writer |-> placing[v]]
    PROVE  \/ placing'[w] = placing[w]
           \/ /\ IsPlaced(placing'[w])
              /\ placing'[w].request = request
              /\ placing'[w].customer = 0 => Found(request.phone) = {}
  <1> SUFFICES ASSUME placing'[w] # placing[w]
               PROVE  /\ IsPlaced(placing'[w])
                      /\ placing'[w].request = request
                      /\ placing'[w].customer = 0 => Found(request.phone) = {}
    OBVIOUS
  <1>1. ~IsRefused(request)
    BY DEF BeginDraft
  <1>2. PICK c \in IF Found(request.phone) = {} THEN {0} ELSE Found(request.phone) :
           placing' = [placing EXCEPT ![w] = [request |-> request, customer |-> c]]
    BY <1>1 DEF BeginDraft
  <1>3. placing'[w] = [request |-> request, customer |-> c]
    BY <1>2
  <1>4. /\ PositiveItems(request) # {}
        /\ \A k \in PositiveItems(request) :
              /\ k \in ItemKey /\ k[1] \in Product
              /\ request.items[k] \in Nat \ {0}
    BY <1>1 DEF IsRefused, PositiveItems, IsRequest
  <1>0. IsFiniteSet(PositiveItems(request)) /\ request.packaging_fee \in Int
    <2>1. PositiveItems(request) \in SUBSET DOMAIN request.items
      BY DEF PositiveItems
    <2> QED
      BY <2>1, FS_Subset DEF IsRequest
  <1>5. DOMAIN customers = 1..Len(customers) /\ Len(customers) \in Nat
    BY DEF CustomersInv
  <1>6. c # 0 => /\ c \in DOMAIN customers /\ request.phone # NoPhone
                 /\ customers[c] = Canonical[request.phone]
    BY <1>2 DEF Found, CustomersInv
  <1>7. c = 0 => Found(request.phone) = {}
    BY <1>2, <1>5 DEF Found
  <1>8. request.phone \in Phone \cup {NoPhone}
    BY DEF IsRequest
  <1>9. c \in 0..Len(customers)
    BY <1>5, <1>6
  <1> QED
    BY <1>3, <1>4, <1>0, <1>6, <1>7, <1>8, <1>9 DEF IsPlaced

\* What a step does to the records of a phone and the calls for it, and why the
\* count of both stays within the number of those who call.
LEMMA Counted ==
    ASSUME NEW R, NEW B \in SUBSET Writer, NEW S, NEW C \in SUBSET Writer,
           IsFiniteSet(R), Cardinality(R) + Cardinality(B) <= Cardinality(Writer),
           \/ S = {}
           \/ S = R /\ C \subseteq B
           \/ \E n : \E w \in B : S = R \cup {n} /\ C \subseteq B \ {w}
    PROVE  Cardinality(S) + Cardinality(C) <= Cardinality(Writer)
  <1>1. /\ IsFiniteSet(B) /\ IsFiniteSet(C) /\ IsFiniteSet(Writer)
        /\ Cardinality(B) \in Nat /\ Cardinality(C) \in Nat
        /\ Cardinality(C) <= Cardinality(Writer)
        /\ Cardinality(R) \in Nat /\ Cardinality(Writer) \in Nat
    BY FS_Subset, FS_CardinalityType
  <1>2. CASE S = {}
    <2>1. Cardinality(S) = 0
      BY <1>2, FS_EmptySet
    <2> QED
      BY <1>1, <2>1
  <1>3. CASE S = R /\ C \subseteq B
    <2>1. Cardinality(C) <= Cardinality(B)
      BY <1>1, <1>3, FS_Subset
    <2> QED
      BY <1>1, <1>3, <2>1
  <1>4. CASE \E n : \E w \in B : S = R \cup {n} /\ C \subseteq B \ {w}
    <2>1. PICK n : \E w \in B : S = R \cup {n} /\ C \subseteq B \ {w}
      BY <1>4
    <2> PICK w \in B : S = R \cup {n} /\ C \subseteq B \ {w}
      BY <2>1
    <2>2. /\ IsFiniteSet(B \ {w}) /\ Cardinality(B \ {w}) = Cardinality(B) - 1
      BY <1>1, FS_RemoveElement
    <2>3. Cardinality(C) <= Cardinality(B) - 1
      BY <2>2, FS_Subset
    <2>4. Cardinality(S) <= Cardinality(R) + 1 /\ Cardinality(S) \in Nat
      <3>1. Cardinality(R \cup {n}) \in {Cardinality(R), Cardinality(R) + 1}
        BY FS_AddElement
      <3> QED
        BY <1>1, <3>1
    <2> QED
      BY <1>1, <2>3, <2>4
  <1> QED
    BY <1>2, <1>3, <1>4

LEMMA BeginKeeps ==
    ASSUME CustomersInv, PlacingInv, RacesInv, NEW w \in Writer, NEW request,
           IsRequest(request), BeginDraft(w, request), UNCHANGED customers,
           placing = [v \in Writer |-> placing[v]]
    PROVE  PlacingInv' /\ RacesInv'
  <1>1. \A v \in Writer \ {w} : placing'[v] = placing[v]
    BY BeginIs
  <1>2. \/ placing'[w] = placing[w]
        \/ /\ IsPlaced(placing'[w])
           /\ placing'[w].request = request
           /\ placing'[w].customer = 0 => Found(request.phone) = {}
    BY BegunIs
  <1>3. PlacingInv'
    <2>1. \A v \in Writer : placing'[v] = NoPlacing \/ IsPlaced(placing'[v])
      BY <1>1, <1>2 DEF PlacingInv
    <2> QED
      BY <2>1 DEF PlacingInv, IsPlaced
  <1>4. RacesInv'
    <2> SUFFICES ASSUME NEW phone \in Phone
                 PROVE  (Cardinality(Records(phone)) + Cardinality(Bringing(phone))
                            <= Cardinality(Writer))'
      BY DEF RacesInv
    <2>1. Records(phone)' = Records(phone) /\ IsFiniteSet(Records(phone))
      <3>1. DOMAIN customers = 1..Len(customers) /\ Len(customers) \in Nat
        BY DEF CustomersInv
      <3>2. Records(phone) \in SUBSET (1..Len(customers))
        BY <3>1 DEF Records
      <3>3. IsFiniteSet(Records(phone))
        BY <3>1, <3>2, RowsAreFinite
      <3> QED
        BY <3>3 DEF Records
    <2>2. Bringing(phone)' \subseteq Bringing(phone) \/ Records(phone) = {}
      <3>1. \A v \in Writer \ {w} : v \in Bringing(phone)' => v \in Bringing(phone)
        BY <1>1 DEF Bringing, NeedsCustomer
      <3>2. w \in Bringing(phone)' => w \in Bringing(phone) \/ Records(phone) = {}
        <4> SUFFICES ASSUME w \in Bringing(phone)', w \notin Bringing(phone)
                     PROVE  Records(phone) = {}
          OBVIOUS
        <4>1. placing'[w] # placing[w]
          BY DEF Bringing, NeedsCustomer
        <4>2. /\ Found(request.phone) = {} /\ request.phone # NoPhone
              /\ Canonical[request.phone] = phone
          BY <1>2, <4>1 DEF Bringing, NeedsCustomer
        <4>3. request.phone \in Phone
          BY <4>2 DEF IsRequest
        <4>4. \A i \in DOMAIN customers : Canonical[customers[i]] # phone
          BY <4>2 DEF Found
        <4> QED
          BY <4>2, <4>3, <4>4 DEF Records, CustomersInv
      <3>3. Bringing(phone)' \in SUBSET Writer
        BY DEF Bringing
      <3> QED
        BY <3>1, <3>2, <3>3
    <2>3. /\ Bringing(phone) \in SUBSET Writer /\ Bringing(phone)' \in SUBSET Writer
          /\ Cardinality(Records(phone)) + Cardinality(Bringing(phone)) <= Cardinality(Writer)
      BY DEF RacesInv, Bringing
    <2> QED
      BY <2>1, <2>2, <2>3, Counted
  <1> QED
    BY <1>3, <1>4

\* The record of a customer is added at the end; the others are as they were.
LEMMA CustomersGrow ==
    ASSUME CustomersInv, PlacingInv, NEW w \in Writer,
           customers' = customers \/ customers' = WithCustomer(w)
    PROVE  /\ CustomersInv'
           /\ Len(customers) \in Nat /\ DOMAIN customers = 1..Len(customers)
           /\ Len(customers') \in Nat /\ DOMAIN customers' = 1..Len(customers')
           /\ Len(customers) <= Len(customers')
           /\ \A i \in 1..Len(customers) : customers'[i] = customers[i]
           /\ customers' # customers =>
                 /\ NeedsCustomer(w) /\ placing[w].request.phone \in Phone
                 /\ Len(customers') = Len(customers) + 1
                 /\ customers'[Len(customers) + 1] = Canonical[placing[w].request.phone]
  <1>1. CASE customers' = customers
    BY <1>1 DEF CustomersInv
  <1>2. CASE customers' # customers
    <2>1. NeedsCustomer(w) /\ customers' = Append(customers, Canonical[placing[w].request.phone])
      BY <1>2 DEF WithCustomer
    <2>2. placing[w].request.phone \in Phone
      <3>1. placing[w].request.phone # NoPhone
        BY <2>1 DEF NeedsCustomer
      <3>2. placing[w] # NoPlacing
        BY <3>1 DEF NoPlacing, NoRequest, ToRequest, NoDraft
      <3> QED
        BY <3>1, <3>2 DEF PlacingInv, IsPlaced
    <2> DEFINE phone == Canonical[placing[w].request.phone]
    <2>3. phone \in Phone /\ Canonical[phone] = phone
      BY <2>2
    <2> HIDE DEF phone
    <2>4. /\ customers' \in Seq(Phone)
          /\ Len(customers') = Len(customers) + 1 /\ Len(customers) \in Nat
          /\ DOMAIN customers = 1..Len(customers)
          /\ DOMAIN customers' = 1..(Len(customers) + 1)
          /\ \A i \in 1..Len(customers) : customers'[i] = customers[i]
          /\ customers'[Len(customers) + 1] = phone
      BY <2>1, <2>3, AppendIs DEF CustomersInv, phone
    <2>5. CustomersInv'
      BY <2>3, <2>4 DEF CustomersInv
    <2>6. phone = Canonical[placing[w].request.phone]
      BY DEF phone
    <2>7. DOMAIN customers' = 1..Len(customers') /\ Len(customers') \in Nat
      BY <2>4
    <2>8. customers'[Len(customers) + 1] = Canonical[placing[w].request.phone]
      BY <2>4, <2>6
    <2>9. Len(customers) <= Len(customers') /\ Len(customers') = Len(customers) + 1
      BY <2>4
    <2> HIDE DEF phone
    <2> QED
      BY <2>1, <2>2, <2>4, <2>5, <2>7, <2>8, <2>9
  <1> QED
    BY <1>1, <1>2

\* A call that ends, with the customer or without, leaves a record where it
\* would have added one, or nothing.
LEMMA EndKeeps ==
    ASSUME CustomersInv, PlacingInv, RacesInv, NEW w \in Writer,
           customers' = customers \/ customers' = WithCustomer(w),
           placing' = [placing EXCEPT ![w] = NoPlacing],
           placing = [v \in Writer |-> placing[v]]
    PROVE  CustomersInv' /\ PlacingInv' /\ RacesInv'
  <1>1. /\ CustomersInv'
        /\ Len(customers) \in Nat /\ DOMAIN customers = 1..Len(customers)
        /\ Len(customers') \in Nat /\ DOMAIN customers' = 1..Len(customers')
        /\ Len(customers) <= Len(customers')
        /\ \A i \in 1..Len(customers) : customers'[i] = customers[i]
        /\ customers' # customers =>
              /\ NeedsCustomer(w) /\ placing[w].request.phone \in Phone
              /\ Len(customers') = Len(customers) + 1
              /\ customers'[Len(customers) + 1] = Canonical[placing[w].request.phone]
    BY CustomersGrow
  <1>2. placing'[w] = NoPlacing /\ \A v \in Writer \ {w} : placing'[v] = placing[v]
    OBVIOUS
  <1>3. PlacingInv'
    <2> SUFFICES ASSUME NEW v \in Writer, placing'[v] # NoPlacing
                 PROVE  IsPlaced(placing[v])'
      BY <1>2 DEF PlacingInv
    <2>1. placing'[v] = placing[v] /\ IsPlaced(placing[v])
      BY <1>2 DEF PlacingInv
    <2> DEFINE call == placing[v]
    <2>2. /\ call.customer \in 0..Len(customers')
          /\ call.customer # 0 => customers'[call.customer] = customers[call.customer]
      <3>1. call.customer \in 0..Len(customers)
        BY <2>1 DEF IsPlaced
      <3>2. /\ Len(customers) \in Nat /\ Len(customers') \in Nat
            /\ Len(customers) <= Len(customers')
            /\ \A i \in 1..Len(customers) : customers'[i] = customers[i]
        BY <1>1
      <3> HIDE MergeAssumption, BookAssumption DEF call
      <3>3. call.customer \in 0..Len(customers')
        BY <3>1, <3>2
      <3>4. call.customer # 0 => call.customer \in 1..Len(customers)
        BY <3>1, <3>2
      <3> QED
        BY <3>2, <3>3, <3>4
    <2>3. /\ PositiveItems(call.request) # {} /\ IsFiniteSet(PositiveItems(call.request))
          /\ call.request.packaging_fee \in Int
          /\ \A k \in PositiveItems(call.request) :
                /\ k \in ItemKey /\ k[1] \in Product
                /\ call.request.items[k] \in Nat \ {0}
          /\ call.request.phone \in Phone \cup {NoPhone}
          /\ call.customer # 0 =>
                /\ call.request.phone # NoPhone
                /\ customers[call.customer] = Canonical[call.request.phone]
      BY <2>1 DEF IsPlaced
    <2> HIDE DEF call
    <2>4. call = placing'[v]
      BY <2>1 DEF call
    <2> QED
      BY <2>2, <2>3, <2>4 DEF IsPlaced
  <1>4. RacesInv'
    <2> SUFFICES ASSUME NEW phone \in Phone
                 PROVE  (Cardinality(Records(phone)) + Cardinality(Bringing(phone))
                            <= Cardinality(Writer))'
      BY DEF RacesInv
    <2>1. IsFiniteSet(Records(phone))
      <3>1. Len(customers) \in Nat
        BY <1>1
      <3>2. Records(phone) \in SUBSET (1..Len(customers))
        BY <1>1 DEF Records
      <3> QED
        BY <3>1, <3>2, RowsAreFinite
    <2>2. ~NeedsCustomer(w)'
      BY <1>2 DEF NeedsCustomer, NoPlacing, NoRequest, ToRequest, NoDraft
    <2>3. Bringing(phone)' \subseteq Bringing(phone) \ {w}
      BY <1>2, <2>2 DEF Bringing, NeedsCustomer
    <2>4. \/ Records(phone)' = Records(phone)
          \/ /\ Records(phone)' = Records(phone) \cup {Len(customers) + 1}
             /\ w \in Bringing(phone)
      <3>1. CASE customers' = customers
        BY <3>1 DEF Records
      <3>2. CASE customers' # customers
        <4>1. \A i : i \in Records(phone)' <=>
                 \/ i \in Records(phone)
                 \/ i = Len(customers) + 1 /\ Canonical[placing[w].request.phone] = phone
          BY <1>1, <3>2 DEF Records
        <4>2. CASE Canonical[placing[w].request.phone] = phone
          <5>1. w \in Bringing(phone)
            BY <1>1, <3>2, <4>2 DEF Bringing
          <5>2. Records(phone)' = Records(phone) \cup {Len(customers) + 1}
            BY <4>1, <4>2
          <5> QED
            BY <5>1, <5>2
        <4>3. CASE Canonical[placing[w].request.phone] # phone
          BY <4>1, <4>3
        <4> QED
          BY <4>2, <4>3
      <3> QED
        BY <3>1, <3>2
    <2>5. /\ Bringing(phone) \in SUBSET Writer /\ Bringing(phone)' \in SUBSET Writer
          /\ Cardinality(Records(phone)) + Cardinality(Bringing(phone)) <= Cardinality(Writer)
      BY DEF RacesInv, Bringing
    <2>6. \/ Records(phone)' = Records(phone) /\ Bringing(phone)' \subseteq Bringing(phone)
          \/ \E n : \E v \in Bringing(phone) :
                /\ Records(phone)' = Records(phone) \cup {n}
                /\ Bringing(phone)' \subseteq Bringing(phone) \ {v}
      BY <2>3, <2>4
    <2> QED
      BY <2>1, <2>5, <2>6, Counted
  <1> QED
    BY <1>1, <1>3, <1>4

----------------------------------------------------------------------------
(* Orders *)

\* The order a call writes has a line for every item that was checked, and goes
\* to the customer with its phone.
LEMMA OrderIs ==
    ASSUME now \in Instants, NEW w \in Writer, IsPlaced(placing[w]), NEW order,
           order = NewOrder(w), Len(customers) \in Nat
    PROVE  /\ Shaped(order)
           /\ order.created_at \in Instants /\ order.status \in OrderStatus
           /\ order.conversation \in Conversation \cup {NoConversation}
           /\ order.customer = IF NeedsCustomer(w) THEN Len(customers) + 1
                               ELSE placing[w].customer
           /\ (order.customer = 0) <=> (order.phone = NoPhone)
           /\ order.customer # 0 => order.phone = Canonical[placing[w].request.phone]
           /\ DOMAIN order.items \in (SUBSET ItemKey) \ {{}}
           /\ \A k \in DOMAIN order.items :
                 order.items[k] \in [quantity : Nat \ {0}, line_total : Nat]
           /\ IsPriced(order)
  <1> DEFINE request == placing[w].request
             lines == OrderLines(request)
  <1>1. /\ order.created_at = now /\ order.status = "draft"
        /\ order.conversation = IF w \in Conversation THEN w ELSE NoConversation
        /\ order.customer = IF NeedsCustomer(w) THEN Len(customers) + 1
                            ELSE placing[w].customer
        /\ order.phone = IF request.phone = NoPhone THEN NoPhone ELSE Canonical[request.phone]
        /\ order.items = lines
        /\ order.packaging_fee = request.packaging_fee
        /\ order.total = Subtotal(lines) + request.packaging_fee
    BY DEF NewOrder, OrderTotal
  <1>2. Shaped(order)
    BY DEF NewOrder, Shaped
  <1>3. /\ DOMAIN lines = PositiveItems(request)
        /\ \A k \in DOMAIN lines :
              lines[k] = [quantity |-> request.items[k],
                          line_total |-> request.items[k] * Price[k[1]]]
    BY DEF OrderLines
  <1>4. /\ PositiveItems(request) \in (SUBSET ItemKey) \ {{}}
        /\ \A k \in PositiveItems(request) :
              /\ request.items[k] \in Nat \ {0} /\ Price[k[1]] \in Nat
              /\ k[1] \in Product
        /\ IsFiniteSet(PositiveItems(request)) /\ request.packaging_fee \in Int
    BY DEF IsPlaced
  <1>5. /\ request.phone \in Phone \cup {NoPhone}
        /\ placing[w].customer # 0 => request.phone # NoPhone
        /\ placing[w].customer \in 0..Len(customers)
    BY DEF IsPlaced
  <1>6. NeedsCustomer(w) <=> request.phone # NoPhone /\ placing[w].customer = 0
    BY DEF NeedsCustomer
  <1>7. \A k \in DOMAIN lines : lines[k] \in [quantity : Nat \ {0}, line_total : Nat]
    <2> TAKE k \in DOMAIN lines
    <2>1. request.items[k] \in Nat \ {0} /\ Price[k[1]] \in Nat
      BY <1>3, <1>4
    <2>2. \A a, b \in Nat : a * b \in Nat
      OBVIOUS
    <2>3. request.items[k] * Price[k[1]] \in Nat
      <3>1. request.items[k] \in Nat
        BY <2>1
      <3> QED
        BY <2>1, <2>2, <3>1
    <2>4. lines[k] = [quantity |-> request.items[k],
                      line_total |-> request.items[k] * Price[k[1]]]
      BY <1>3
    <2> HIDE DEF lines, request
    <2> QED
      BY <2>1, <2>3, <2>4
  <1> HIDE DEF lines, request
  <1>8. request.phone \in Phone => Canonical[request.phone] # NoPhone
    OBVIOUS
  <1>9. (order.customer = 0) <=> (order.phone = NoPhone)
    BY <1>1, <1>5, <1>6, <1>8
  <1>10. order.customer # 0 => order.phone = Canonical[request.phone]
    BY <1>1, <1>9
  <1>11. order.status \in OrderStatus
    BY <1>1 DEF OrderStatus
  <1>12. DOMAIN order.items \in (SUBSET ItemKey) \ {{}}
    BY <1>1, <1>3, <1>4
  <1>13. \A k \in DOMAIN order.items :
            order.items[k] \in [quantity : Nat \ {0}, line_total : Nat]
    BY <1>1, <1>7
  <1>14. order.conversation \in Conversation \cup {NoConversation}
    BY <1>1
  <1>15. IsPriced(order)
    BY <1>1, <1>3, <1>4 DEF IsPriced
  <1> QED
    BY <1>1, <1>2, <1>9, <1>10, <1>11, <1>12, <1>13, <1>14, <1>15 DEF request

LEMMA WrittenIs ==
    ASSUME now \in Instants, CustomersInv, PlacingInv, NEW w \in Writer,
           placing[w] # NoPlacing, customers' = WithCustomer(w), NEW order,
           order = NewOrder(w)
    PROVE  IsBooked(order)'
  <1>1. IsPlaced(placing[w])
    BY DEF PlacingInv
  <1>2. /\ Len(customers) \in Nat /\ Len(customers') \in Nat
        /\ Len(customers) <= Len(customers')
        /\ \A i \in 1..Len(customers) : customers'[i] = customers[i]
        /\ customers' # customers =>
              /\ Len(customers') = Len(customers) + 1
              /\ customers'[Len(customers) + 1] = Canonical[placing[w].request.phone]
    BY CustomersGrow
  <1>3. NeedsCustomer(w) => customers' # customers
    <2> SUFFICES ASSUME NeedsCustomer(w) PROVE customers' # customers
      OBVIOUS
    <2> DEFINE phone == Canonical[placing[w].request.phone]
    <2>1. customers' = Append(customers, phone)
      BY DEF WithCustomer
    <2>2. placing[w].request.phone \in Phone
      BY <1>1 DEF IsPlaced, NeedsCustomer
    <2>3. phone \in Phone
      BY <2>2
    <2> HIDE DEF phone
    <2>4. Len(customers') = Len(customers) + 1
      BY <2>1, <2>3, AppendIs DEF CustomersInv
    <2> QED
      BY <1>2, <2>4
  <1>4. /\ Shaped(order)
        /\ order.created_at \in Instants /\ order.status \in OrderStatus
        /\ order.conversation \in Conversation \cup {NoConversation}
        /\ (order.customer = 0) <=> (order.phone = NoPhone)
        /\ DOMAIN order.items \in (SUBSET ItemKey) \ {{}}
        /\ \A k \in DOMAIN order.items :
              order.items[k] \in [quantity : Nat \ {0}, line_total : Nat]
        /\ IsPriced(order)
    BY <1>1, <1>2, OrderIs
  <1>5. /\ order.customer = IF NeedsCustomer(w) THEN Len(customers) + 1
                            ELSE placing[w].customer
        /\ order.customer # 0 => order.phone = Canonical[placing[w].request.phone]
    BY <1>1, <1>2, OrderIs
  <1>6. /\ order.customer \in 0..Len(customers')
        /\ order.customer # 0 => customers'[order.customer] = order.phone
    <2>1. CASE NeedsCustomer(w)
      BY <1>2, <1>3, <1>5, <2>1
    <2>2. CASE ~NeedsCustomer(w)
      <3>1. /\ order.customer \in 0..Len(customers)
            /\ order.customer # 0 => customers[order.customer] = order.phone
        BY <1>1, <1>5, <2>2 DEF IsPlaced
      <3> HIDE MergeAssumption, BookAssumption
      <3>2. order.customer \in 0..Len(customers')
        BY <1>2, <3>1
      <3>3. order.customer # 0 => order.customer \in 1..Len(customers)
        BY <1>2, <3>1
      <3> QED
        BY <1>2, <3>1, <3>2, <3>3
    <2> QED
      BY <2>1, <2>2
  <1> QED
    BY <1>4, <1>6 DEF IsBooked, IsOrder, IsLinked, Shaped, IsPriced

\* An order that is there is as good when customers come.
LEMMA StillBooked ==
    ASSUME NEW order, IsBooked(order), Len(customers) \in Nat, Len(customers') \in Nat,
           Len(customers) <= Len(customers'),
           \A i \in 1..Len(customers) : customers'[i] = customers[i]
    PROVE  IsBooked(order)'
  <1>1. /\ order.customer \in 0..Len(customers)
        /\ order.customer # 0 => customers[order.customer] = order.phone
    BY DEF IsBooked, IsOrder, IsLinked
  <1>2. /\ order.customer \in 0..Len(customers')
        /\ order.customer # 0 => customers'[order.customer] = order.phone
    <2> HIDE MergeAssumption, BookAssumption
    <2>1. order.customer \in 0..Len(customers')
      BY <1>1
    <2>2. order.customer # 0 => order.customer \in 1..Len(customers)
      BY <1>1
    <2> QED
      BY <1>1, <2>1, <2>2
  <1> QED
    BY <1>2 DEF IsBooked, IsOrder, IsLinked, Shaped, IsPriced

\* An order that moves on is the same order.
LEMMA MovedIsBooked ==
    ASSUME NEW order, IsBooked(order), NEW to \in OrderStatus, NEW moved,
           moved = [order EXCEPT !.status = to]
    PROVE  IsBooked(moved)
  <1>1. /\ moved.created_at = order.created_at /\ moved.status = to
        /\ moved.conversation = order.conversation /\ moved.customer = order.customer
        /\ moved.phone = order.phone /\ moved.items = order.items
        /\ moved.packaging_fee = order.packaging_fee /\ moved.total = order.total
        /\ Shaped(moved)
    BY DEF IsBooked, Shaped
  <1> QED
    BY <1>1 DEF IsBooked, IsOrder, IsLinked, IsPriced

----------------------------------------------------------------------------
(* The steps of the book *)

LEMMA DataInvInit == BookInit => DataInv
  <1> SUFFICES ASSUME BookInit PROVE DataInv
    OBVIOUS
  <1>1. now \in Instants
    <2>1. \E n \in Instants : \A m \in Instants : n <= m
      BY LeastExists
    <2>2. Min(Instants) \in Instants
      BY <2>1, Zenon DEF Min
    <2> QED
      BY <2>2 DEF BookInit
  <1>2. BookInv
    BY BookInvInit
  <1>3. CustomersInv /\ OrdersInv /\ PlacingInv /\ PastInv
    BY DEF BookInit, CustomersInv, OrdersInv, PlacingInv, PastInv
  <1>4. DraftsInv
    <2>1. IsDraft(NoDraft)
      BY FS_EmptySet DEF IsDraft, NoDraft
    <2>2. Len(<<>>) <= MaxTurns
      OBVIOUS
    <2> QED
      BY <2>1, <2>2 DEF BookInit, DraftsInv
  <1>5. RacesInv
    <2> SUFFICES ASSUME NEW phone \in Phone
                 PROVE  Cardinality(Records(phone)) + Cardinality(Bringing(phone))
                            <= Cardinality(Writer)
      BY DEF RacesInv
    <2>1. Records(phone) = {}
      BY DEF Records, BookInit
    <2>2. Bringing(phone) = {}
      BY DEF Bringing, NeedsCustomer, BookInit, NoPlacing, NoRequest, ToRequest, NoDraft
    <2>3. Cardinality(Writer) \in Nat
      BY FS_CardinalityType
    <2> QED
      BY <2>1, <2>2, <2>3, FS_EmptySet
  <1> QED
    BY <1>1, <1>2, <1>3, <1>4, <1>5 DEF DataInv

\* Nothing but placing changes for the customers and the calls.
LEMMA SameRaces ==
    ASSUME UNCHANGED <<customers, placing>>
    PROVE  /\ CustomersInv => CustomersInv'
           /\ PlacingInv => PlacingInv'
           /\ RacesInv => RacesInv'
           /\ \A order : IsBooked(order) => IsBooked(order)'
  <1>1. RacesInv => RacesInv'
    <2>1. \A phone : Records(phone)' = Records(phone) /\ Bringing(phone)' = Bringing(phone)
      BY DEF Records, Bringing, NeedsCustomer
    <2> QED
      BY <2>1 DEF RacesInv
  <1>2. \A order : IsBooked(order) => IsBooked(order)'
    BY DEF IsBooked, IsOrder, IsLinked, Shaped, IsPriced
  <1>3. CustomersInv => CustomersInv'
    BY DEF CustomersInv
  <1>4. PlacingInv => PlacingInv'
    BY DEF PlacingInv, IsPlaced
  <1> QED
    BY <1>1, <1>2, <1>3, <1>4

LEMMA TurnData ==
    ASSUME DataInv, NEW c \in Conversation, NEW parse \in Parses, Turn(c, parse)
    PROVE  DataInv'
  <1> DEFINE merged == Merged(draft[c], parse)
             request == ToRequest(merged, SessionPhone[c])
  <1>1. /\ draft' = [draft EXCEPT ![c] = merged]
        /\ said' = [said EXCEPT ![c] = Append(said[c], parse)]
        /\ UNCHANGED <<now, customers, orders>>
        /\ BeginDraft(c, request) \/ UNCHANGED placing
        /\ Len(said[c]) < MaxTurns
    BY DEF Turn
  <1>2. /\ BookInv /\ CustomersInv /\ DraftsInv /\ OrdersInv /\ PlacingInv /\ RacesInv
        /\ PastInv /\ now \in Instants
    BY DEF DataInv
  <1>3. BookInv'
    BY <1>2, TurnKeeps
  <1>4. IsDraft(merged) /\ IsRequest(request)
    BY <1>2, TurnAsks DEF DraftsInv
  <1> HIDE DEF merged, request
  <1>5. PlacingInv' /\ RacesInv'
    <2>1. CASE UNCHANGED placing
      BY <1>1, <1>2, <2>1, SameRaces
    <2>2. CASE BeginDraft(c, request)
      <3>1. placing = [v \in Writer |-> placing[v]] /\ c \in Writer
        BY <1>2 DEF BookInv, Writer
      <3> QED
        BY <1>1, <1>2, <1>4, <2>2, <3>1, BeginKeeps
    <2> QED
      BY <1>1, <2>1, <2>2
  <1>6. DraftsInv'
    <2> SUFFICES ASSUME NEW b \in Conversation
                 PROVE  IsDraft(draft'[b]) /\ Len(said'[b]) <= MaxTurns
      BY DEF DraftsInv, IsDraft
    <2>1. CASE b = c
      <3>1. draft'[c] = merged /\ said'[c] = Append(said[c], parse)
        BY <1>1, <1>2 DEF BookInv
      <3>2. Len(said'[c]) = Len(said[c]) + 1 /\ Len(said[c]) \in Nat
        BY <1>2, <3>1, AppendIs DEF BookInv
      <3> QED
        BY <1>1, <1>4, <2>1, <3>1, <3>2
    <2>2. CASE b # c
      <3>1. draft'[b] = draft[b] /\ said'[b] = said[b]
        BY <1>1, <1>2, <2>2 DEF BookInv
      <3> QED
        BY <1>2, <3>1 DEF DraftsInv
    <2> QED
      BY <2>1, <2>2
  <1>7. OrdersInv' /\ CustomersInv' /\ PastInv'
    BY <1>1, <1>2 DEF OrdersInv, CustomersInv, PastInv, IsBooked, IsOrder, IsLinked, Shaped, IsPriced
  <1> QED
    BY <1>1, <1>2, <1>3, <1>5, <1>6, <1>7 DEF DataInv

LEMMA PageData ==
    ASSUME DataInv, NEW p \in Page,
           \/ \E form \in Forms : FillForm(p, form)
           \/ \E parse \in Parses, phone \in TypedPhones : ReviewParse(p, parse, phone)
    PROVE  DataInv'
  <1>1. PICK request : IsRequest(request) /\ BeginDraft(p, request)
    BY PageAsks
  <1>2. UNCHANGED <<now, draft, said, customers, orders>>
    BY DEF FillForm, ReviewParse
  <1>3. /\ BookInv /\ CustomersInv /\ DraftsInv /\ OrdersInv /\ PlacingInv /\ RacesInv
        /\ PastInv /\ now \in Instants
    BY DEF DataInv
  <1>4. BookInv'
    BY <1>3, PageKeeps
  <1>5. PlacingInv' /\ RacesInv'
    <2>1. placing = [v \in Writer |-> placing[v]] /\ p \in Writer
      BY <1>3 DEF BookInv, Writer
    <2> QED
      BY <1>1, <1>2, <1>3, <2>1, BeginKeeps
  <1>6. OrdersInv' /\ CustomersInv' /\ DraftsInv' /\ PastInv'
    BY <1>2, <1>3 DEF OrdersInv, CustomersInv, DraftsInv, PastInv, IsBooked, IsOrder, IsLinked,
                      Shaped, IsPriced, IsDraft
  <1> QED
    BY <1>2, <1>3, <1>4, <1>5, <1>6 DEF DataInv

LEMMA CreateData ==
    ASSUME DataInv, NEW w \in Writer, CreateOrder(w) \/ FailToCreate(w)
    PROVE  DataInv'
  <1>1. /\ placing[w] # NoPlacing
        /\ customers' = customers \/ customers' = WithCustomer(w)
        /\ placing' = [placing EXCEPT ![w] = NoPlacing]
        /\ UNCHANGED <<now, draft>>
        /\ \A c \in Conversation : said'[c] \in {said[c], <<>>}
    BY DEF CreateOrder, FailToCreate, Placing, DataInv, BookInv
  <1>2. /\ BookInv /\ CustomersInv /\ DraftsInv /\ OrdersInv /\ PlacingInv /\ RacesInv
        /\ PastInv /\ now \in Instants
    BY DEF DataInv
  <1>3. BookInv'
    BY <1>2, CreateKeeps, OthersKeep
  <1>4. CustomersInv' /\ PlacingInv' /\ RacesInv'
    BY <1>1, <1>2, EndKeeps DEF BookInv
  <1>5. /\ Len(customers) \in Nat /\ Len(customers') \in Nat
        /\ Len(customers) <= Len(customers')
        /\ \A i \in 1..Len(customers) : customers'[i] = customers[i]
    BY <1>1, <1>2, CustomersGrow
  <1>6. DraftsInv'
    <2>1. Len(<<>>) <= MaxTurns
      OBVIOUS
    <2> QED
      BY <1>1, <1>2, <2>1 DEF DraftsInv, IsDraft
  <1>7. \A i \in DOMAIN orders : IsBooked(orders[i])
    BY <1>2 DEF OrdersInv
  <1>8. OrdersInv'
    <2> SUFFICES ASSUME NEW i \in DOMAIN orders' PROVE IsBooked(orders[i])'
      BY DEF OrdersInv
    <2>1. PICK row : row = orders'[i]
      OBVIOUS
    <2>2. (i \in DOMAIN orders /\ row = orders[i]) \/ (CreateOrder(w) /\ row = NewOrder(w))
      <3>1. CASE CreateOrder(w)
        <4>1. orders' = Append(orders, NewOrder(w)) /\ "conversation" \in DOMAIN NewOrder(w)
          BY <3>1 DEF CreateOrder, NewOrder
        <4>2. \A k \in DOMAIN orders' :
                 (k \in DOMAIN orders /\ orders'[k] = orders[k]) \/ orders'[k] = NewOrder(w)
          BY <1>2, <4>1, AddedIs DEF BookInv
        <4> QED
          BY <2>1, <3>1, <4>2
      <3>2. CASE FailToCreate(w)
        BY <2>1, <3>2 DEF FailToCreate
      <3> QED
        BY <3>1, <3>2
    <2>3. IsBooked(row)'
      <3>1. CASE i \in DOMAIN orders /\ row = orders[i]
        <4>1. IsBooked(row)
          BY <1>7, <3>1
        <4> QED
          BY <1>5, <4>1, StillBooked
      <3>2. CASE CreateOrder(w) /\ row = NewOrder(w)
        <4>1. customers' = WithCustomer(w)
          BY <3>2 DEF CreateOrder
        <4> QED
          BY <1>1, <1>2, <3>2, <4>1, WrittenIs
      <3> QED
        BY <2>2, <3>1, <3>2
    <2> QED
      BY <2>1, <2>3 DEF IsBooked, IsOrder, IsLinked, Shaped, IsPriced
  <1>9. PastInv'
    <2>1. now \in Int
      BY <1>2
    <2>2. CASE CreateOrder(w)
      <3>1. orders' = Append(orders, NewOrder(w)) /\ "conversation" \in DOMAIN NewOrder(w)
        BY <2>2 DEF CreateOrder, NewOrder
      <3>2. \A k \in DOMAIN orders' :
               (k \in DOMAIN orders /\ orders'[k] = orders[k]) \/ orders'[k] = NewOrder(w)
        BY <1>2, <3>1, AddedIs DEF BookInv
      <3>3. NewOrder(w).created_at = now
        BY DEF NewOrder
      <3> QED
        BY <1>1, <1>2, <2>1, <3>2, <3>3 DEF PastInv
    <2>3. CASE FailToCreate(w)
      BY <1>1, <1>2, <2>3 DEF PastInv, FailToCreate
    <2> QED
      BY <2>2, <2>3
  <1> QED
    BY <1>1, <1>2, <1>3, <1>4, <1>6, <1>8, <1>9 DEF DataInv

LEMMA OtherData ==
    ASSUME DataInv,
           \/ \E i \in DOMAIN orders, to \in OrderStatus : Progress(i, to)
           \/ Advance
           \/ UNCHANGED vars
    PROVE  DataInv'
  <1>1. UNCHANGED <<draft, said, customers, placing>> /\ now' \in Instants
    BY DEF Progress, Advance, vars, DataInv
  <1>2. /\ BookInv /\ CustomersInv /\ DraftsInv /\ OrdersInv /\ PlacingInv /\ RacesInv
        /\ PastInv /\ now \in Instants
    BY DEF DataInv
  <1>3. BookInv'
    BY <1>2, OthersKeep
  <1>4. /\ CustomersInv' /\ PlacingInv' /\ RacesInv'
        /\ \A order : IsBooked(order) => IsBooked(order)'
    BY <1>1, <1>2, SameRaces
  <1>5. DraftsInv'
    BY <1>1, <1>2 DEF DraftsInv, IsDraft
  <1>6. OrdersInv'
    <2> SUFFICES ASSUME NEW k \in DOMAIN orders' PROVE IsBooked(orders[k])'
      BY DEF OrdersInv
    <2>1. PICK row : row = orders'[k]
      OBVIOUS
    <2>2. IsBooked(row)
      <3>1. CASE UNCHANGED orders
        BY <1>2, <2>1, <3>1 DEF OrdersInv
      <3>2. CASE \E i \in DOMAIN orders, to \in OrderStatus : Progress(i, to)
        <4>1. PICK i \in DOMAIN orders, to \in OrderStatus :
                 orders' = [orders EXCEPT ![i].status = to]
          BY <3>2 DEF Progress
        <4>2. /\ DOMAIN orders' = DOMAIN orders
              /\ orders'[i] = [orders[i] EXCEPT !.status = to]
              /\ \A j \in DOMAIN orders : j # i => orders'[j] = orders[j]
          BY <1>2, <4>1, MovedIs DEF BookInv
        <4>3. PICK order : order = orders[i]
          OBVIOUS
        <4>4. IsBooked(order)
          BY <1>2, <4>3 DEF OrdersInv
        <4>5. CASE k = i
          <5>1. row = [order EXCEPT !.status = to]
            BY <2>1, <4>2, <4>3, <4>5
          <5> QED
            BY <4>4, <5>1, MovedIsBooked
        <4>6. CASE k # i
          BY <1>2, <2>1, <4>2, <4>6 DEF OrdersInv
        <4> QED
          BY <4>5, <4>6
      <3> QED
        BY <3>1, <3>2 DEF Advance, vars
    <2>3. IsBooked(row)'
      BY <1>4, <2>2
    <2> QED
      BY <2>1, <2>3 DEF IsBooked, IsOrder, IsLinked, Shaped, IsPriced
  <1>7. PastInv'
    <2>1. \A k \in DOMAIN orders' :
             /\ k \in DOMAIN orders
             /\ orders'[k].created_at = orders[k].created_at
      <3>1. CASE UNCHANGED orders
        BY <3>1
      <3>2. CASE \E i \in DOMAIN orders, to \in OrderStatus : Progress(i, to)
        <4>1. PICK i \in DOMAIN orders, to \in OrderStatus :
                 orders' = [orders EXCEPT ![i].status = to]
          BY <3>2 DEF Progress
        <4>2. /\ DOMAIN orders' = DOMAIN orders
              /\ orders'[i] = [orders[i] EXCEPT !.status = to]
              /\ \A j \in DOMAIN orders : j # i => orders'[j] = orders[j]
          BY <1>2, <4>1, MovedIs DEF BookInv
        <4>3. orders'[i].created_at = orders[i].created_at
          BY <4>2
        <4> QED
          BY <4>2, <4>3
      <3> QED
        BY <3>1, <3>2 DEF Advance, vars
    <2>2. \A k \in DOMAIN orders : orders[k].created_at \in Int /\ orders[k].created_at <= now
      <3>1. \A k \in DOMAIN orders : orders[k].created_at \in Instants
        BY <1>2 DEF OrdersInv, IsBooked, IsOrder
      <3>2. \A t \in Instants : t \in Int
        OBVIOUS
      <3> QED
        BY <1>2, <3>1, <3>2 DEF PastInv
    <2>3. now \in Int /\ now' \in Int /\ now <= now'
      <3>1. now \in Int /\ now' \in Int
        BY <1>1, <1>2
      <3>2. now' = now \/ now' > now
        BY DEF Progress, Advance, vars
      <3> HIDE MergeAssumption, BookAssumption
      <3> QED
        BY <3>1, <3>2
    <2> HIDE MergeAssumption, BookAssumption
    <2>4. \A k \in DOMAIN orders' : orders'[k].created_at <= now'
      BY <2>1, <2>2, <2>3
    <2> QED
      BY <2>4 DEF PastInv
  <1> QED
    BY <1>1, <1>3, <1>4, <1>5, <1>6, <1>7 DEF DataInv

LEMMA DataInvAlways == Spec => []DataInv
  <1>1. DataInv /\ [Next]_vars => DataInv'
    BY TurnData, PageData, CreateData, OtherData DEF Next
  <1> QED
    BY <1>1, DataInvInit, PTL DEF Spec

\* Drafts name products of the catalog or what was not recognised, their
\* conflicts are items they hold; orders have checked lines with positive
\* quantities, are sent to an existing record exactly when they have a phone
\* (services/orders.py:78-190, services/accumulated_draft_merge.py:42-158).
THEOREM BookTypeOKAlways == Spec => []BookTypeOK
  <1>1. DataInv => BookTypeOK
    <2> SUFFICES ASSUME DataInv PROVE BookTypeOK
      OBVIOUS
    <2>1. now \in Instants /\ CustomersInv /\ DraftsInv /\ OrdersInv /\ PlacingInv
      BY DEF DataInv
    <2>2. \A c \in Conversation :
             /\ draft[c].conflicts \subseteq DOMAIN draft[c].items
             /\ DOMAIN draft[c].items \subseteq ItemKey
             /\ Len(said[c]) <= MaxTurns
      BY <2>1 DEF DraftsInv, IsDraft
    <2>3. \A i \in DOMAIN customers : customers[i] \in Phone
      BY <2>1 DEF CustomersInv
    <2>4. \A i \in DOMAIN orders : IsOrder(orders[i])
      BY <2>1 DEF OrdersInv, IsBooked
    <2>5. \A w \in Writer : placing[w].customer \in 0..Len(customers)
      <3>1. Len(customers) \in Nat
        BY <2>1 DEF CustomersInv
      <3>2. NoPlacing.customer = 0
        BY DEF NoPlacing
      <3> QED
        BY <2>1, <3>1, <3>2 DEF PlacingInv, IsPlaced
    <2> QED
      BY <2>1, <2>2, <2>3, <2>4, <2>5 DEF BookTypeOK
  <1> QED
    BY <1>1, DataInvAlways, PTL

\* However first orders of a phone race, an order goes to a record with its
\* phone, and there are at most as many records of a phone as conversations and
\* pages: each counts once, as a record or as a call about to add one, and a call
\* that starts when there is a record adds none (services/orders.py:130-152).
THEOREM DuplicatesAreRacesAlways == Spec => []DuplicatesAreRaces
  <1>1. DataInv => DuplicatesAreRaces
    <2> SUFFICES ASSUME DataInv PROVE DuplicatesAreRaces
      OBVIOUS
    <2>1. CustomersInv /\ OrdersInv /\ RacesInv
      BY DEF DataInv
    <2>2. \A i \in DOMAIN orders : orders[i].customer # 0 =>
             customers[orders[i].customer] = orders[i].phone
      BY <2>1 DEF OrdersInv, IsBooked, IsLinked
    <2>3. ASSUME NEW phone \in Phone
          PROVE  Cardinality({i \in DOMAIN customers : customers[i] = Canonical[phone]})
                     <= Cardinality(Writer)
      <3> DEFINE canonical == Canonical[phone]
      <3>1. canonical \in Phone
        OBVIOUS
      <3> HIDE DEF canonical
      <3>2. Cardinality(Records(canonical)) + Cardinality(Bringing(canonical))
                <= Cardinality(Writer)
        BY <2>1, <3>1 DEF RacesInv
      <3>3. /\ Cardinality(Records(canonical)) \in Nat
            /\ Cardinality(Bringing(canonical)) \in Nat /\ Cardinality(Writer) \in Nat
        <4>1. DOMAIN customers = 1..Len(customers) /\ Len(customers) \in Nat
          BY <2>1 DEF CustomersInv
        <4>2. Records(canonical) \in SUBSET (1..Len(customers))
          BY <4>1 DEF Records
        <4>3. IsFiniteSet(Records(canonical))
          BY <4>1, <4>2, RowsAreFinite
        <4>4. Bringing(canonical) \in SUBSET Writer
          BY DEF Bringing
        <4>5. IsFiniteSet(Bringing(canonical))
          BY <4>4, FS_Subset
        <4> QED
          BY <4>3, <4>5, FS_CardinalityType
      <3>4. Cardinality(Records(canonical)) <= Cardinality(Writer)
        BY <3>2, <3>3
      <3> QED
        BY <3>4 DEF Records, canonical
    <2> QED
      BY <2>2, <2>3 DEF DuplicatesAreRaces
  <1> QED
    BY <1>1, DataInvAlways, PTL
----------------------------------------------------------------------------
(* What the pages show *)

\* Every order has its lines' total, and was written today or before.
LEMMA OrdersAreDated ==
    ASSUME DataInv
    PROVE  /\ Dated(orders)
           /\ Len(orders) \in Nat /\ Cardinality(DOMAIN orders) = Len(orders)
           /\ \A i \in DOMAIN orders : DateOf(orders)[i] \in 0..LocalDate(now)
           /\ LocalDate(now) \in Nat /\ PageDate(now) = LocalDate(now)
  <1>1. BookInv /\ OrdersInv /\ PastInv /\ now \in Instants
    BY DEF DataInv
  <1>2. Len(orders) \in Nat /\ DOMAIN orders = 1..Len(orders)
    BY <1>1 DEF BookInv, OrdersAreRecords
  <1>3. IsFiniteSet(DOMAIN orders) /\ Cardinality(DOMAIN orders) = Len(orders)
    <2>1. 1 \in Int /\ Len(orders) \in Int /\ Len(orders) >= 0
      BY <1>2
    <2>2. /\ IsFiniteSet(1..Len(orders))
          /\ Cardinality(1..Len(orders)) = IF 1 > Len(orders) THEN 0 ELSE Len(orders) - 1 + 1
      BY <2>1, FS_Interval, Zenon
    <2> QED
      BY <1>2, <2>1, <2>2
  <1>4. \A i \in DOMAIN orders :
           /\ orders[i].created_at \in Instants
           /\ orders[i].created_at <= now
    BY <1>1 DEF OrdersInv, IsBooked, IsOrder, PastInv
  <1>5. \A t \in Instants : t \in Int /\ LocalDate(t) \in Int /\ LocalDate(t) >= 0
    BY DatesAre
  <1>6. \A s, t \in Int : s <= t => LocalDate(s) <= LocalDate(t)
    BY DEF LocalDate, DashboardOffset
  <1>7. \A i \in DOMAIN orders : orders[i].total \in Int
    <2> TAKE i \in DOMAIN orders
    <2> DEFINE lines == orders[i].items
               f == [k \in DOMAIN lines |-> lines[k].line_total]
    <2>1. IsOrder(orders[i]) /\ IsPriced(orders[i])
      BY <1>1 DEF OrdersInv, IsBooked
    <2>2. /\ IsFiniteSet(DOMAIN lines) /\ orders[i].packaging_fee \in Int
          /\ orders[i].total = Subtotal(lines) + orders[i].packaging_fee
          /\ \A k \in DOMAIN lines : lines[k] \in [quantity : Nat \ {0}, line_total : Nat]
      BY <2>1 DEF IsOrder, IsPriced
    <2>3. DOMAIN f = DOMAIN lines /\ Subtotal(lines) = SumFunction(f)
          /\ \A k \in DOMAIN lines : f[k] \in Int
      BY <2>2 DEF Subtotal
    <2> HIDE DEF f, lines
    <2>4. Subtotal(lines) \in Int
      <3>1. SumFunction(f) = Sum(f, DOMAIN lines)
        BY <2>3, SumOfFunction
      <3>2. Sum(f, DOMAIN lines) \in Int
        BY <2>2, <2>3, SumIsNumber
      <3> QED
        BY <2>3, <3>1, <3>2
    <2> QED
      BY <2>2, <2>4
  <1> HIDE MergeAssumption, BookAssumption
  <1>8. Dated(orders)
    BY <1>3, <1>4, <1>5, <1>7 DEF Dated
  <1>9. \A i \in DOMAIN orders : DateOf(orders)[i] \in 0..LocalDate(now)
    BY <1>1, <1>4, <1>5, <1>6 DEF DateOf
  <1>10. LocalDate(now) \in Nat /\ PageDate(now) = LocalDate(now)
    BY <1>1, <1>5, DatesAre
  <1> QED
    BY <1>2, <1>3, <1>8, <1>9, <1>10

\* The reference date is the day of an order or of the reader, and no order is
\* of a later one.
LEMMA ReferenceIs ==
    ASSUME DataInv, NEW mode
    PROVE  LET today == ReferenceDate(orders, mode, PageDate(now))
           IN /\ today \in Nat
              /\ \A i \in DOMAIN orders : DateOf(orders)[i] \in 0..today
  <1> DEFINE dates == {LocalDate(orders[i].created_at) : i \in DOMAIN orders}
             page == PageDate(now)
             today == ReferenceDate(orders, mode, page)
  <1>1. /\ \A i \in DOMAIN orders : DateOf(orders)[i] \in 0..page
        /\ page \in Nat
    BY OrdersAreDated
  <1>2. /\ \A d \in dates : \E i \in DOMAIN orders : d = DateOf(orders)[i]
        /\ \A i \in DOMAIN orders : DateOf(orders)[i] \in dates
    BY DEF DateOf
  <1>3. today = IF mode = "demo" /\ dates # {} THEN Max(dates) ELSE page
    BY DEF ReferenceDate
  <1> HIDE MergeAssumption, BookAssumption DEF dates, page, today
  <1>4. \A d \in dates : d \in 0..page
    BY <1>1, <1>2
  <1>5. CASE mode = "demo" /\ dates # {}
    <2> DEFINE T == {page - d : d \in dates}
    <2>1. T \in SUBSET Nat /\ T # {}
      BY <1>1, <1>4, <1>5
    <2> HIDE DEF T
    <2>2. PICK n \in T : \A m \in T : n <= m
      BY <2>1, LeastExists
    <2>3. PICK d \in dates : n = page - d
      BY DEF T
    <2>4. \A e \in dates : d >= e
      <3> TAKE e \in dates
      <3>1. page - e \in T
        BY DEF T
      <3>2. n <= page - e
        BY <2>2, <3>1
      <3>3. d \in Int /\ e \in Int /\ page \in Int
        BY <1>1, <1>4
      <3> QED
        BY <2>3, <3>2, <3>3
    <2>5. dates \in SUBSET Nat
      BY <1>1, <1>4
    <2>6. Max(dates) = d
      <3>1. \A e \in dates : e <= d
        BY <1>4, <2>4
      <3> QED
        BY <2>5, <3>1, MaxIs
    <2>7. today = d /\ today \in Nat
      BY <1>3, <1>5, <2>5, <2>6
    <2>8. \A i \in DOMAIN orders : DateOf(orders)[i] \in 0..today
      <3>1. \A e \in dates : e \in 0..today
        <4> TAKE e \in dates
        <4>1. e \in Nat /\ today \in Nat /\ e <= today
          BY <2>4, <2>5, <2>7
        <4> QED
          BY <4>1
      <3> QED
        BY <1>2, <3>1
    <2> QED
      BY <2>7, <2>8 DEF today, page
  <1>6. CASE ~(mode = "demo" /\ dates # {})
    <2>1. today = page
      BY <1>3, <1>6
    <2> QED
      BY <1>1, <2>1 DEF today, page
  <1> QED
    BY <1>5, <1>6

\* Every figure of FiguresAgree is a sum over some part of the orders, and the
\* parts are the same: the day is its buckets, the weeks are their days, the
\* heatmap's cells are four weeks, and every customer has one first order.
LEMMA FiguresAgreeThen == DataInv => FiguresAgree
  <1> HIDE MergeAssumption, BookAssumption
  <1>0. ASSUME DataInv
        PROVE  LET today == ReferenceDate(orders, "runtime", PageDate(now))
               IN /\ Cardinality(TodayOrders(orders, PageDate(now), TRUE)) =
                         TodaysPulse(orders, today).orders_count
                  /\ Cardinality(TodayOrders(orders, PageDate(now), FALSE)) =
                         TodaysStatusStrip(orders, today).pending
    <2>1. ReferenceDate(orders, "runtime", PageDate(now)) = PageDate(now)
      BY DEF ReferenceDate
    <2>2. Dated(orders) /\ PageDate(now) \in Int
      BY <1>0, <2>1, OrdersAreDated, ReferenceIs
    <2> QED
      BY <2>1, <2>2, StripAddsUp
  <1> SUFFICES ASSUME DataInv, NEW mode \in {"runtime", "demo"}, NEW today,
                      today = ReferenceDate(orders, mode, PageDate(now))
               PROVE
        LET pulse == TodaysPulse(orders, today)
            strip == TodaysStatusStrip(orders, today)
            trend == WeekTrend(orders, today)
            wow == WeekOverWeek(orders, today)
            breakdown == StatusBreakdown(orders)
            heatmap == TimeOfDayHeatmap(orders, today)
            sinceMonday == (today - Weekday(today))..today
        IN /\ strip.completed + strip.pending + strip.cancelled = pulse.orders_count
           /\ trend[today] = [orders_count |-> pulse.orders_count, revenue |-> pulse.revenue]
           /\ wow.current.orders_count = SumFunction([d \in sinceMonday |-> trend[d].orders_count])
           /\ wow.current.revenue = SumFunction([d \in sinceMonday |-> trend[d].revenue])
           /\ WeekOverWeek(orders, today + 7).previous = wow.current
           /\ (wow.has_comparison /\ wow.current.non_cancelled = wow.previous.non_cancelled)
                 => wow.aov = wow.revenue
           /\ SumFunction(breakdown) = Len(orders)
           /\ SumFunction([wd \in 0..6 |-> SumFunction([h \in 0..23 |-> heatmap[wd, h]])]) =
                 SumFunction([w \in 0..3 |->
                     PeriodKpi(orders, today - 7 * w - 6, today - 7 * w).orders_count])
           /\ SumFunction([w \in 0..(today \div 7) |->
                     CustomerMix(orders, WeekStart(today - 7 * w)).new_customers]) =
                 Cardinality({orders[i].customer : i \in DOMAIN orders} \ {0})
    BY <1>0, Zenon DEF FiguresAgree
  <1>1. /\ Dated(orders) /\ Cardinality(DOMAIN orders) = Len(orders)
        /\ today \in Nat /\ today \in Int
        /\ \A i \in DOMAIN orders : DateOf(orders)[i] \in 0..today
    BY OrdersAreDated, ReferenceIs
  <1>2. LET strip == TodaysStatusStrip(orders, today)
            pulse == TodaysPulse(orders, today)
        IN strip.completed + strip.pending + strip.cancelled = pulse.orders_count
    BY <1>1, StripAddsUp
  <1>3. WeekTrend(orders, today)[today] =
           [orders_count |-> TodaysPulse(orders, today).orders_count,
            revenue |-> TodaysPulse(orders, today).revenue]
    <2>1. today \in (today - 6)..today
      BY <1>1
    <2> QED
      BY <2>1 DEF WeekTrend, TodaysPulse
  <1>4. LET monday == today - Weekday(today)
        IN /\ WeekOverWeek(orders, today).current.orders_count =
                 SumFunction([d \in monday..today |-> WeekTrend(orders, today)[d].orders_count])
           /\ WeekOverWeek(orders, today).current.revenue =
                 SumFunction([d \in monday..today |-> WeekTrend(orders, today)[d].revenue])
    <2> DEFINE monday == today - Weekday(today)
    <2>1. monday \in Int /\ monday >= today - 6
      BY <1>1 DEF Weekday
    <2>2. WeekOverWeek(orders, today).current = PeriodKpi(orders, monday, today)
      BY DEF WeekOverWeek
    <2> HIDE DEF monday
    <2>3. /\ SumFunction([d \in monday..today |-> WeekTrend(orders, today)[d].orders_count]) =
                 PeriodKpi(orders, monday, today).orders_count
          /\ SumFunction([d \in monday..today |-> WeekTrend(orders, today)[d].revenue]) =
                 PeriodKpi(orders, monday, today).revenue
      BY <1>1, <2>1, TrendAddsUp
    <2>4. /\ WeekOverWeek(orders, today).current.orders_count =
                 SumFunction([d \in monday..today |-> WeekTrend(orders, today)[d].orders_count])
          /\ WeekOverWeek(orders, today).current.revenue =
                 SumFunction([d \in monday..today |-> WeekTrend(orders, today)[d].revenue])
      BY <2>2, <2>3
    <2> QED
      BY <2>4, Zenon DEF monday
  <1>5. WeekOverWeek(orders, today + 7).previous = WeekOverWeek(orders, today).current
    BY <1>1, WeekLater
  <1>6. WeekOverWeek(orders, today).current.non_cancelled =
           WeekOverWeek(orders, today).previous.non_cancelled
        => WeekOverWeek(orders, today).aov = WeekOverWeek(orders, today).revenue
    BY <1>1, AverageFollowsRevenue
  <1>7. SumFunction(StatusBreakdown(orders)) = Len(orders)
    BY <1>1, BreakdownAddsUp
  <1>8. SumFunction([wd \in 0..6 |->
            SumFunction([h \in 0..23 |-> TimeOfDayHeatmap(orders, today)[wd, h]])]) =
        SumFunction([w \in 0..3 |->
            PeriodKpi(orders, today - 7 * w - 6, today - 7 * w).orders_count])
    BY <1>1, HeatmapAddsUp
  <1>9. SumFunction([w \in 0..(today \div 7) |->
            CustomerMix(orders, WeekStart(today - 7 * w)).new_customers]) =
        Cardinality({orders[i].customer : i \in DOMAIN orders} \ {0})
    <2>1. SumFunction([w \in 0..(today \div 7) |->
              CustomerMix(orders, today - 7 * w - 6).new_customers]) =
          Cardinality(CustomersOf(orders))
      BY <1>1, NewOnce
    <2> QED
      BY <2>1 DEF WeekStart, CustomersOf
  <1> QED
    BY <1>2, <1>3, <1>4, <1>5, <1>6, <1>7, <1>8, <1>9, Zenon

\* The figures that the pages show side by side agree for every list of orders
\* that the book can hold, whatever the hours, prices and products
\* (services/dashboard.py:161-253, 306-500, 648-688,
\* pages/2_Orders_Today.py).
THEOREM FiguresAgreeAlways == Spec => []FiguresAgree
  BY FiguresAgreeThen, DataInvAlways, PTL

\* What is needed of the orders to add up their money.
LEMMA OrdersArePriced ==
    ASSUME DataInv
    PROVE  /\ Priced(orders)
           /\ \A i \in DOMAIN orders :
                 /\ orders[i].customer \in 0..Len(customers)
                 /\ \A k \in DOMAIN orders[i].items : k[1] \in Product
           /\ Len(customers) \in Nat /\ DOMAIN customers = 1..Len(customers)
  <1>1. OrdersInv /\ CustomersInv
    BY DEF DataInv
  <1>2. \A i \in DOMAIN orders :
           /\ IsFiniteSet(DOMAIN orders[i].items)
           /\ \A k \in DOMAIN orders[i].items :
                 /\ orders[i].items[k] \in [quantity : Nat \ {0}, line_total : Nat]
                 /\ k[1] \in Product
           /\ orders[i].packaging_fee \in Int
           /\ orders[i].total = LinesTotal(orders[i]) + orders[i].packaging_fee
           /\ orders[i].customer \in 0..Len(customers)
    <2> TAKE i \in DOMAIN orders
    <2>1. IsOrder(orders[i]) /\ IsPriced(orders[i])
      BY <1>1 DEF OrdersInv, IsBooked
    <2>2. Subtotal(orders[i].items) = LinesTotal(orders[i])
      BY DEF Subtotal, LinesTotal
    <2> QED
      BY <2>1, <2>2 DEF IsOrder, IsPriced
  <1>3. \A line \in [quantity : Nat \ {0}, line_total : Nat] :
           line.quantity \in Int /\ line.line_total \in Int
    OBVIOUS
  <1>4. Priced(orders)
    BY <1>2, <1>3, OrdersAreDated DEF Priced
  <1>5. Len(customers) \in Nat /\ DOMAIN customers = 1..Len(customers)
    BY <1>1 DEF CustomersInv
  <1> QED
    BY <1>2, <1>4, <1>5

\* Every sum of MoneyAddsUp is a sum over the lines or the orders of the week:
\* the entries of a product or a customer are its part of them, and the lists
\* have room for all of these.
LEMMA MoneyAddsUpThen == DataInv => MoneyAddsUp
  <1> SUFFICES ASSUME DataInv PROVE MoneyAddsUp
    OBVIOUS
  <1> DEFINE today == PageDate(now)
             start == WeekStart(today)
             week == WeekOf(orders, start)
             items == TopItems(orders, start, Cardinality(Product))
             spent == TopCustomers(orders, DOMAIN customers, start, Len(customers))
             pairs == ProductPairs(orders, start, Cardinality(Product \X Product))
             trend == WeekTrend(orders, today)
             all == SumFunction([e \in items |-> e.revenue])
                    + SumFunction([i \in week |-> orders[i].packaging_fee])
  <1>1. /\ Priced(orders) /\ Dated(orders)
        /\ \A i \in DOMAIN orders :
              /\ orders[i].customer \in 0..Len(customers)
              /\ \A k \in DOMAIN orders[i].items : k[1] \in Product
        /\ Len(customers) \in Nat /\ DOMAIN customers = 1..Len(customers)
        /\ today \in Int
    BY OrdersArePriced, OrdersAreDated DEF Priced
  <1>2. IsFiniteSet(Product) /\ Product \in SUBSET Int /\ Cardinality(Product) \in Nat
    BY FS_CardinalityType
  <1>3. start = today - 6 /\ start \in Int /\ start + 6 = today
    BY <1>1 DEF WeekStart
  <1> HIDE MergeAssumption, BookAssumption DEF today, start
  <1>4. week = PeriodOrders(orders, start, today) /\ week \in SUBSET DOMAIN orders
    BY <1>3, WeekIs DEF WeekOf
  <1>5. LET entries == ItemEntries(orders, start)
        IN /\ IsFiniteSet(entries) /\ Cardinality(entries) <= Cardinality(Product)
           /\ \A e \in entries : e.quantity \in Int /\ e.product \in Product
           /\ SumFunction([e \in entries |-> e.revenue]) =
                 Sum(AmountOf(orders, week), Lines(orders, week))
    BY <1>1, <1>2, ItemsAddUp
  <1>6. items = ItemEntries(orders, start)
    <2>1. \A e \in ItemEntries(orders, start) : e.quantity \in Int /\ e.product \in Int
      BY <1>2, <1>5
    <2> QED
      BY <1>2, <1>5, <2>1, TopIsAll
  <1>7. TopItems(orders, start, 1) \subseteq TopItemsByCategory(orders, start, 1)
    <2>1. \A e \in ItemEntries(orders, start) : e.quantity \in Int /\ e.product \in Int
      BY <1>2, <1>5
    <2> QED
      BY <1>5, <2>1, TopIsAll
  <1>8. all = TotalOf(orders, week)
    <2> HIDE DEF week, items
    <2>1. SumFunction([e \in items |-> e.revenue]) =
             Sum(AmountOf(orders, week), Lines(orders, week))
      BY <1>5, <1>6, Zenon DEF week
    <2>2. Sum(AmountOf(orders, week), Lines(orders, week))
             + SumFunction([i \in week |-> orders[i].packaging_fee]) = TotalOf(orders, week)
      BY <1>1, <1>4, LinesAddUp
    <2> QED
      BY <2>1, <2>2
  <1>9. all = SumFunction([d \in start..today |-> trend[d].revenue])
              + TotalOf(orders, InBucket(orders, week, "cancelled"))
    <2> HIDE DEF all, trend
    <2>1. TotalOf(orders, week) = PeriodKpi(orders, start, today).revenue
             + TotalOf(orders, InBucket(orders, week, "cancelled"))
      <3> HIDE DEF week
      <3> QED
        BY <1>1, <1>3, <1>4, KeptAndCancelled
    <2>2. SumFunction([d \in start..today |-> trend[d].revenue]) =
             PeriodKpi(orders, start, today).revenue
      <3>1. start >= today - 6
        BY <1>1, <1>3
      <3> QED
        BY <1>1, <1>3, <3>1, TrendAddsUp DEF trend
    <2> QED
      BY <1>8, <2>1, <2>2
  <1>10. all = SumFunction([e \in spent |-> e.total_spend])
               + TotalOf(orders, {i \in week : orders[i].customer = 0})
    <2>1. SumFunction([e \in spent |-> e.total_spend])
             + TotalOf(orders, {i \in week : orders[i].customer = 0}) = TotalOf(orders, week)
      <3>1. spent = TopCustomers(orders, 1..Len(customers), start, Len(customers))
        BY <1>1, Zenon
      <3> HIDE DEF spent
      <3> QED
        BY <1>1, <3>1, CustomersSpend
    <2> HIDE DEF all, spent, week
    <2> QED
      BY <1>8, <2>1
  <1>11. 2 * SumFunction([e \in pairs |-> e.count]) =
            SumFunction([i \in week |-> LET n == Cardinality(ProductsOf(orders[i]))
                                        IN n * (n - 1)])
    BY <1>1, <1>2, PairsAddUp
  <1> QED
    BY <1>7, <1>9, <1>10, <1>11, Zenon DEF MoneyAddsUp, today, start

\* To the last unit, and to the last pair of products, the week's figures are
\* those of its lines, whatever the orders, prices and fees
\* (services/dashboard.py:340-366, 501-647, 689-738).
THEOREM MoneyAddsUpAlways == Spec => []MoneyAddsUp
  BY MoneyAddsUpThen, DataInvAlways, PTL
==============================================================================
