-------------------------- MODULE BotOrdersProofs ---------------------------
(***************************************************************************)
(* The trade book of BotOrders for any symbols, plans and bounds: what is  *)
(* tracked is open, in memory and on file, a restart leaves no position    *)
(* without an open trade but those in expiring contracts that the book     *)
(* does not account for, none is adopted twice, and an entry is closed at  *)
(* most once by each thread in each life.                                  *)
(***************************************************************************)
EXTENDS BotOrders, FiniteSetTheorems, SequenceTheorems, WellFoundedInduction, TLAPS

-----------------------------------------------------------------------------
(* Sequences of anything.                                                  *)

Sequence(s) == \E S : s \in Seq(S)

LEMMA SequenceFacts ==
    ASSUME NEW s, Sequence(s)
    PROVE  /\ Len(s) \in Nat
           /\ DOMAIN s = 1..Len(s)
BY DEF Sequence

LEMMA TableSequence ==
    ASSUME NEW n \in Nat, NEW t, t = [k \in 1..n |-> t[k]]
    PROVE  Sequence(t) /\ Len(t) = n
<1> DEFINE S == {t[k] : k \in 1..n}
<1>1. t \in [1..n -> S]
    OBVIOUS
<1> HIDE DEF S
<1>2. t \in Seq(S) /\ Len(t) = n
    BY <1>1
<1> QED BY <1>2 DEF Sequence

LEMMA AppendSequence ==
    ASSUME NEW s, Sequence(s), NEW x
    PROVE  /\ Sequence(Append(s, x))
           /\ Len(Append(s, x)) = Len(s) + 1
           /\ \A i \in 1..Len(s) : Append(s, x)[i] = s[i]
           /\ Append(s, x)[Len(s) + 1] = x
<1>1. PICK S : s \in Seq(S)
    BY DEF Sequence
<1>2. s \in Seq(S \cup {x}) /\ x \in S \cup {x}
    BY <1>1
<1> QED BY <1>2, AppendProperties DEF Sequence

LEMMA ConcatSequence ==
    ASSUME NEW s, NEW r, Sequence(s), Sequence(r)
    PROVE  /\ Sequence(s \o r)
           /\ Len(s \o r) = Len(s) + Len(r)
           /\ \A i \in 1..Len(s) : (s \o r)[i] = s[i]
           /\ \A i \in 1..Len(r) : (s \o r)[Len(s) + i] = r[i]
<1>1. PICK S : s \in Seq(S)
    BY DEF Sequence
<1>2. PICK R : r \in Seq(R)
    BY DEF Sequence
<1>3. s \in Seq(S \cup R) /\ r \in Seq(S \cup R)
    BY <1>1, <1>2
<1>4. s \o r \in Seq(S \cup R)
    BY <1>3
<1>5. /\ Len(s) \in Nat /\ Len(r) \in Nat
      /\ Len(s \o r) = Len(s) + Len(r)
      /\ \A i \in 1..(Len(s) + Len(r)) :
            (s \o r)[i] = IF i <= Len(s) THEN s[i] ELSE r[i - Len(s)]
    BY <1>3, ConcatProperties
<1> QED BY <1>4, <1>5 DEF Sequence

LEMMA TailSequence ==
    ASSUME NEW s, Sequence(s), s # <<>>
    PROVE  /\ Sequence(Tail(s))
           /\ \A i \in DOMAIN Tail(s) : i + 1 \in DOMAIN s /\ Tail(s)[i] = s[i + 1]
<1>1. PICK S : s \in Seq(S)
    BY DEF Sequence
<1>2. /\ Tail(s) \in Seq(S)
      /\ Len(Tail(s)) = Len(s) - 1
      /\ \A i \in 1..Len(Tail(s)) : Tail(s)[i] = s[i + 1]
    BY <1>1, HeadTailProperties
<1>3. Len(s) \in Nat /\ DOMAIN s = 1..Len(s) /\ DOMAIN Tail(s) = 1..Len(Tail(s))
    BY <1>1, <1>2
<1> QED BY <1>2, <1>3 DEF Sequence

\* The enumeration of a finite set names each element once.
LEMMA Enumeration ==
    ASSUME NEW S, IsFiniteSet(S)
    PROVE  /\ Cardinality(S) \in Nat
           /\ SetToSeq(S) \in [1..Cardinality(S) -> S]
           /\ \A i, j \in 1..Cardinality(S) : SetToSeq(S)[i] = SetToSeq(S)[j] => i = j
           /\ Range(SetToSeq(S)) = S
<1> DEFINE n == Cardinality(S)
           e == SetToSeq(S)
<1>1. n \in Nat
    BY FS_CardinalityType
<1>2. \E f : f \in Bijection(1..n, S)
    <2>1. ExistsBijection(1..n, S)
        BY FS_CardinalityType
    <2> QED BY <2>1 DEF ExistsBijection
<1>3. \E f \in [1..n -> S] : IsInjective(f)
    BY <1>2 DEF Bijection, Injection
<1>4. e \in [1..n -> S] /\ IsInjective(e)
    BY <1>3 DEF SetToSeq
<1>5. e \in Injection(1..n, S)
    BY <1>4 DEF Injection
<1>6. IsFiniteSet(1..n) /\ Cardinality(1..n) = n
    BY <1>1, FS_Interval
<1> HIDE DEF n, e
<1>7. e \in Surjection(1..n, S)
    BY <1>5, <1>6, FS_Injection DEF n
<1>8. Range(e) = S
    BY <1>4, <1>7 DEF Surjection, Range
<1>9. \A i, j \in 1..n : e[i] = e[j] => i = j
    BY <1>4 DEF IsInjective
<1> QED BY <1>1, <1>4, <1>8, <1>9 DEF n, e

-----------------------------------------------------------------------------
(* The books.                                                              *)

IsLeg(l) == {"symbol", "order", "closing"} \subseteq DOMAIN l

IsLegs(ls) == Sequence(ls) /\ \A i \in DOMAIN ls : IsLeg(ls[i])

IsTrade(t) == {"legs", "closed", "orphan"} \subseteq DOMAIN t /\ IsLegs(t.legs)

IsBook(ts) == Sequence(ts) /\ \A t \in DOMAIN ts : IsTrade(ts[t])

\* An adopted position stays tracked for its trade until that is closed.
OrphansTracked(ts, map) ==
    \A t \in DOMAIN ts :
        ts[t].orphan /\ ~ts[t].closed =>
            /\ 1 \in DOMAIN ts[t].legs
            /\ ts[t].legs[1].symbol \in DOMAIN map
            /\ map[ts[t].legs[1].symbol] = t

BookOK(ts, map) ==
    IsBook(ts) /\ TracksOpenTrades(ts, map) /\ OrphansTracked(ts, map)

\* us is ts with legs added or with other statuses.
Grown(ts, us) ==
    /\ DOMAIN us = DOMAIN ts
    /\ \A t \in DOMAIN ts :
         /\ us[t].closed = ts[t].closed
         /\ us[t].orphan = ts[t].orphan
         /\ DOMAIN ts[t].legs \subseteq DOMAIN us[t].legs
         /\ \A i \in DOMAIN ts[t].legs : us[t].legs[i].symbol = ts[t].legs[i].symbol

LEMMA GrownKeeps ==
    ASSUME NEW ts, NEW us, NEW map, Grown(ts, us), IsBook(us), BookOK(ts, map)
    PROVE  BookOK(us, map)
<1>1. TracksOpenTrades(us, map)
    BY DEF Grown, BookOK, TracksOpenTrades
<1>2. OrphansTracked(us, map)
    BY DEF Grown, BookOK, OrphansTracked
<1> QED BY <1>1, <1>2 DEF BookOK

\* The file shows the book that was saved.
LEMMA SavedGrown ==
    ASSUME NEW ts, NEW map, IsBook(ts)
    PROVE  /\ Saved(ts, map).tracked = map
           /\ IsBook(Saved(ts, map).trades)
           /\ Grown(ts, Saved(ts, map).trades)
           /\ \A t \in DOMAIN ts :
                /\ DOMAIN Saved(ts, map).trades[t].legs = DOMAIN ts[t].legs
                /\ \A i \in DOMAIN ts[t].legs :
                     /\ Saved(ts, map).trades[t].legs[i].order = ts[t].legs[i].order
                     /\ Saved(ts, map).trades[t].legs[i].closing = ts[t].legs[i].closing
<1> DEFINE us == [t \in DOMAIN ts |->
                   [ts[t] EXCEPT !.legs = [i \in DOMAIN @ |->
                       [@[i] EXCEPT !.status = StatusOf(ts[t].legs[i])]]]]
<1>1. Saved(ts, map).tracked = map /\ Saved(ts, map).trades = us
    BY DEF Saved
<1>2. ASSUME NEW t \in DOMAIN ts
      PROVE  /\ us[t].closed = ts[t].closed
             /\ us[t].orphan = ts[t].orphan
             /\ us[t].legs = [i \in DOMAIN ts[t].legs |->
                   [ts[t].legs[i] EXCEPT !.status = StatusOf(ts[t].legs[i])]]
             /\ DOMAIN us[t] = DOMAIN ts[t]
    BY DEF IsBook, IsTrade
<1>3. DOMAIN us = DOMAIN ts
    OBVIOUS
<1> HIDE DEF us
<1>4. ASSUME NEW t \in DOMAIN ts, NEW i \in DOMAIN ts[t].legs
      PROVE  /\ us[t].legs[i].symbol = ts[t].legs[i].symbol
             /\ us[t].legs[i].order = ts[t].legs[i].order
             /\ us[t].legs[i].closing = ts[t].legs[i].closing
             /\ IsLeg(us[t].legs[i])
    <2> DEFINE l == ts[t].legs[i]
    <2>1. us[t].legs[i] = [l EXCEPT !.status = StatusOf(l)]
        BY <1>2
    <2>2. IsLeg(l)
        BY DEF IsBook, IsTrade, IsLegs
    <2> HIDE DEF l
    <2>3. /\ IsLeg([l EXCEPT !.status = StatusOf(l)])
          /\ [l EXCEPT !.status = StatusOf(l)].symbol = l.symbol
          /\ [l EXCEPT !.status = StatusOf(l)].order = l.order
          /\ [l EXCEPT !.status = StatusOf(l)].closing = l.closing
        BY <2>2 DEF IsLeg
    <2> QED BY <2>1, <2>3 DEF l
<1>5. ASSUME NEW t \in DOMAIN ts
      PROVE  IsTrade(us[t])
    <2>1. Sequence(ts[t].legs)
        BY DEF IsBook, IsTrade, IsLegs
    <2>2. Len(ts[t].legs) \in Nat /\ DOMAIN ts[t].legs = 1..Len(ts[t].legs)
        BY <2>1, SequenceFacts
    <2>3. us[t].legs = [i \in 1..Len(ts[t].legs) |-> us[t].legs[i]]
        BY <1>2, <2>2, Zenon
    <2>4. Sequence(us[t].legs)
        BY <2>2, <2>3, TableSequence
    <2> QED BY <1>2, <1>4, <2>4 DEF IsBook, IsTrade, IsLegs
<1>6. Sequence(us)
    <2>1. Len(ts) \in Nat /\ DOMAIN ts = 1..Len(ts)
        BY SequenceFacts DEF IsBook
    <2>2. us = [t \in 1..Len(ts) |-> us[t]]
        BY <2>1, Zenon DEF us
    <2> QED BY <2>1, <2>2, TableSequence
<1>7. IsBook(us)
    BY <1>3, <1>5, <1>6 DEF IsBook
<1>8. Grown(ts, us)
    BY <1>2, <1>3, <1>4 DEF Grown
<1>9. \A t \in DOMAIN ts :
          /\ DOMAIN us[t].legs = DOMAIN ts[t].legs
          /\ \A i \in DOMAIN ts[t].legs : /\ us[t].legs[i].order = ts[t].legs[i].order
                                        /\ us[t].legs[i].closing = ts[t].legs[i].closing
    BY <1>2, <1>4
<1> QED BY <1>1, <1>7, <1>8, <1>9

LEMMA SavedOK ==
    ASSUME NEW ts, NEW map, BookOK(ts, map)
    PROVE  BookOK(Saved(ts, map).trades, Saved(ts, map).tracked)
BY SavedGrown, GrownKeeps DEF BookOK

\* A registered trade is tracked for the symbols nobody tracked.
LEMMA RegisterOK ==
    ASSUME NEW ts, NEW map, BookOK(ts, map), NEW legs, IsLegs(legs)
    PROVE  BookOK(Append(ts, Trade(legs, FALSE)),
                  Tracking(map, {legs[i].symbol : i \in DOMAIN legs}, Len(ts) + 1))
<1> DEFINE n  == Len(ts) + 1
           us == Append(ts, Trade(legs, FALSE))
           symbols == {legs[i].symbol : i \in DOMAIN legs}
           new == Tracking(map, symbols, n)
<1>1. /\ Sequence(us) /\ DOMAIN us = DOMAIN ts \cup {n}
      /\ \A t \in DOMAIN ts : us[t] = ts[t]
      /\ us[n] = Trade(legs, FALSE)
      /\ n \notin DOMAIN ts
    <2>1. /\ Sequence(us) /\ Len(us) = Len(ts) + 1
          /\ \A i \in 1..Len(ts) : us[i] = ts[i]
          /\ us[Len(ts) + 1] = Trade(legs, FALSE)
        <3>1. Sequence(ts)
            BY DEF BookOK, IsBook
        <3> DEFINE new_trade == Trade(legs, FALSE)
        <3> HIDE DEF new_trade
        <3>2. /\ Sequence(Append(ts, new_trade))
              /\ Len(Append(ts, new_trade)) = Len(ts) + 1
              /\ \A i \in 1..Len(ts) : Append(ts, new_trade)[i] = ts[i]
              /\ Append(ts, new_trade)[Len(ts) + 1] = new_trade
            BY <3>1, AppendSequence
        <3> QED BY <3>2 DEF new_trade
    <2>2. Len(ts) \in Nat /\ DOMAIN ts = 1..Len(ts) /\ DOMAIN us = 1..Len(us)
        BY <2>1, SequenceFacts DEF BookOK, IsBook
    <2> HIDE DEF us
    <2> QED BY <2>1, <2>2
<1>2. /\ us[n].legs = legs /\ us[n].closed = FALSE /\ us[n].orphan = FALSE
      /\ IsTrade(us[n])
    BY <1>1 DEF Trade, IsTrade
<1>3. /\ DOMAIN new = DOMAIN map \cup symbols
      /\ \A s \in DOMAIN map : new[s] = map[s]
      /\ \A s \in symbols \ DOMAIN map : new[s] = n
    BY DEF Tracking
<1> HIDE DEF us, new, n
<1>4. IsBook(us)
    BY <1>1, <1>2 DEF BookOK, IsBook
<1>5. ASSUME NEW s \in DOMAIN new
      PROVE  /\ new[s] \in DOMAIN us
             /\ ~us[new[s]].closed
             /\ \E i \in DOMAIN us[new[s]].legs : us[new[s]].legs[i].symbol = s
    <2>1. CASE s \in DOMAIN map
        BY <1>1, <1>3, <2>1 DEF BookOK, TracksOpenTrades
    <2>2. CASE s \notin DOMAIN map
        <3>1. new[s] = n /\ s \in symbols
            BY <1>3, <2>2
        <3> QED BY <1>1, <1>2, <3>1
    <2> QED BY <2>1, <2>2
<1>6. ASSUME NEW t \in DOMAIN us, us[t].orphan, ~us[t].closed
      PROVE  /\ 1 \in DOMAIN us[t].legs
             /\ us[t].legs[1].symbol \in DOMAIN new
             /\ new[us[t].legs[1].symbol] = t
    <2>1. t \in DOMAIN ts /\ us[t] = ts[t]
        BY <1>1, <1>2, <1>6
    <2>2. /\ 1 \in DOMAIN ts[t].legs
          /\ ts[t].legs[1].symbol \in DOMAIN map
          /\ map[ts[t].legs[1].symbol] = t
        BY <1>6, <2>1 DEF BookOK, OrphansTracked
    <2> QED BY <1>3, <2>1, <2>2
<1>7. TracksOpenTrades(us, new) /\ OrphansTracked(us, new)
    BY <1>5, <1>6, Zenon DEF TracksOpenTrades, OrphansTracked
<1> QED BY <1>4, <1>7 DEF BookOK, us, new, n

\* A closed trade is tracked for nothing, and nobody else's symbol is lost.
LEMMA ClosedOK ==
    ASSUME NEW ts, NEW map, BookOK(ts, map), NEW t
    PROVE  BookOK([ts EXCEPT ![t].closed = TRUE], Untracking(map, t))
<1> DEFINE us  == [ts EXCEPT ![t].closed = TRUE]
           new == Untracking(map, t)
<1>1. DOMAIN us = DOMAIN ts
    OBVIOUS
<1>2. ASSUME NEW u \in DOMAIN ts
      PROVE  /\ us[u].legs = ts[u].legs /\ us[u].orphan = ts[u].orphan
             /\ DOMAIN us[u] = DOMAIN ts[u]
             /\ us[u].closed = IF u = t THEN TRUE ELSE ts[u].closed
    BY DEF BookOK, IsBook, IsTrade
<1>3. /\ DOMAIN new = {x \in DOMAIN map : map[x] # t}
      /\ \A s \in DOMAIN new : new[s] = map[s]
    BY DEF Untracking
<1>4. Sequence(us)
    <2>1. Len(ts) \in Nat /\ DOMAIN ts = 1..Len(ts)
        BY SequenceFacts DEF BookOK, IsBook
    <2>2. us = [u \in 1..Len(ts) |-> us[u]]
        BY <2>1
    <2> QED BY <2>1, <2>2, TableSequence
<1> HIDE DEF us, new
<1>5. IsBook(us)
    BY <1>1, <1>2, <1>4 DEF BookOK, IsBook, IsTrade
<1>6. ASSUME NEW s \in DOMAIN new
      PROVE  /\ new[s] \in DOMAIN us
             /\ ~us[new[s]].closed
             /\ \E i \in DOMAIN us[new[s]].legs : us[new[s]].legs[i].symbol = s
    <2>1. s \in DOMAIN map /\ new[s] = map[s] /\ map[s] # t
        BY <1>3
    <2>2. /\ map[s] \in DOMAIN ts
          /\ ~ts[map[s]].closed
          /\ \E i \in DOMAIN ts[map[s]].legs : ts[map[s]].legs[i].symbol = s
        BY <2>1 DEF BookOK, TracksOpenTrades
    <2> QED BY <1>1, <1>2, <2>1, <2>2
<1>7. ASSUME NEW u \in DOMAIN us, us[u].orphan, ~us[u].closed
      PROVE  /\ 1 \in DOMAIN us[u].legs
             /\ us[u].legs[1].symbol \in DOMAIN new
             /\ new[us[u].legs[1].symbol] = u
    <2>1. u \in DOMAIN ts /\ u # t /\ ts[u].orphan /\ ~ts[u].closed
        BY <1>1, <1>2, <1>7
    <2>2. /\ 1 \in DOMAIN ts[u].legs
          /\ ts[u].legs[1].symbol \in DOMAIN map
          /\ map[ts[u].legs[1].symbol] = u
        BY <2>1 DEF BookOK, OrphansTracked
    <2>3. us[u].legs = ts[u].legs
        BY <1>2, <2>1
    <2> QED BY <1>3, <2>1, <2>2, <2>3
<1>8. TracksOpenTrades(us, new) /\ OrphansTracked(us, new)
    BY <1>6, <1>7, Zenon DEF TracksOpenTrades, OrphansTracked
<1> QED BY <1>5, <1>8 DEF BookOK, us, new

\* The trades of the adopted positions, and what their symbols become.
AdoptedTrades(ts, S) == ts \o Each(S, Adopted)

AdoptedMap(ts, map, S) ==
    LET found == SetToSeq(S)
    IN  [s \in DOMAIN map \cup S |->
            IF s \in DOMAIN map
            THEN map[s]
            ELSE Len(ts) + (CHOOSE k \in DOMAIN found : found[k] = s)]

LEMMA AdoptedOK ==
    ASSUME NEW ts, NEW map, BookOK(ts, map),
           NEW S, S \subseteq Untracked(map), IsFiniteSet(S)
    PROVE  /\ BookOK(AdoptedTrades(ts, S), AdoptedMap(ts, map, S))
           /\ \A s \in DOMAIN map \cup S :
                /\ s \in DOMAIN AdoptedMap(ts, map, S)
                /\ ~AdoptedTrades(ts, S)[AdoptedMap(ts, map, S)[s]].closed
           /\ \A t \in DOMAIN AdoptedTrades(ts, S) :
                \/ t \in DOMAIN ts /\ AdoptedTrades(ts, S)[t] = ts[t]
                \/ \E s : AdoptedTrades(ts, S)[t] = Adopted(s)
<1> DEFINE n == Cardinality(S)
           added == Each(S, Adopted)
           found == SetToSeq(S)
           us == AdoptedTrades(ts, S)
           new == AdoptedMap(ts, map, S)
<1>0. /\ us = ts \o added
      /\ new = [s \in DOMAIN map \cup S |->
                    IF s \in DOMAIN map
                    THEN map[s]
                    ELSE Len(ts) + (CHOOSE k \in DOMAIN found : found[k] = s)]
    BY DEF AdoptedTrades, AdoptedMap
<1> HIDE DEF us, new
<1>1. /\ n \in Nat /\ DOMAIN found = 1..n /\ \A k \in 1..n : found[k] \in S
      /\ \A i, j \in 1..n : found[i] = found[j] => i = j
      /\ Range(found) = S
    BY Enumeration
<1>2. Sequence(added) /\ Len(added) = n /\ \A k \in 1..n : added[k] = Adopted(found[k])
    <2>1. added = [k \in 1..n |-> Adopted(found[k])]
        BY DEF Each
    <2> HIDE DEF added, n, found
    <2>2. added = [k \in 1..n |-> added[k]]
        BY <2>1
    <2> QED BY <1>1, <2>1, <2>2, TableSequence
<1>3. ASSUME NEW s
      PROVE  /\ IsTrade(Adopted(s)) /\ Adopted(s).orphan /\ ~Adopted(s).closed
             /\ 1 \in DOMAIN Adopted(s).legs /\ Adopted(s).legs[1].symbol = s
             /\ \A i \in DOMAIN Adopted(s).legs : i = 1
    <2> DEFINE l == IF position[s] > 0
                    THEN Leg(0, s, Buy, position[s], FALSE, "COMPLETE")
                    ELSE Leg(0, s, Sell, -position[s], FALSE, "COMPLETE")
    <2>1. IsLeg(l) /\ l.symbol = s
        BY DEF Leg, IsLeg
    <2>2. Adopted(s) = Trade(<<l>>, TRUE)
        BY DEF Adopted
    <2> HIDE DEF l
    <2>3. Sequence(<<l>>) /\ DOMAIN <<l>> = {1} /\ <<l>>[1] = l
        <3>1. <<l>> \in Seq({l})
            OBVIOUS
        <3>2. DOMAIN <<l>> = {1} /\ <<l>>[1] = l
            OBVIOUS
        <3> QED BY <3>1, <3>2 DEF Sequence
    <2>4. IsLegs(<<l>>)
        BY <2>1, <2>3 DEF IsLegs
    <2>5. /\ {"legs", "closed", "orphan"} \subseteq DOMAIN Trade(<<l>>, TRUE)
          /\ Trade(<<l>>, TRUE).legs = <<l>> /\ Trade(<<l>>, TRUE).orphan
          /\ ~Trade(<<l>>, TRUE).closed
        BY DEF Trade
    <2> QED BY <2>1, <2>2, <2>3, <2>4, <2>5 DEF IsTrade
<1>4. /\ Len(ts) \in Nat /\ DOMAIN ts = 1..Len(ts)
      /\ Sequence(us) /\ DOMAIN us = 1..(Len(ts) + n)
      /\ \A t \in DOMAIN ts : us[t] = ts[t]
      /\ \A k \in 1..n : us[Len(ts) + k] = Adopted(found[k])
    <2>1. Sequence(ts) /\ us = ts \o added
        BY <1>0 DEF BookOK, IsBook
    <2> HIDE DEF added
    <2>3. Sequence(ts) /\ Sequence(added)
        BY <1>2, <2>1
    <2>4. /\ Sequence(ts \o added) /\ Len(ts \o added) = Len(ts) + Len(added)
          /\ \A i \in 1..Len(ts) : (ts \o added)[i] = ts[i]
          /\ \A i \in 1..Len(added) : (ts \o added)[Len(ts) + i] = added[i]
        BY ONLY <2>3, ConcatSequence
    <2>2. /\ Sequence(us) /\ Len(us) = Len(ts) + Len(added)
          /\ \A i \in 1..Len(ts) : us[i] = ts[i]
          /\ \A i \in 1..Len(added) : us[Len(ts) + i] = added[i]
        BY <2>1, <2>4, Zenon
    <2> QED BY <1>2, <2>1, <2>2, SequenceFacts
<1>5. /\ DOMAIN new = DOMAIN map \cup S
      /\ \A s \in DOMAIN map : new[s] = map[s]
      /\ S \cap DOMAIN map = {}
    BY <1>0, <1>1 DEF Untracked
<1>6. \A k \in 1..n : new[found[k]] = Len(ts) + k
    <2> SUFFICES ASSUME NEW k \in 1..n
                 PROVE  new[found[k]] = Len(ts) + k
        OBVIOUS
    <2>1. found[k] \in DOMAIN new /\ found[k] \notin DOMAIN map
        BY <1>1, <1>5
    <2>2. new[found[k]] = Len(ts) + (CHOOSE j \in DOMAIN found : found[j] = found[k])
        BY <1>0, <1>1, <1>5, <2>1
    <2>3. (CHOOSE j \in DOMAIN found : found[j] = found[k]) = k
        BY <1>1
    <2> QED BY <2>2, <2>3
<1>7. \A s \in S : \E k \in 1..n : s = found[k]
    BY <1>1 DEF Range
<1> HIDE DEF n, added, found
<1>8. ASSUME NEW t \in DOMAIN us, t \notin DOMAIN ts
      PROVE  \E k \in 1..n : t = Len(ts) + k /\ us[t] = Adopted(found[k])
    <2>1. t - Len(ts) \in 1..n /\ t = Len(ts) + (t - Len(ts))
        BY <1>1, <1>4, <1>8
    <2> QED BY <1>4, <2>1
<1>9. IsBook(us)
    <2>1. ASSUME NEW t \in DOMAIN us
          PROVE  IsTrade(us[t])
        <3>1. CASE t \in DOMAIN ts
            <4>1. us[t] = ts[t]
                BY <1>4, <3>1, Zenon
            <4>2. IsTrade(ts[t])
                BY <3>1, Zenon DEF BookOK, IsBook
            <4> QED BY <4>1, <4>2, Zenon
        <3>2. CASE t \notin DOMAIN ts
            <4>1. PICK k \in 1..n : us[t] = Adopted(found[k])
                BY <1>8, <3>2
            <4> QED BY <1>3, <4>1, Zenon
        <3> QED BY <3>1, <3>2
    <2> QED BY <1>4, <2>1, Zenon DEF IsBook
<1>10. ASSUME NEW s \in S
       PROVE  /\ s \in DOMAIN new /\ new[s] \in DOMAIN us /\ us[new[s]] = Adopted(s)
    <2>1. PICK k \in 1..n : s = found[k]
        BY <1>7
    <2>2. Len(ts) + k \in 1..(Len(ts) + n)
        BY <1>1, <1>4
    <2>3. s \in DOMAIN new
        BY <1>5
    <2>4. new[s] = Len(ts) + k
        BY <1>6, <2>1, Zenon
    <2> QED BY <1>4, <2>1, <2>2, <2>3, <2>4, Zenon
<1>11. ASSUME NEW s \in DOMAIN new
       PROVE  /\ new[s] \in DOMAIN us
              /\ ~us[new[s]].closed
              /\ \E i \in DOMAIN us[new[s]].legs : us[new[s]].legs[i].symbol = s
    <2>1. CASE s \in DOMAIN map
        <3>1. /\ map[s] \in DOMAIN ts
              /\ ~ts[map[s]].closed
              /\ \E i \in DOMAIN ts[map[s]].legs : ts[map[s]].legs[i].symbol = s
            BY <2>1 DEF BookOK, TracksOpenTrades
        <3>2. new[s] = map[s] /\ us[map[s]] = ts[map[s]] /\ map[s] \in DOMAIN us
            BY <1>1, <1>4, <1>5, <2>1, <3>1
        <3> QED BY <3>1, <3>2
    <2>2. CASE s \in S
        <3>1. us[new[s]] = Adopted(s) /\ new[s] \in DOMAIN us
            BY <1>10, <2>2, Zenon
        <3>2. ~Adopted(s).closed /\ 1 \in DOMAIN Adopted(s).legs
              /\ Adopted(s).legs[1].symbol = s
            BY <1>3, Zenon
        <3> QED BY <3>1, <3>2, Zenon
    <2> QED BY <1>5, <2>1, <2>2
<1>12. ASSUME NEW t \in DOMAIN us, us[t].orphan, ~us[t].closed
       PROVE  /\ 1 \in DOMAIN us[t].legs
              /\ us[t].legs[1].symbol \in DOMAIN new
              /\ new[us[t].legs[1].symbol] = t
    <2>1. CASE t \in DOMAIN ts
        <3>1. /\ 1 \in DOMAIN ts[t].legs
              /\ ts[t].legs[1].symbol \in DOMAIN map
              /\ map[ts[t].legs[1].symbol] = t
            BY <1>4, <1>12, <2>1 DEF BookOK, OrphansTracked
        <3> QED BY <1>4, <1>5, <2>1, <3>1
    <2>2. CASE t \notin DOMAIN ts
        <3>1. PICK k \in 1..n : t = Len(ts) + k /\ us[t] = Adopted(found[k])
            BY <1>8, <2>2
        <3>2. found[k] \in S
            BY <1>1
        <3>3. 1 \in DOMAIN us[t].legs /\ us[t].legs[1].symbol = found[k]
            BY <1>3, <3>1, Zenon
        <3>4. found[k] \in DOMAIN new /\ new[found[k]] = t
            BY <1>5, <1>6, <3>1, <3>2, Zenon
        <3> QED BY <3>3, <3>4, Zenon
    <2> QED BY <2>1, <2>2
<1>13. TracksOpenTrades(us, new) /\ OrphansTracked(us, new)
    BY <1>11, <1>12, Zenon DEF TracksOpenTrades, OrphansTracked
<1>14. ASSUME NEW s \in DOMAIN map \cup S
       PROVE  s \in DOMAIN new /\ ~us[new[s]].closed
    <2>1. s \in DOMAIN new
        BY <1>5
    <2> QED BY <1>11, <2>1
<1>15. \A t \in DOMAIN us : (t \in DOMAIN ts /\ us[t] = ts[t]) \/ \E s : us[t] = Adopted(s)
    BY <1>4, <1>8
<1> QED BY <1>9, <1>13, <1>14, <1>15 DEF BookOK, us, new

-----------------------------------------------------------------------------
(* The jobs: what a thread has placed for an entry is a list of legs.      *)

TaskOK(task) ==
    task.op = "open" => "op" \in DOMAIN task /\ "placed" \in DOMAIN task
                        /\ IsLegs(task.placed)

Tasks(j) == Sequence(j) /\ \A i \in DOMAIN j : TaskOK(j[i])

JobOK == DOMAIN job = Threads /\ \A th \in Threads : Tasks(job[th])

LEMMA NoTasks == Tasks(<<>>)
<1>1. <<>> \in Seq({}) /\ DOMAIN <<>> = {}
    OBVIOUS
<1> QED BY <1>1 DEF Tasks, Sequence

LEMMA OneTask ==
    ASSUME NEW a, TaskOK(a)
    PROVE  Tasks(<<a>>)
<1>1. <<a>> \in Seq({a}) /\ DOMAIN <<a>> = {1} /\ <<a>>[1] = a
    OBVIOUS
<1> QED BY <1>1 DEF Tasks, Sequence

LEMMA MoreTasks ==
    ASSUME NEW j, NEW r, Tasks(j), Tasks(r)
    PROVE  Tasks(j \o r)
<1>1. /\ Sequence(j \o r) /\ Len(j \o r) = Len(j) + Len(r)
      /\ \A i \in 1..Len(j) : (j \o r)[i] = j[i]
      /\ \A i \in 1..Len(r) : (j \o r)[Len(j) + i] = r[i]
    BY ConcatSequence DEF Tasks
<1>2. /\ Len(j) \in Nat /\ DOMAIN j = 1..Len(j)
      /\ Len(r) \in Nat /\ DOMAIN r = 1..Len(r)
      /\ DOMAIN (j \o r) = 1..Len(j \o r)
    BY <1>1, SequenceFacts DEF Tasks
<1>3. ASSUME NEW i \in DOMAIN (j \o r)
      PROVE  TaskOK((j \o r)[i])
    <2>1. CASE i \in 1..Len(j)
        BY <1>1, <1>2, <2>1 DEF Tasks
    <2>2. CASE i \notin 1..Len(j)
        <3>1. i - Len(j) \in 1..Len(r) /\ i = Len(j) + (i - Len(j))
            BY <1>1, <1>2, <2>2
        <3> QED BY <1>1, <1>2, <3>1 DEF Tasks
    <2> QED BY <2>1, <2>2
<1> QED BY <1>1, <1>3 DEF Tasks

LEMMA FewerTasks ==
    ASSUME NEW j, Tasks(j), j # <<>>
    PROVE  Tasks(Tail(j)) /\ TaskOK(Head(j))
<1>1. /\ Sequence(Tail(j))
      /\ \A i \in DOMAIN Tail(j) : i + 1 \in DOMAIN j /\ Tail(j)[i] = j[i + 1]
    BY TailSequence DEF Tasks
<1>2. PICK S : j \in Seq(S)
    BY DEF Tasks, Sequence
<1>3. Head(j) = j[1] /\ 1 \in DOMAIN j
    BY <1>2
<1> QED BY <1>1, <1>3 DEF Tasks

LEMMA TableTasks ==
    ASSUME NEW n \in Nat, NEW t, t = [k \in 1..n |-> t[k]],
           \A k \in 1..n : TaskOK(t[k])
    PROVE  Tasks(t)
<1>1. Sequence(t) /\ Len(t) = n
    BY TableSequence
<1>2. DOMAIN t = 1..n
    OBVIOUS
<1> QED BY <1>1, <1>2 DEF Tasks

LEMMA BecomesOK ==
    ASSUME JobOK, NEW th \in Threads, job[th] # <<>>, NEW tasks, Tasks(tasks),
           Becomes(th, tasks)
    PROVE  JobOK'
<1>1. Tasks(tasks \o Tail(job[th]))
    BY FewerTasks, MoreTasks DEF JobOK
<1>2. DOMAIN job' = Threads
    BY DEF Becomes, JobOK
<1>3. ASSUME NEW u \in Threads
      PROVE  job'[u] = IF u = th THEN tasks \o Tail(job[th]) ELSE job[u]
    BY DEF Becomes, JobOK
<1> QED BY <1>1, <1>2, <1>3 DEF JobOK

LEMMA DoneOK ==
    ASSUME JobOK, NEW th \in Threads, job[th] # <<>>, Done(th)
    PROVE  JobOK'
BY NoTasks, BecomesOK DEF Done

LEMMA TakeOK ==
    ASSUME JobOK, NEW th \in Threads, NEW tasks, Tasks(tasks), Take(th, tasks)
    PROVE  JobOK'
BY DEF Take, JobOK

\* The lists of closes and of sweeps hold no entry.
LEMMA ListsOK ==
    ASSUME IsFiniteSet(OpenTrades), IsFiniteSet(Held)
    PROVE  /\ Tasks(SquareOffAll) /\ Tasks(KillTasks)
           /\ \A S \in SUBSET Held : Tasks(Each(S, Flatten))
           /\ Tasks(<<Sweep>>) /\ Tasks(<<ForceSquare>>) /\ Tasks(<<HardKill>>)
           /\ Tasks(<<Orphans>>)
<1>1. /\ TaskOK(Sweep) /\ TaskOK(ForceSquare) /\ TaskOK(HardKill) /\ TaskOK(Orphans)
      /\ \A s : TaskOK(Flatten(s))
      /\ \A t, recheck : TaskOK(Close(t, recheck))
    BY DEF TaskOK, Sweep, ForceSquare, HardKill, Orphans, Flatten, Close
<1>2. Cardinality(OpenTrades) \in Nat
    BY FS_CardinalityType
<1>3. Tasks(SquareOffAll)
    <2> DEFINE j == SquareOffAll
    <2>1. j = [k \in 1..Cardinality(OpenTrades) |->
                  Close(SetToSeq(OpenTrades)[k], TRUE)]
        BY DEF SquareOffAll, Each
    <2> HIDE DEF j
    <2>2. j = [k \in 1..Cardinality(OpenTrades) |-> j[k]]
        BY <2>1
    <2>3. Tasks(j)
        BY <1>1, <1>2, <2>1, <2>2, TableTasks
    <2> QED BY <2>3 DEF j
<1>4. ASSUME NEW S \in SUBSET Held
      PROVE  Tasks(Each(S, Flatten))
    <2> DEFINE j == Each(S, Flatten)
    <2>1. j = [k \in 1..Cardinality(S) |-> Flatten(SetToSeq(S)[k])]
        BY DEF Each
    <2> HIDE DEF j
    <2>2. j = [k \in 1..Cardinality(S) |-> j[k]]
        BY <2>1
    <2>3. Cardinality(S) \in Nat
        BY FS_Subset, FS_CardinalityType
    <2>4. Tasks(j)
        BY <1>1, <2>1, <2>2, <2>3, TableTasks
    <2> QED BY <2>4 DEF j
<1>5. /\ Tasks(<<Sweep>>) /\ Tasks(<<ForceSquare>>) /\ Tasks(<<HardKill>>)
      /\ Tasks(<<Orphans>>)
    BY <1>1, OneTask
<1>6. Tasks(KillTasks)
    <2> DEFINE j == Each(OpenTrades, LAMBDA t : Close(t, FALSE))
    <2>1. j = [k \in 1..Cardinality(OpenTrades) |->
                  Close(SetToSeq(OpenTrades)[k], FALSE)]
        BY DEF Each
    <2>2. KillTasks = j \/ KillTasks = <<Sweep>>
        BY DEF KillTasks
    <2> HIDE DEF j
    <2>3. j = [k \in 1..Cardinality(OpenTrades) |-> j[k]]
        BY <2>1
    <2>4. Tasks(j)
        BY <1>1, <1>2, <2>1, <2>3, TableTasks
    <2> QED BY <1>5, <2>2, <2>4
<1> QED BY <1>3, <1>4, <1>5, <1>6

-----------------------------------------------------------------------------
(* The invariant.                                                          *)

BookInv ==
    /\ BookOK(trades, tracked)
    /\ BookOK(file.trades, file.tracked)
    /\ JobOK

LEMMA FiniteBooks ==
    ASSUME BookOK(trades, tracked)
    PROVE  IsFiniteSet(OpenTrades) /\ IsFiniteSet(Held)
<1>1. IsFiniteSet(1..Len(trades))
    BY SequenceFacts, FS_Interval DEF BookOK, IsBook
<1>2. OpenTrades \subseteq 1..Len(trades)
    BY SequenceFacts DEF BookOK, IsBook, OpenTrades
<1>3. Held \subseteq Symbols
    BY DEF Held
<1> QED BY <1>1, <1>2, <1>3, BrokerParameters, FS_Subset

LEMMA InitBooks == BotInit => BookInv
<1> SUFFICES ASSUME BotInit
             PROVE  BookInv
    OBVIOUS
<1>1. BookOK(<<>>, [s \in {} |-> 0])
    <2>1. <<>> \in Seq({}) /\ DOMAIN <<>> = {}
        OBVIOUS
    <2> QED BY <2>1 DEF BookOK, IsBook, Sequence, TracksOpenTrades, OrphansTracked
<1>2. JobOK
    BY NoTasks DEF BotInit, JobOK
<1>3. /\ trades = <<>> /\ tracked = [s \in {} |-> 0]
      /\ file.trades = <<>> /\ file.tracked = [s \in {} |-> 0]
    BY DEF BotInit
<1> QED BY <1>1, <1>2, <1>3 DEF BookInv

LEMMA UntouchedBooks ==
    ASSUME BookInv, UNCHANGED bookVars, JobOK'
    PROVE  BookInv'
BY DEF BookInv, bookVars

\* A trade that is registered and saved.
LEMMA RegisterBooks ==
    ASSUME BookInv, NEW legs, IsLegs(legs), Register(legs), JobOK'
    PROVE  BookInv'
<1>1. BookOK(trades', tracked')
    BY RegisterOK DEF BookInv, Register
<1>2. BookOK(file'.trades, file'.tracked)
    BY <1>1, SavedOK DEF Register
<1> QED BY <1>1, <1>2 DEF BookInv

\* The brain's legs are the ones it placed, but for their status.
LEMMA BrainsLegs ==
    ASSUME NEW ls, IsLegs(ls)
    PROVE  /\ IsLegs(Brains(ls)) /\ DOMAIN Brains(ls) = DOMAIN ls
           /\ \A i \in DOMAIN ls : /\ Brains(ls)[i].order = ls[i].order
                                  /\ Brains(ls)[i].closing = ls[i].closing
<1> DEFINE bs == Brains(ls)
<1>1. Len(ls) \in Nat /\ DOMAIN ls = 1..Len(ls)
    BY SequenceFacts DEF IsLegs
<1>2. bs = [i \in 1..Len(ls) |-> [ls[i] EXCEPT !.status = "PENDING"]]
    BY <1>1 DEF Brains
<1>3. \A i \in 1..Len(ls) : IsLeg(ls[i])
    BY <1>1 DEF IsLegs
<1> HIDE DEF bs
<1>4. bs = [i \in 1..Len(ls) |-> bs[i]]
    BY <1>2
<1>5. Sequence(bs) /\ DOMAIN bs = 1..Len(ls)
    BY <1>1, <1>4, TableSequence
<1>6. ASSUME NEW i \in 1..Len(ls)
      PROVE  IsLeg(bs[i]) /\ bs[i].order = ls[i].order /\ bs[i].closing = ls[i].closing
    BY <1>2, <1>3 DEF IsLeg
<1> QED BY <1>1, <1>5, <1>6 DEF IsLegs, bs

LEMMA OpenSteps ==
    ASSUME BookInv, NEW th \in Threads, PlaceLeg(th) \/ RefuseLeg(th) \/ RegisterTrade(th)
    PROVE  BookInv'
<1> DEFINE task == Task(th)
<1>1. /\ job[th] # <<>> /\ task.op = "open"
      /\ "op" \in DOMAIN task /\ "placed" \in DOMAIN task /\ IsLegs(task.placed)
    <2>1. job[th] # <<>> /\ task.op = "open"
        BY DEF PlaceLeg, RefuseLeg, RegisterTrade, Doing, Task
    <2>2. TaskOK(task)
        BY <2>1, FewerTasks DEF BookInv, JobOK, Task
    <2> QED BY <2>1, <2>2 DEF TaskOK
<1>2. ASSUME NEW more, Becomes(th, <<more>>), UNCHANGED bookVars,
             IsLegs(more.placed), {"op", "placed"} \subseteq DOMAIN more
      PROVE  BookInv'
    <2> HIDE DEF task
    <2>1. Tasks(<<more>>)
        BY <1>2, OneTask DEF TaskOK
    <2>2. JobOK'
        BY <1>1, <1>2, <2>1, BecomesOK DEF BookInv
    <2> QED BY <1>2, <2>2, UntouchedBooks
<1>3. ASSUME NEW order, NEW symbol, NEW side, NEW status, NEW placed,
             placed = Append(task.placed, Leg(order, symbol, side, 1, FALSE, status))
      PROVE  IsLegs(placed)
    <2> DEFINE l == Leg(order, symbol, side, 1, FALSE, status)
    <2>1. IsLeg(l)
        BY DEF Leg, IsLeg
    <2> HIDE DEF l, task
    <2>2. IsLegs(Append(task.placed, l))
        <3>1. /\ Sequence(Append(task.placed, l))
              /\ Len(Append(task.placed, l)) = Len(task.placed) + 1
              /\ \A i \in 1..Len(task.placed) : Append(task.placed, l)[i] = task.placed[i]
              /\ Append(task.placed, l)[Len(task.placed) + 1] = l
            BY <1>1, AppendSequence DEF IsLegs
        <3>2. /\ Len(task.placed) \in Nat /\ DOMAIN task.placed = 1..Len(task.placed)
              /\ DOMAIN Append(task.placed, l) = 1..(Len(task.placed) + 1)
            BY <1>1, <3>1, SequenceFacts DEF IsLegs
        <3>3. ASSUME NEW i \in 1..(Len(task.placed) + 1)
              PROVE  IsLeg(Append(task.placed, l)[i])
            <4>1. CASE i = Len(task.placed) + 1
                BY <2>1, <3>1, <4>1
            <4>2. CASE i \in 1..Len(task.placed)
                BY <1>1, <3>1, <3>2, <4>2 DEF IsLegs
            <4> QED BY <3>2, <4>1, <4>2
        <3> QED BY <3>1, <3>2, <3>3 DEF IsLegs
    <2> QED BY <1>3, <2>2 DEF l
<1>4. \A plan, placed :
          LET more == [task EXCEPT !.plan = plan, !.placed = placed]
          IN  more.placed = placed /\ {"op", "placed"} \subseteq DOMAIN more
    BY <1>1
<1>5. CASE PlaceLeg(th)
    <2> DEFINE leg == Head(task.plan)
               placed == Append(task.placed,
                             Leg(Len(orders) + 1, leg.symbol, leg.side, 1, FALSE, "LIVE"))
               more == [task EXCEPT !.plan = Tail(task.plan), !.placed = placed]
    <2>1. UNCHANGED bookVars /\ Becomes(th, <<more>>)
        BY <1>5 DEF PlaceLeg
    <2>2. IsLegs(placed)
        BY <1>3
    <2>3. more.placed = placed /\ {"op", "placed"} \subseteq DOMAIN more
        BY <1>4
    <2> HIDE DEF more, placed
    <2> QED BY <1>2, <2>1, <2>2, <2>3
<1>6. CASE RefuseLeg(th)
    <2> DEFINE leg == Head(task.plan)
               kept == Append(task.placed,
                           Leg(0, leg.symbol, leg.side, 1, FALSE, "REJECTED"))
               placed == IF task.by = "execute_plan" THEN kept ELSE task.placed
               more == [task EXCEPT !.plan = Tail(task.plan), !.placed = placed]
    <2>1. UNCHANGED bookVars /\ Becomes(th, <<more>>)
        BY <1>6 DEF RefuseLeg
    <2>2. IsLegs(placed)
        <3>1. IsLegs(kept)
            BY <1>3
        <3> HIDE DEF kept
        <3> QED BY <1>1, <3>1
    <2>3. more.placed = placed /\ {"op", "placed"} \subseteq DOMAIN more
        BY <1>4
    <2> HIDE DEF more, placed
    <2> QED BY <1>2, <2>1, <2>2, <2>3
<1>7. CASE RegisterTrade(th)
    <2>1. JobOK'
        BY <1>1, <1>7, DoneOK DEF BookInv, RegisterTrade
    <2>2. \/ Register(task.placed) \/ UNCHANGED bookVars \/ Register(Brains(task.placed))
        BY <1>7 DEF RegisterTrade
    <2>3. IsLegs(Brains(task.placed))
        BY <1>1, BrainsLegs
    <2> QED BY <1>1, <2>1, <2>2, <2>3, RegisterBooks, UntouchedBooks
<1> QED BY <1>5, <1>6, <1>7

\* A trade with one more leg.
LEMMA LegAdded ==
    ASSUME NEW ts, NEW map, BookOK(ts, map), NEW t, NEW l, IsLeg(l)
    PROVE  BookOK([ts EXCEPT ![t].legs = Append(@, l)], map)
<1> DEFINE us == [ts EXCEPT ![t].legs = Append(@, l)]
<1>1. DOMAIN us = DOMAIN ts
    OBVIOUS
<1>2. ASSUME NEW u \in DOMAIN ts
      PROVE  /\ us[u].closed = ts[u].closed /\ us[u].orphan = ts[u].orphan
             /\ us[u].legs = IF u = t THEN Append(ts[u].legs, l) ELSE ts[u].legs
             /\ DOMAIN us[u] = DOMAIN ts[u]
    BY DEF BookOK, IsBook, IsTrade
<1>3. Sequence(us)
    <2>1. Len(ts) \in Nat /\ DOMAIN ts = 1..Len(ts)
        BY SequenceFacts DEF BookOK, IsBook
    <2>2. us = [u \in 1..Len(ts) |-> us[u]]
        BY <2>1
    <2> QED BY <2>1, <2>2, TableSequence
<1> HIDE DEF us
<1>4. ASSUME NEW u \in DOMAIN ts
      PROVE  /\ IsLegs(us[u].legs)
             /\ DOMAIN ts[u].legs \subseteq DOMAIN us[u].legs
             /\ \A i \in DOMAIN ts[u].legs : us[u].legs[i] = ts[u].legs[i]
    <2> DEFINE ls == ts[u].legs
    <2>1. IsLegs(ls)
        BY DEF BookOK, IsBook, IsTrade
    <2> HIDE DEF ls
    <2>2. /\ Sequence(Append(ls, l)) /\ Len(Append(ls, l)) = Len(ls) + 1
          /\ \A i \in 1..Len(ls) : Append(ls, l)[i] = ls[i]
          /\ Append(ls, l)[Len(ls) + 1] = l
        BY <2>1, AppendSequence DEF IsLegs
    <2>3. /\ Len(ls) \in Nat /\ DOMAIN ls = 1..Len(ls)
          /\ DOMAIN Append(ls, l) = 1..(Len(ls) + 1)
        BY <2>1, <2>2, SequenceFacts DEF IsLegs
    <2>4. ASSUME NEW i \in 1..(Len(ls) + 1)
          PROVE  IsLeg(Append(ls, l)[i])
        <3>1. CASE i = Len(ls) + 1
            BY <2>2, <3>1
        <3>2. CASE i \in 1..Len(ls)
            BY <2>1, <2>2, <2>3, <3>2 DEF IsLegs
        <3> QED BY <2>3, <3>1, <3>2
    <2>5. IsLegs(Append(ls, l)) /\ DOMAIN ls \subseteq DOMAIN Append(ls, l)
        BY <2>2, <2>3, <2>4 DEF IsLegs
    <2>6. us[u].legs = Append(ls, l) \/ us[u].legs = ls
        BY <1>2 DEF ls
    <2> QED BY <2>1, <2>2, <2>3, <2>5, <2>6 DEF ls
<1>5. IsBook(us)
    BY <1>1, <1>2, <1>3, <1>4 DEF BookOK, IsBook, IsTrade
<1>6. Grown(ts, us)
    BY <1>1, <1>2, <1>4 DEF Grown
<1> QED BY <1>5, <1>6, GrownKeeps DEF us

LEMMA CloseSteps ==
    ASSUME BookInv, NEW th \in Threads, CloseSkipped(th) \/ CloseLeg(th) \/ CloseDone(th)
    PROVE  BookInv'
<1>1. job[th] # <<>>
    BY DEF CloseSkipped, CloseLeg, CloseDone, Doing
<1>2. CASE CloseSkipped(th)
    BY <1>1, <1>2, DoneOK, UntouchedBooks DEF CloseSkipped, BookInv
<1>3. CASE CloseLeg(th)
    <2> DEFINE task == Task(th)
               i == Min(Remaining(task.trade, task.at))
               leg == trades[task.trade].legs[i]
               l == Leg(Len(orders) + 1, leg.symbol, -leg.side, leg.qty, TRUE, "LIVE")
    <2>1. /\ trades' = [trades EXCEPT ![task.trade].legs = Append(@, l)]
          /\ Becomes(th, <<[task EXCEPT !.at = i + 1, !.recheck = FALSE]>>)
          /\ UNCHANGED <<tracked, file>>
        BY <1>3 DEF CloseLeg
    <2>2. task.op = "close"
        BY <1>3 DEF CloseLeg, Doing, Task
    <2>3. IsLeg(l)
        BY DEF Leg, IsLeg
    <2> HIDE DEF task, i, l
    <2>4. TaskOK([task EXCEPT !.at = i + 1, !.recheck = FALSE])
        BY <2>2 DEF TaskOK
    <2>5. JobOK'
        BY <1>1, <2>1, <2>4, OneTask, BecomesOK DEF BookInv
    <2>6. BookOK(trades', tracked')
        BY <2>1, <2>3, LegAdded DEF BookInv
    <2> QED BY <2>1, <2>5, <2>6 DEF BookInv
<1>4. CASE CloseDone(th)
    <2>1. JobOK'
        BY <1>1, <1>4, DoneOK DEF CloseDone, BookInv
    <2>2. BookOK(trades', tracked')
        BY <1>4, ClosedOK DEF CloseDone, BookInv
    <2>3. BookOK(file'.trades, file'.tracked)
        BY <1>4, <2>2, SavedOK DEF CloseDone
    <2> QED BY <2>1, <2>2, <2>3 DEF BookInv
<1> QED BY <1>2, <1>3, <1>4

LEMMA SweepSteps ==
    ASSUME BookInv, NEW th \in Threads,
           \/ SquareOffForced(th) \/ SweepPositions(th) \/ FlattenPosition(th)
           \/ Kill(th) \/ CloseOrphans(th)
    PROVE  BookInv'
<1>1. job[th] # <<>> /\ UNCHANGED bookVars
    BY DEF SquareOffForced, SweepPositions, FlattenPosition, Kill, CloseOrphans, Doing
<1>2. \/ \E S \in SUBSET Held : Becomes(th, Each(S, Flatten))
      \/ Done(th) \/ Becomes(th, KillTasks)
      \/ \E sweep \in {<<Sweep>>, <<>>} : Becomes(th, SquareOffAll \o sweep)
    <2>1. Held \in SUBSET Held /\ Uncovered \subseteq Held
        BY DEF Uncovered
    <2>2. CASE SweepPositions(th)
        BY <2>1, <2>2 DEF SweepPositions
    <2>3. CASE CloseOrphans(th)
        <3>1. PICK S \in SUBSET Uncovered : Becomes(th, Each(S, Flatten))
            BY <2>3 DEF CloseOrphans
        <3>2. S \in SUBSET Held
            BY <2>1
        <3> QED BY <3>1, <3>2
    <2> QED BY <2>2, <2>3 DEF FlattenPosition, Kill, SquareOffForced
<1>3. /\ \A S \in SUBSET Held : Tasks(Each(S, Flatten))
      /\ Tasks(KillTasks)
      /\ \A sweep \in {<<Sweep>>, <<>>} : Tasks(SquareOffAll \o sweep)
    <2>1. /\ \A S \in SUBSET Held : Tasks(Each(S, Flatten))
          /\ Tasks(KillTasks) /\ Tasks(SquareOffAll) /\ Tasks(<<Sweep>>)
        BY FiniteBooks, ListsOK DEF BookInv
    <2>2. ASSUME NEW sweep \in {<<Sweep>>, <<>>}
          PROVE  Tasks(SquareOffAll \o sweep)
        BY <2>1, NoTasks, MoreTasks
    <2> QED BY <2>1, <2>2
<1>4. JobOK'
    BY <1>1, <1>2, <1>3, BecomesOK, DoneOK DEF BookInv
<1> QED BY <1>1, <1>4, UntouchedBooks

LEMMA TakeSteps ==
    ASSUME BookInv, TakesUp
    PROVE  BookInv'
<1>1. /\ Tasks(SquareOffAll) /\ Tasks(<<ForceSquare>>) /\ Tasks(<<HardKill>>)
      /\ Tasks(<<Sweep>>) /\ Tasks(<<Orphans>>) /\ Tasks(<<>>)
    BY FiniteBooks, ListsOK, NoTasks DEF BookInv
<1>2. ASSUME NEW th \in Threads, NEW tasks, Tasks(tasks), Take(th, tasks)
      PROVE  BookInv'
    <2>1. JobOK'
        BY <1>2, TakeOK DEF BookInv
    <2>2. UNCHANGED bookVars
        BY <1>2 DEF Take
    <2> QED BY <2>1, <2>2, UntouchedBooks
<1>3. "loop" \in Threads /\ "telegram" \in Threads
    BY DEF Threads
<1>4. ASSUME NEW by, NEW plan
      PROVE  Tasks(<<Open(by, plan)>>)
    <2>1. IsLegs(<<>>)
        <3>1. <<>> \in Seq({}) /\ DOMAIN <<>> = {}
            OBVIOUS
        <3> QED BY <3>1 DEF IsLegs, Sequence
    <2>2. TaskOK(Open(by, plan))
        BY <2>1 DEF TaskOK, Open
    <2> QED BY <2>2, OneTask
<1>5. CASE BrainOpens \/ EnforcedOpens
    BY <1>2, <1>3, <1>4, <1>5 DEF BrainOpens, EnforcedOpens, Enters
<1>6. CASE ForceTrade
    BY <1>2, <1>3, <1>4, <1>6 DEF ForceTrade, Enters
<1>7. CASE ForceClose
    BY <1>1, <1>2, <1>3, <1>7 DEF ForceClose
<1>8. CASE AutoClose
    <2>1. \A t : Tasks(<<Close(t, FALSE)>>)
        <3>1. \A t : TaskOK(Close(t, FALSE))
            BY DEF TaskOK, Close
        <3> QED BY <3>1, OneTask
    <2> QED BY <1>2, <1>3, <1>8, <2>1 DEF AutoClose
<1>9. CASE MavisCloseAll
    <2>1. Tasks(Append(SquareOffAll, Sweep))
        <3>1. TaskOK(Sweep) /\ Tasks(SquareOffAll)
            BY <1>1 DEF TaskOK, Sweep
        <3> DEFINE j == SquareOffAll
        <3> HIDE DEF j
        <3>2. /\ Sequence(Append(j, Sweep)) /\ Len(Append(j, Sweep)) = Len(j) + 1
              /\ \A i \in 1..Len(j) : Append(j, Sweep)[i] = j[i]
              /\ Append(j, Sweep)[Len(j) + 1] = Sweep
            BY <3>1, AppendSequence DEF Tasks, j
        <3>3. /\ Len(j) \in Nat /\ DOMAIN j = 1..Len(j)
              /\ DOMAIN Append(j, Sweep) = 1..(Len(j) + 1)
            BY <3>1, <3>2, SequenceFacts DEF Tasks, j
        <3>4. ASSUME NEW i \in 1..(Len(j) + 1)
              PROVE  TaskOK(Append(j, Sweep)[i])
            <4>1. CASE i = Len(j) + 1
                BY <3>1, <3>2, <4>1
            <4>2. CASE i \in 1..Len(j)
                BY <3>1, <3>2, <3>3, <4>2 DEF Tasks, j
            <4> QED BY <3>3, <4>1, <4>2
        <3> QED BY <3>2, <3>3, <3>4 DEF Tasks, j
    <2> QED BY <1>2, <1>3, <1>9, <2>1 DEF MavisCloseAll
<1>10. CASE ClosingPass
    <2>1. PICK force \in {<<ForceSquare>>, <<>>}, kill \in {<<HardKill>>, <<>>} :
              Take("loop", SquareOffAll \o force \o kill)
        BY <1>10 DEF ClosingPass
    <2>2. Tasks(force) /\ Tasks(kill)
        BY <1>1
    <2>3. Tasks(SquareOffAll \o force \o kill)
        BY <1>1, <2>2, MoreTasks
    <2> QED BY <1>2, <1>3, <2>1, <2>3
<1>11. CASE BrainCloses
    BY <1>1, <1>2, <1>3, <1>11 DEF BrainCloses
<1>12. CASE OrphanCheck
    BY <1>1, <1>2, <1>3, <1>12 DEF OrphanCheck
<1> QED BY <1>5, <1>6, <1>7, <1>8, <1>9, <1>10, <1>11, <1>12 DEF TakesUp

\* A restart, and what it leaves of every position.
LEMMA RestartBooks ==
    ASSUME BookInv, Restart
    PROVE  /\ BookInv'
           /\ \A s \in Held :
                \/ s \in DOMAIN tracked' /\ ~trades'[tracked'[s]].closed
                \/ s \in expiring /\ s \notin Covered(file.trades)
<1>1. PICK phantoms \in Phantoms(file.trades) :
          /\ trades' = AdoptedTrades(file.trades, Untracked(file.tracked) \ phantoms)
          /\ tracked' = AdoptedMap(file.trades, file.tracked,
                                   Untracked(file.tracked) \ phantoms)
          /\ file' = [trades |-> trades', tracked |-> tracked']
          /\ job' = [th \in Threads |-> <<>>]
    BY DEF Restart, Loaded, AdoptedTrades, AdoptedMap
<1> DEFINE S == Untracked(file.tracked) \ phantoms
<1>2. S \subseteq Untracked(file.tracked) /\ IsFiniteSet(S)
    <2>1. IsFiniteSet(Held) /\ S \subseteq Held
        BY FiniteBooks DEF BookInv, Untracked
    <2> QED BY <2>1, FS_Subset
<1>3. phantoms \subseteq expiring /\ phantoms \cap Covered(file.trades) = {}
    BY DEF Phantoms
<1>4. \A s \in Held : s \in DOMAIN file.tracked \cup S \/ s \in phantoms
    BY DEF Untracked
<1>5. BookOK(file.trades, file.tracked)
    BY DEF BookInv
<1> HIDE DEF S
<1>6. /\ BookOK(trades', tracked')
      /\ \A s \in DOMAIN file.tracked \cup S :
            s \in DOMAIN tracked' /\ ~trades'[tracked'[s]].closed
    BY <1>1, <1>2, <1>5, AdoptedOK DEF S
<1>7. BookOK(file'.trades, file'.tracked)
    BY <1>1, <1>6
<1>8. JobOK'
    BY <1>1, NoTasks DEF JobOK
<1> QED BY <1>3, <1>4, <1>6, <1>7, <1>8 DEF BookInv

LEMMA StepBooks == BookInv /\ [Next]_vars => BookInv'
<1> SUFFICES ASSUME BookInv, [Next]_vars
             PROVE  BookInv'
    OBVIOUS
<1>1. ASSUME NEW th \in Threads, Works(th)
      PROVE  BookInv'
    BY <1>1, OpenSteps, CloseSteps, SweepSteps DEF Works
<1>2. CASE DayMoves
    BY <1>2, UntouchedBooks DEF DayMoves, BookInv, JobOK
<1>3. ASSUME NEW s \in Symbols, Ticks(s)
      PROVE  BookInv'
    BY <1>3, UntouchedBooks DEF Ticks, BookInv, JobOK
<1>4. CASE UNCHANGED vars
    BY <1>4, UntouchedBooks DEF vars, bookVars, BookInv, JobOK
<1> QED BY <1>1, <1>2, <1>3, <1>4, TakeSteps, RestartBooks DEF Next

THEOREM BooksAgree == BotSpec => []BookInv
<1> QED BY InitBooks, StepBooks, PTL DEF BotSpec

-----------------------------------------------------------------------------
(* What the invariant gives.                                               *)

\* order_manager.py: whatever the two threads, the crashes and the restarts
\* do, what the book and its file track is open.
THEOREM TracksOnlyOpen == BotSpec => []MapsToOpenTrades
<1>1. BookInv => MapsToOpenTrades
    BY DEF BookInv, BookOK, MapsToOpenTrades
<1> QED BY <1>1, BooksAgree, PTL

\* order_manager.py register_orphan_positions: no position is adopted by a
\* second trade while the first that adopted it is open.
THEOREM AdoptedAtMostOnce == BotSpec => []AdoptedOnce
<1>1. BookInv => AdoptedOnce
    BY DEF BookInv, BookOK, OrphansTracked, AdoptedOnce
<1> QED BY <1>1, BooksAgree, PTL

\* __main__.py's reconciliation and register_orphan_positions: the only
\* positions that a restart leaves outside an open trade are those in expiring
\* contracts of which the saved book has no filled leg in an open trade.
THEOREM RestartLeavesExpiring == BotSpec => RestartCovers
<1>1. BookInv /\ [Next]_vars =>
        [crashes' # crashes =>
            \A s \in Held :
                \/ s \in DOMAIN tracked' /\ ~trades'[tracked'[s]].closed
                \/ s \in expiring /\ s \notin Covered(file.trades)]_vars
    <2> SUFFICES ASSUME BookInv, Next, crashes' # crashes
                 PROVE  \A s \in Held :
                            \/ s \in DOMAIN tracked' /\ ~trades'[tracked'[s]].closed
                            \/ s \in expiring /\ s \notin Covered(file.trades)
        OBVIOUS
    <2>1. Restart
        BY DEF Next, Works, PlaceLeg, RefuseLeg, RegisterTrade, CloseSkipped, CloseLeg,
               CloseDone, SquareOffForced, SweepPositions, FlattenPosition, Kill,
               CloseOrphans, TakesUp, BrainOpens, EnforcedOpens, Enters, BrainCloses,
               ForceTrade, ForceClose, AutoClose, MavisCloseAll, OrphanCheck, ClosingPass,
               Take, DayMoves, Ticks
    <2> QED BY <2>1, RestartBooks
<1> QED BY <1>1, BooksAgree, PTL DEF BotSpec, RestartCovers
-----------------------------------------------------------------------------
(* How often an entry is closed.                                           *)

\* The legs of a list that stand for an entry of their own, and its orders.
Entered(ls) == {i \in DOMAIN ls : ls[i].order # 0 /\ ~ls[i].closing}
Ids(ls) == {ls[i].order : i \in Entered(ls)}
Apart(ls) == \A i, j \in Entered(ls) : ls[i].order = ls[j].order => i = j

\* No order is entered twice in a book that knows n orders.
EntriesOnce(ts, n) ==
    /\ \A t \in DOMAIN ts : Apart(ts[t].legs) /\ Ids(ts[t].legs) \subseteq 1..n
    /\ \A t, u \in DOMAIN ts : t # u => Ids(ts[t].legs) \cap Ids(ts[u].legs) = {}

Closings(os, e) == {k \in DOMAIN os : os[k].closes = e}

OrdersOK ==
    /\ Sequence(orders)
    /\ \A k \in DOMAIN orders : /\ "closes" \in DOMAIN orders[k]
                                /\ orders[k].closes \in 0..Len(orders)

\* The closes of a job, and the shape of a job over a book: it closes a trade
\* once, enters nothing after its first task and closes nothing after a task
\* that will list the open trades anew.
Relisting == {"force_square", "hard_kill"}

Closes(j) == {j[k] : k \in {l \in DOMAIN j : j[l].op = "close"}}

CloseOK(c, ts) ==
    /\ {"op", "trade", "at", "recheck"} \subseteq DOMAIN c
    /\ c.op = "close"
    /\ c.trade \in DOMAIN ts
    /\ c.at \in Nat \ {0}
    /\ c.recheck \in BOOLEAN

Ordered(j) ==
    /\ \A k \in DOMAIN j :
         /\ j[k].op = "open" => k = 1
         /\ j[k].op \in Relisting => \A l \in DOMAIN j : l > k => j[l].op # "close"
    /\ \A k, l \in DOMAIN j :
         j[k].op = "close" /\ j[l].op = "close" /\ j[k].trade = j[l].trade => k = l

JobShape(j, ts) == Ordered(j) /\ \A c \in Closes(j) : CloseOK(c, ts)

\* The legs a thread has placed for an entry it has not registered.
Placed(j) == IF j # <<>> /\ Head(j).op = "open" THEN Head(j).placed ELSE <<>>

FlightOK(js, ts, os) ==
    /\ \A th \in Threads :
         /\ Apart(Placed(js[th]))
         /\ \A e \in Ids(Placed(js[th])) : e \in 1..Len(os) /\ Closings(os, e) = {}
         /\ \A t \in DOMAIN ts : Ids(Placed(js[th])) \cap Ids(ts[t].legs) = {}
    /\ \A th, u \in Threads : th # u => Ids(Placed(js[th])) \cap Ids(Placed(js[u])) = {}

\* A close that has been past leg i of trade t, and one that is going to
\* close it though the trade is closed.
Passed(j, t, i) == \E c \in Closes(j) : c.trade = t /\ c.at > i
Pending(j, t, i) == \E c \in Closes(j) : c.trade = t /\ ~c.recheck /\ c.at <= i

\* The threads that have had their turn at leg i of trade t in this life.
Used(ts, js, t, i) ==
    {th \in Threads : IF ts[t].closed THEN ~Pending(js[th], t, i)
                                      ELSE Passed(js[th], t, i)}

\* Two closings of an entry for each life before this one, and one for each
\* thread that has had its turn in it.
Counted(ts, js, os, c) ==
    \A t \in DOMAIN ts : \A i \in Entered(ts[t].legs) :
        Cardinality(Closings(os, ts[t].legs[i].order))
            <= 2 * c + Cardinality(Used(ts, js, t, i))

Bounded(os, c) ==
    \A e \in DOMAIN os : Cardinality(Closings(os, e)) <= 2 * (1 + c)

CloseInv ==
    /\ OrdersOK
    /\ crashes \in Nat
    /\ EntriesOnce(trades, Len(orders))
    /\ EntriesOnce(file.trades, Len(orders))
    /\ \A th \in Threads : JobShape(job[th], trades)
    /\ FlightOK(job, trades, orders)
    /\ Counted(trades, job, orders, crashes)
    /\ Bounded(orders, crashes)

\* At most two threads have had their turn.
LEMMA TwoThreads ==
    ASSUME NEW S \in SUBSET Threads
    PROVE  /\ IsFiniteSet(S) /\ Cardinality(S) \in Nat /\ Cardinality(S) <= 2
           /\ Cardinality(Threads) = 2
<1>1. IsFiniteSet({"loop"}) /\ Cardinality({"loop"}) = 1
    BY FS_Singleton
<1>2. Threads = {"loop"} \cup {"telegram"} /\ "telegram" \notin {"loop"}
    BY DEF Threads
<1>3. IsFiniteSet(Threads) /\ Cardinality(Threads) = 2
    BY <1>1, <1>2, FS_AddElement
<1> QED BY <1>3, FS_Subset, FS_CardinalityType

LEMMA MoreThreads ==
    ASSUME NEW T \in SUBSET Threads, NEW S \in SUBSET T
    PROVE  /\ Cardinality(S) <= Cardinality(T)
           /\ \A th \in T \ S : Cardinality(S) + 1 <= Cardinality(T)
<1>1. IsFiniteSet(S) /\ IsFiniteSet(T) /\ Cardinality(S) \in Nat /\ Cardinality(T) \in Nat
    BY TwoThreads
<1>2. ASSUME NEW th \in T \ S
      PROVE  Cardinality(S) + 1 <= Cardinality(T)
    <2>1. IsFiniteSet(S \cup {th}) /\ Cardinality(S \cup {th}) = Cardinality(S) + 1
        BY <1>1, <1>2, FS_AddElement
    <2>2. S \cup {th} \subseteq T
        BY <1>2
    <2>3. Cardinality(S \cup {th}) <= Cardinality(T)
        BY <1>1, <2>2, FS_Subset
    <2> QED BY <2>1, <2>3
<1> QED BY <1>1, <1>2, FS_Subset

\* The least number of a set of them.
LEMMA LeastIn ==
    ASSUME NEW S \in SUBSET Nat, S # {}
    PROVE  Min(S) \in S
<1>1. PICK x \in S : \A y \in S : ~ (<<y, x>> \in OpToRel(<, Nat))
    BY NatLessThanWellFounded, WFMin
<1>2. ASSUME NEW y \in S
      PROVE  x <= y
    <2>1. ~(<<y, x>> \in OpToRel(<, Nat))
        BY <1>1
    <2>2. ~(y < x)
        BY <2>1 DEF OpToRel
    <2> QED BY <2>2
<1> QED BY <1>2 DEF Min

-----------------------------------------------------------------------------
(* Orders: what an action of the broker does to the count.                 *)

SameCloses(os, ns) ==
    DOMAIN ns = DOMAIN os /\ \A k \in DOMAIN os : ns[k].closes = os[k].closes

LEMMA SameCount ==
    ASSUME NEW os, NEW ns, SameCloses(os, ns), NEW e
    PROVE  Closings(ns, e) = Closings(os, e)
BY DEF SameCloses, Closings

LEMMA FiniteClosings ==
    ASSUME OrdersOK, NEW e
    PROVE  IsFiniteSet(Closings(orders, e)) /\ Cardinality(Closings(orders, e)) \in Nat
<1>1. IsFiniteSet(1..Len(orders)) /\ DOMAIN orders = 1..Len(orders)
    BY SequenceFacts, FS_Interval DEF OrdersOK
<1>2. Closings(orders, e) \subseteq 1..Len(orders)
    BY <1>1 DEF Closings
<1> QED BY <1>1, <1>2, FS_Subset, FS_CardinalityType

\* place_order counts one more for the entry it names, and a new order is
\* closed by nothing yet.
LEMMA PlacedOnce ==
    ASSUME OrdersOK, NEW s, NEW side, NEW qty, NEW kind, NEW c \in 0..Len(orders),
           PlaceOrder(Order(s, side, qty, kind, c))
    PROVE  /\ OrdersOK'
           /\ Len(orders') = Len(orders) + 1 /\ Len(orders) \in Nat
           /\ DOMAIN orders = 1..Len(orders) /\ DOMAIN orders' = 1..(Len(orders) + 1)
           /\ \A e \in 1..(Len(orders) + 1) : e # c =>
                  Closings(orders', e) = Closings(orders, e)
           /\ Cardinality(Closings(orders', c)) = Cardinality(Closings(orders, c)) + 1
           /\ Closings(orders', Len(orders) + 1) = {}
<1> DEFINE n == Len(orders)
<1>1. PICK fills \in MayFill(Order(s, side, qty, kind, c)) :
          orders' = Append(orders, [Order(s, side, qty, kind, c) EXCEPT !.status =
                                       IF fills THEN "COMPLETE" ELSE "OPEN"])
    BY DEF PlaceOrder
<1> DEFINE o == [Order(s, side, qty, kind, c) EXCEPT !.status =
                    IF fills THEN "COMPLETE" ELSE "OPEN"]
<1>2. "closes" \in DOMAIN o /\ o.closes = c
    BY DEF Order
<1>3. n \in Nat /\ DOMAIN orders = 1..n
    BY SequenceFacts DEF OrdersOK
<1> HIDE DEF o
<1>4. /\ Sequence(Append(orders, o)) /\ Len(Append(orders, o)) = n + 1
      /\ \A k \in 1..n : Append(orders, o)[k] = orders[k]
      /\ Append(orders, o)[n + 1] = o
    BY AppendSequence DEF OrdersOK
<1>5. orders' = Append(orders, o)
    BY <1>1 DEF o
<1>6. /\ Sequence(orders') /\ Len(orders') = n + 1 /\ DOMAIN orders' = 1..(n + 1)
      /\ \A k \in 1..n : orders'[k] = orders[k]
      /\ orders'[n + 1] = o
    BY <1>4, <1>5, SequenceFacts, Zenon
<1> HIDE DEF n
<1>7. ASSUME NEW k \in 1..(n + 1)
      PROVE  "closes" \in DOMAIN orders'[k] /\ orders'[k].closes \in 0..(n + 1)
    <2>1. CASE k = n + 1
        BY <1>2, <1>3, <1>6, <2>1 DEF n
    <2>2. CASE k \in 1..n
        BY <1>3, <1>6, <2>2 DEF OrdersOK, n
    <2> QED BY <1>3, <2>1, <2>2
<1>8. OrdersOK'
    BY <1>6, <1>7 DEF OrdersOK
<1>9. ASSUME NEW e
      PROVE  Closings(orders', e) = Closings(orders, e) \cup (IF e = c THEN {n + 1} ELSE {})
    BY <1>2, <1>3, <1>6 DEF Closings
<1>10. Cardinality(Closings(orders', c)) = Cardinality(Closings(orders, c)) + 1
    <2>1. n + 1 \notin Closings(orders, c)
        BY <1>3 DEF Closings
    <2> QED BY <1>9, <2>1, FiniteClosings, FS_AddElement
<1>11. Closings(orders, n + 1) = {}
    BY <1>3 DEF Closings, OrdersOK, n
<1>12. c # n + 1
    BY <1>3 DEF n
<1> QED BY <1>3, <1>6, <1>8, <1>9, <1>10, <1>11, <1>12 DEF n

LEMMA BrokerKeepsCloses ==
    ASSUME OrdersOK, Reload \/ (\E s \in Symbols : Tick(s)) \/ UNCHANGED orders
    PROVE  OrdersOK' /\ SameCloses(orders, orders') /\ Len(orders') = Len(orders)
<1>1. Len(orders) \in Nat /\ DOMAIN orders = 1..Len(orders)
    BY SequenceFacts DEF OrdersOK
<1>2. ASSUME NEW T, orders' = [k \in DOMAIN orders |-> T[k]],
             \A k \in DOMAIN orders :
                 "closes" \in DOMAIN T[k] /\ T[k].closes = orders[k].closes
      PROVE  OrdersOK' /\ SameCloses(orders, orders') /\ Len(orders') = Len(orders)
    <2>1. orders' = [k \in 1..Len(orders) |-> orders'[k]]
        BY <1>1, <1>2
    <2>2. Sequence(orders') /\ Len(orders') = Len(orders)
        BY <1>1, <2>1, TableSequence
    <2> QED BY <1>1, <1>2, <2>2 DEF OrdersOK, SameCloses
<1>3. CASE UNCHANGED orders
    BY <1>3 DEF SameCloses, OrdersOK
<1>4. CASE Reload
    <2> DEFINE T == [k \in DOMAIN orders |->
          CASE k \notin OpenOrders            -> orders[k]
            [] orders[k].kind = "MARKET"      -> [orders[k] EXCEPT !.status = "CANCELLED"]
            [] OTHER                          -> [orders[k] EXCEPT !.timed = FALSE]]
    <2>1. orders' = T
        BY <1>4 DEF Reload
    <2>2. ASSUME NEW k \in DOMAIN orders
          PROVE  "closes" \in DOMAIN T[k] /\ T[k].closes = orders[k].closes
        <3>1. \/ T[k] = orders[k] \/ T[k] = [orders[k] EXCEPT !.status = "CANCELLED"]
              \/ T[k] = [orders[k] EXCEPT !.timed = FALSE]
            OBVIOUS
        <3> HIDE DEF T
        <3> QED BY <3>1 DEF OrdersOK
    <2>3. T = [k \in DOMAIN orders |-> T[k]]
        OBVIOUS
    <2> HIDE DEF T
    <2> QED BY <1>2, <2>1, <2>2, <2>3
<1>5. CASE \E s \in Symbols : Tick(s)
    <2>0. PICK s \in Symbols : Tick(s)
        BY <1>5
    <2> DEFINE Refilled(filled, late) ==
            [k \in DOMAIN orders |->
                CASE k \in filled -> [orders[k] EXCEPT !.status = "COMPLETE"]
                  [] k \in late   -> [orders[k] EXCEPT !.status = "REJECTED"]
                  [] OTHER        -> orders[k]]
           market == {k \in OpenOrders : orders[k].kind = "MARKET" /\ orders[k].symbol = s}
    <2>1. PICK crossed, late : orders' = Refilled(crossed \cup market, late)
        <3>1. PICK crossed \in SUBSET {k \in OpenOrders : orders[k].kind = "LIMIT"
                                                         /\ orders[k].symbol = s} :
                \E late \in SUBSET {k \in OpenOrders \ (crossed \cup market) : orders[k].timed} :
                    /\ orders' = Refilled(crossed \cup market, late)
                    /\ position' = Filled(position, crossed \cup market)
                    /\ quoted' = quoted \cup {s}
            BY <2>0, Zenon DEF Tick
        <3> HIDE DEF Refilled, market
        <3>2. PICK late : orders' = Refilled(crossed \cup market, late)
            BY <3>1
        <3> QED BY <3>2
    <2> DEFINE filled == crossed \cup market
    <2> DEFINE T == [k \in DOMAIN orders |->
                    CASE k \in filled -> [orders[k] EXCEPT !.status = "COMPLETE"]
                      [] k \in late   -> [orders[k] EXCEPT !.status = "REJECTED"]
                      [] OTHER        -> orders[k]]
    <2>2. ASSUME NEW k \in DOMAIN orders
          PROVE  "closes" \in DOMAIN T[k] /\ T[k].closes = orders[k].closes
        <3>1. \/ T[k] = orders[k] \/ T[k] = [orders[k] EXCEPT !.status = "COMPLETE"]
              \/ T[k] = [orders[k] EXCEPT !.status = "REJECTED"]
            OBVIOUS
        <3> HIDE DEF T
        <3> QED BY <3>1 DEF OrdersOK
    <2>3. T = [k \in DOMAIN orders |-> T[k]]
        OBVIOUS
    <2>4. orders' = T
        BY <2>1
    <2> HIDE DEF T
    <2> QED BY <1>2, <2>2, <2>3, <2>4
<1> QED BY <1>3, <1>4, <1>5
-----------------------------------------------------------------------------
(* Jobs: what their closes become.                                         *)

NoOpens(j) == \A k \in DOMAIN j : j[k].op # "open"
NoRelists(j) == \A k \in DOMAIN j : j[k].op \notin Relisting

LEMMA ClosesJoined ==
    ASSUME NEW a, NEW b, Sequence(a), Sequence(b)
    PROVE  Closes(a \o b) = Closes(a) \cup Closes(b)
<1>1. /\ Sequence(a \o b) /\ Len(a \o b) = Len(a) + Len(b)
      /\ \A i \in 1..Len(a) : (a \o b)[i] = a[i]
      /\ \A i \in 1..Len(b) : (a \o b)[Len(a) + i] = b[i]
    BY ConcatSequence
<1>2. /\ Len(a) \in Nat /\ Len(b) \in Nat
      /\ DOMAIN a = 1..Len(a) /\ DOMAIN b = 1..Len(b)
      /\ DOMAIN (a \o b) = 1..(Len(a) + Len(b))
    BY <1>1, SequenceFacts
<1> DEFINE c == a \o b
<1> HIDE DEF c
<1>3. /\ DOMAIN c = 1..(Len(a) + Len(b))
      /\ \A i \in 1..Len(a) : c[i] = a[i]
      /\ \A i \in 1..Len(b) : c[Len(a) + i] = b[i]
    BY <1>1, <1>2 DEF c
<1>4. ASSUME NEW x \in Closes(c)
      PROVE  x \in Closes(a) \cup Closes(b)
    <2>1. PICK k \in DOMAIN c : c[k].op = "close" /\ x = c[k]
        BY DEF Closes
    <2>2. CASE k \in 1..Len(a)
        BY <1>2, <1>3, <2>1, <2>2 DEF Closes
    <2>3. CASE k \notin 1..Len(a)
        <3>1. k - Len(a) \in 1..Len(b) /\ k = Len(a) + (k - Len(a))
            BY <1>2, <1>3, <2>3
        <3>2. c[k] = b[k - Len(a)]
            BY <1>3, <3>1
        <3> QED BY <1>2, <2>1, <3>1, <3>2 DEF Closes
    <2> QED BY <2>2, <2>3
<1>5. ASSUME NEW x \in Closes(a)
      PROVE  x \in Closes(c)
    BY <1>2, <1>3 DEF Closes
<1>6. ASSUME NEW x \in Closes(b)
      PROVE  x \in Closes(c)
    <2>1. PICK k \in DOMAIN b : b[k].op = "close" /\ x = b[k]
        BY DEF Closes
    <2>2. Len(a) + k \in DOMAIN c /\ c[Len(a) + k] = b[k]
        BY <1>2, <1>3
    <2> QED BY <2>1, <2>2 DEF Closes
<1> QED BY <1>4, <1>5, <1>6 DEF c

LEMMA OrderedJoined ==
    ASSUME NEW a, NEW b, Sequence(a), Sequence(b), Ordered(a), Ordered(b), NoOpens(b),
           NoRelists(a) \/ Closes(b) = {},
           \A c \in Closes(a), d \in Closes(b) : c.trade # d.trade
    PROVE  Ordered(a \o b) /\ (NoOpens(a) => NoOpens(a \o b))
           /\ (NoRelists(a) /\ NoRelists(b) => NoRelists(a \o b))
<1>1. /\ Sequence(a \o b) /\ Len(a \o b) = Len(a) + Len(b)
      /\ \A i \in 1..Len(a) : (a \o b)[i] = a[i]
      /\ \A i \in 1..Len(b) : (a \o b)[Len(a) + i] = b[i]
    BY ConcatSequence
<1>2. /\ Len(a) \in Nat /\ Len(b) \in Nat
      /\ DOMAIN a = 1..Len(a) /\ DOMAIN b = 1..Len(b)
      /\ DOMAIN (a \o b) = 1..(Len(a) + Len(b))
    BY <1>1, SequenceFacts
<1> DEFINE c == a \o b
<1> HIDE DEF c
<1>3. /\ DOMAIN c = 1..(Len(a) + Len(b))
      /\ \A i \in 1..Len(a) : c[i] = a[i]
      /\ \A i \in 1..Len(b) : c[Len(a) + i] = b[i]
    BY <1>1, <1>2 DEF c
<1>4. ASSUME NEW k \in DOMAIN c
      PROVE  \/ k \in DOMAIN a /\ c[k] = a[k]
             \/ k > Len(a) /\ k - Len(a) \in DOMAIN b /\ c[k] = b[k - Len(a)]
    <2>1. CASE k \in 1..Len(a)
        BY <1>2, <1>3, <2>1
    <2>2. CASE k \notin 1..Len(a)
        <3>1. k - Len(a) \in 1..Len(b) /\ k = Len(a) + (k - Len(a)) /\ k > Len(a)
            BY <1>2, <1>3, <2>2
        <3> QED BY <1>2, <1>3, <3>1
    <2> QED BY <2>1, <2>2
<1>5. ASSUME NEW k \in DOMAIN c, c[k].op = "open"
      PROVE  k = 1
    BY <1>4, <1>5 DEF Ordered, NoOpens
<1>6. ASSUME NEW k \in DOMAIN c, c[k].op \in Relisting, NEW l \in DOMAIN c, l > k
      PROVE  c[l].op # "close"
    <2>1. CASE l \in DOMAIN a /\ c[l] = a[l]
        <3>1. k \in DOMAIN a /\ c[k] = a[k]
            BY <1>2, <1>3, <1>4, <1>6, <2>1
        <3> QED BY <1>6, <2>1, <3>1 DEF Ordered
    <2>2. CASE l > Len(a) /\ l - Len(a) \in DOMAIN b /\ c[l] = b[l - Len(a)]
        <3>1. CASE k \in DOMAIN a /\ c[k] = a[k]
            BY <1>6, <2>2, <3>1 DEF NoRelists, Closes
        <3>2. CASE k > Len(a) /\ k - Len(a) \in DOMAIN b /\ c[k] = b[k - Len(a)]
            <4>1. l - Len(a) > k - Len(a)
                BY <1>2, <1>3, <1>6
            <4> QED BY <1>6, <2>2, <3>2, <4>1 DEF Ordered
        <3> QED BY <1>4, <3>1, <3>2
    <2> QED BY <1>4, <2>1, <2>2
<1>7. ASSUME NEW k \in DOMAIN c, NEW l \in DOMAIN c,
             c[k].op = "close", c[l].op = "close", c[k].trade = c[l].trade
      PROVE  k = l
    <2>1. CASE k \in DOMAIN a /\ c[k] = a[k] /\ l \in DOMAIN a /\ c[l] = a[l]
        BY <1>7, <2>1 DEF Ordered
    <2>2. CASE /\ k > Len(a) /\ k - Len(a) \in DOMAIN b /\ c[k] = b[k - Len(a)]
               /\ l > Len(a) /\ l - Len(a) \in DOMAIN b /\ c[l] = b[l - Len(a)]
        <3>1. k - Len(a) = l - Len(a)
            BY <1>7, <2>2 DEF Ordered
        <3> QED BY <1>2, <1>3, <3>1
    <2>3. CASE /\ k \in DOMAIN a /\ c[k] = a[k]
               /\ l > Len(a) /\ l - Len(a) \in DOMAIN b /\ c[l] = b[l - Len(a)]
        <3>1. c[k] \in Closes(a) /\ c[l] \in Closes(b)
            BY <1>7, <2>3 DEF Closes
        <3> QED BY <1>7, <3>1
    <2>4. CASE /\ l \in DOMAIN a /\ c[l] = a[l]
               /\ k > Len(a) /\ k - Len(a) \in DOMAIN b /\ c[k] = b[k - Len(a)]
        <3>1. c[l] \in Closes(a) /\ c[k] \in Closes(b)
            BY <1>7, <2>4 DEF Closes
        <3> QED BY <1>7, <3>1
    <2> QED BY <1>4, <2>1, <2>2, <2>3, <2>4
<1>8. Ordered(c)
    BY <1>5, <1>6, <1>7 DEF Ordered
<1>9. NoOpens(a) => NoOpens(c)
    BY <1>4 DEF NoOpens
<1>10. NoRelists(a) /\ NoRelists(b) => NoRelists(c)
    BY <1>4 DEF NoRelists
<1> QED BY <1>8, <1>9, <1>10 DEF c

LEMMA JobTail ==
    ASSUME NEW j, Sequence(j), j # <<>>, Ordered(j)
    PROVE  /\ Sequence(Tail(j)) /\ Ordered(Tail(j)) /\ NoOpens(Tail(j))
           /\ Closes(j) = Closes(Tail(j)) \cup (IF Head(j).op = "close" THEN {Head(j)}
                                                                        ELSE {})
           /\ Head(j).op = "close" => \A c \in Closes(Tail(j)) : c.trade # Head(j).trade
           /\ Head(j).op \in Relisting => Closes(Tail(j)) = {}
<1>1. PICK S : j \in Seq(S)
    BY DEF Sequence
<1>2. Head(j) = j[1] /\ Len(j) \in Nat /\ Len(j) > 0 /\ DOMAIN j = 1..Len(j)
    BY <1>1
<1>3. /\ Tail(j) \in Seq(S) /\ Len(Tail(j)) = Len(j) - 1
      /\ \A i \in 1..Len(Tail(j)) : Tail(j)[i] = j[i + 1]
    BY <1>1, HeadTailProperties
<1> DEFINE r == Tail(j)
<1>4. Sequence(r) /\ DOMAIN r = 1..(Len(j) - 1) /\ \A i \in DOMAIN r : r[i] = j[i + 1]
    BY <1>2, <1>3 DEF Sequence
<1> HIDE DEF r
<1>5. \A i \in DOMAIN r : i \in Nat /\ i > 0 /\ i + 1 \in DOMAIN j /\ i + 1 > 1
    BY <1>2, <1>4
<1>6. NoOpens(r)
    BY <1>4, <1>5 DEF NoOpens, Ordered
<1>7. Ordered(r)
    <2>1. ASSUME NEW k \in DOMAIN r, r[k].op \in Relisting, NEW l \in DOMAIN r, l > k
          PROVE  r[l].op # "close"
        <3>1. k + 1 \in DOMAIN j /\ l + 1 \in DOMAIN j /\ l + 1 > k + 1
            BY <1>5, <2>1
        <3> QED BY <1>4, <2>1, <3>1 DEF Ordered
    <2>2. ASSUME NEW k \in DOMAIN r, NEW l \in DOMAIN r,
                 r[k].op = "close", r[l].op = "close", r[k].trade = r[l].trade
          PROVE  k = l
        <3>1. k + 1 = l + 1
            BY <1>4, <1>5, <2>2 DEF Ordered
        <3> QED BY <1>5, <3>1
    <2> QED BY <1>6, <2>1, <2>2 DEF Ordered, NoOpens
<1>8. \A k \in DOMAIN j : k = 1 \/ (k - 1 \in DOMAIN r /\ j[k] = r[k - 1])
    <2> SUFFICES ASSUME NEW k \in DOMAIN j, k # 1
                 PROVE  k - 1 \in DOMAIN r /\ j[k] = r[k - 1]
        OBVIOUS
    <2>1. k - 1 \in DOMAIN r /\ (k - 1) + 1 = k
        BY <1>2, <1>4
    <2> QED BY <1>4, <2>1
<1>9. Closes(j) = Closes(r) \cup (IF j[1].op = "close" THEN {j[1]} ELSE {})
    <2>1. Closes(r) \subseteq Closes(j)
        BY <1>4, <1>5 DEF Closes
    <2>2. j[1].op = "close" => j[1] \in Closes(j)
        BY <1>2 DEF Closes
    <2>3. \A x \in Closes(j) : x \in Closes(r) \/ (j[1].op = "close" /\ x = j[1])
        BY <1>8 DEF Closes
    <2> QED BY <2>1, <2>2, <2>3
<1>10. ASSUME j[1].op = "close", NEW c \in Closes(r)
       PROVE  c.trade # j[1].trade
    <2>1. PICK i \in DOMAIN r : r[i].op = "close" /\ c = r[i]
        BY DEF Closes
    <2>2. i + 1 \in DOMAIN j /\ 1 \in DOMAIN j /\ i + 1 # 1 /\ c = j[i + 1]
        BY <1>2, <1>4, <1>5, <2>1
    <2> QED BY <1>10, <2>1, <2>2 DEF Ordered
<1>11. ASSUME j[1].op \in Relisting
       PROVE  Closes(r) = {}
    <2>1. \A i \in DOMAIN r : r[i].op # "close"
        BY <1>2, <1>4, <1>5, <1>11 DEF Ordered
    <2> QED BY <2>1 DEF Closes
<1> QED BY <1>2, <1>4, <1>6, <1>7, <1>9, <1>10, <1>11 DEF r

\* Lists that enter nothing and close nothing.
Plain(j) == Sequence(j) /\ \A k \in DOMAIN j : j[k].op \notin {"open", "close"}

LEMMA PlainJobs ==
    ASSUME NEW j, Plain(j)
    PROVE  Sequence(j) /\ Ordered(j) /\ NoOpens(j) /\ Closes(j) = {}
BY DEF Plain, Ordered, NoOpens, Closes

LEMMA PlainLists ==
    /\ Plain(<<>>) /\ Plain(<<Sweep>>) /\ Plain(<<Orphans>>)
    /\ Plain(<<ForceSquare>>) /\ Plain(<<HardKill>>)
    /\ NoRelists(<<>>) /\ NoRelists(<<Sweep>>)
<1>1. <<>> \in Seq({}) /\ DOMAIN <<>> = {}
    OBVIOUS
<1>2. \A x : <<x>> \in Seq({x}) /\ DOMAIN <<x>> = {1} /\ <<x>>[1] = x
    OBVIOUS
<1>4. /\ Sweep.op = "sweep" /\ Orphans.op = "orphans"
      /\ ForceSquare.op = "force_square" /\ HardKill.op = "hard_kill"
    BY DEF Sweep, Orphans, ForceSquare, HardKill
<1>5. Plain(<<>>) /\ NoRelists(<<>>)
    BY <1>1 DEF Plain, Sequence, NoRelists
<1>6. ASSUME NEW x, x.op \notin {"open", "close"}
      PROVE  Plain(<<x>>)
    BY <1>2, <1>6 DEF Plain, Sequence
<1>7. NoRelists(<<Sweep>>)
    BY <1>2, <1>4 DEF NoRelists, Relisting
<1> QED BY <1>4, <1>5, <1>6, <1>7

LEMMA FlattenList ==
    ASSUME NEW S, IsFiniteSet(S)
    PROVE  Plain(Each(S, Flatten))
<1> DEFINE j == Each(S, Flatten)
<1>1. j = [k \in 1..Cardinality(S) |-> Flatten(SetToSeq(S)[k])]
    BY DEF Each
<1> HIDE DEF j
<1>2. Cardinality(S) \in Nat
    BY FS_CardinalityType
<1>3. j = [k \in 1..Cardinality(S) |-> j[k]]
    BY <1>1
<1>4. Sequence(j) /\ DOMAIN j = 1..Cardinality(S)
    BY <1>2, <1>3, TableSequence
<1>5. \A k \in DOMAIN j : j[k].op = "flatten"
    BY <1>1, <1>4 DEF Flatten
<1> QED BY <1>4, <1>5 DEF Plain, j

\* The list that closes each trade of a set.
CloseList(S, recheck) == [k \in 1..Cardinality(S) |-> Close(SetToSeq(S)[k], recheck)]

LEMMA CloseListOK ==
    ASSUME NEW S, IsFiniteSet(S), NEW recheck \in BOOLEAN
    PROVE  /\ Sequence(CloseList(S, recheck)) /\ Ordered(CloseList(S, recheck))
           /\ NoOpens(CloseList(S, recheck)) /\ NoRelists(CloseList(S, recheck))
           /\ Closes(CloseList(S, recheck)) = {Close(t, recheck) : t \in S}
<1> DEFINE j == CloseList(S, recheck)
           n == Cardinality(S)
           e == SetToSeq(S)
<1>1. /\ n \in Nat /\ e \in [1..n -> S]
      /\ \A k, l \in 1..n : e[k] = e[l] => k = l
      /\ Range(e) = S
    BY Enumeration
<1>2. j = [k \in 1..n |-> Close(e[k], recheck)]
    BY DEF CloseList
<1> HIDE DEF j, n, e
<1>3. j = [k \in 1..n |-> j[k]]
    BY <1>2
<1>4. Sequence(j) /\ DOMAIN j = 1..n
    BY <1>1, <1>3, TableSequence
<1>5. \A k \in 1..n : j[k] = Close(e[k], recheck) /\ j[k].op = "close" /\ j[k].trade = e[k]
    BY <1>2 DEF Close
<1>6. Ordered(j) /\ NoOpens(j) /\ NoRelists(j)
    BY <1>1, <1>4, <1>5 DEF Ordered, NoOpens, NoRelists, Relisting
<1>7. \A t \in S : \E k \in 1..n : t = e[k]
    BY <1>1 DEF Range
<1>8. Closes(j) = {Close(t, recheck) : t \in S}
    BY <1>1, <1>4, <1>5, <1>7 DEF Closes
<1> QED BY <1>4, <1>6, <1>8 DEF j
-----------------------------------------------------------------------------
(* Steps that close nothing.                                               *)

\* The broker may have taken orders that close no entry.
Quiet(os, ns) ==
    /\ Len(os) \in Nat /\ Len(ns) \in Nat /\ Len(os) <= Len(ns)
    /\ DOMAIN os = 1..Len(os) /\ DOMAIN ns = 1..Len(ns)
    /\ \A e \in 1..Len(ns) : Closings(ns, e) = IF e \in 1..Len(os) THEN Closings(os, e)
                                                               ELSE {}

LEMMA QuietBroker ==
    ASSUME OrdersOK, Reload \/ (\E s \in Symbols : Tick(s)) \/ UNCHANGED orders
    PROVE  OrdersOK' /\ Quiet(orders, orders') /\ Len(orders') = Len(orders)
<1>1. OrdersOK' /\ SameCloses(orders, orders') /\ Len(orders') = Len(orders)
    BY BrokerKeepsCloses
<1>2. Len(orders) \in Nat /\ DOMAIN orders = 1..Len(orders) /\ DOMAIN orders' = DOMAIN orders
    BY <1>1, SequenceFacts DEF OrdersOK, SameCloses
<1>3. \A e : Closings(orders', e) = Closings(orders, e)
    BY <1>1, SameCount
<1> QED BY <1>1, <1>2, <1>3 DEF Quiet

LEMMA QuietOrder ==
    ASSUME OrdersOK, NEW s, NEW side, NEW qty, NEW kind,
           PlaceOrder(Order(s, side, qty, kind, 0))
    PROVE  OrdersOK' /\ Quiet(orders, orders') /\ Len(orders') = Len(orders) + 1
<1>1. Len(orders) \in Nat
    BY SequenceFacts DEF OrdersOK
<1>2. 0 \in 0..Len(orders)
    BY <1>1
<1>3. /\ OrdersOK'
      /\ Len(orders') = Len(orders) + 1
      /\ DOMAIN orders = 1..Len(orders) /\ DOMAIN orders' = 1..(Len(orders) + 1)
      /\ \A e \in 1..(Len(orders) + 1) : e # 0 =>
             Closings(orders', e) = Closings(orders, e)
      /\ Closings(orders', Len(orders) + 1) = {}
    BY <1>2, PlacedOnce
<1>4. ASSUME NEW e \in 1..Len(orders')
      PROVE  Closings(orders', e) = IF e \in 1..Len(orders) THEN Closings(orders, e) ELSE {}
    <2>1. CASE e \in 1..Len(orders)
        BY <1>1, <1>3, <2>1
    <2>2. CASE e \notin 1..Len(orders)
        <3>1. e = Len(orders) + 1
            BY <1>1, <1>3, <2>2
        <3> QED BY <1>3, <2>2, <3>1
    <2> QED BY <2>1, <2>2
<1> QED BY <1>1, <1>3, <1>4 DEF Quiet

LEMMA QuietBounded ==
    ASSUME NEW ns, NEW c \in Nat, Quiet(orders, ns), Bounded(orders, c)
    PROVE  Bounded(ns, c)
<1>1. Cardinality({}) = 0 /\ 0 <= 2 * (1 + c)
    BY FS_EmptySet
<1>2. ASSUME NEW e \in DOMAIN ns
      PROVE  Cardinality(Closings(ns, e)) <= 2 * (1 + c)
    <2>1. Closings(ns, e) = IF e \in DOMAIN orders THEN Closings(orders, e) ELSE {}
        BY DEF Quiet
    <2>2. CASE e \in DOMAIN orders
        BY <2>1, <2>2 DEF Bounded
    <2>3. CASE e \notin DOMAIN orders
        BY <1>1, <2>1, <2>3
    <2> QED BY <2>2, <2>3
<1> QED BY <1>2 DEF Bounded

LEMMA EntriesMore ==
    ASSUME NEW ts, NEW n \in Nat, NEW m \in Nat, n <= m, EntriesOnce(ts, n)
    PROVE  EntriesOnce(ts, m)
<1>1. 1..n \subseteq 1..m
    OBVIOUS
<1> QED BY <1>1, Zenon DEF EntriesOnce

\* A turn that has been had stays so while nothing is closed.
LEMMA UsedKept ==
    ASSUME NEW ts, NEW us, NEW js, NEW ks, NEW t, NEW i, us[t].closed = ts[t].closed,
           \A th \in Threads :
               /\ Closes(js[th]) \subseteq Closes(ks[th])
               /\ \A c \in Closes(ks[th]) \ Closes(js[th]) : ~ts[c.trade].closed
    PROVE  Used(ts, js, t, i) \subseteq Used(us, ks, t, i)
<1> SUFFICES ASSUME NEW th \in Threads, th \in Used(ts, js, t, i)
             PROVE  th \in Used(us, ks, t, i)
    BY DEF Used
<1>1. CASE ts[t].closed
    <2>1. ~Pending(js[th], t, i)
        BY <1>1 DEF Used
    <2>2. ~Pending(ks[th], t, i)
        BY <1>1, <2>1 DEF Pending
    <2> QED BY <1>1, <2>2 DEF Used
<1>2. CASE ~ts[t].closed
    <2>1. Passed(js[th], t, i)
        BY <1>2 DEF Used
    <2>2. Passed(ks[th], t, i)
        BY <2>1 DEF Passed
    <2> QED BY <1>2, <2>2 DEF Used
<1> QED BY <1>1, <1>2

\* The count holds for the legs that were there when their turns stay and
\* each closing takes one, and for legs that nobody has closed.
LEMMA CountedKept ==
    ASSUME NEW ts, NEW us, NEW js, NEW ks, NEW os, NEW ns, NEW c \in Nat,
           Counted(ts, js, os, c),
           \A e : Cardinality(Closings(os, e)) \in Nat,
           \A t \in DOMAIN us : \A i \in Entered(us[t].legs) :
               \/ Closings(ns, us[t].legs[i].order) = {}
               \/ /\ t \in DOMAIN ts /\ i \in Entered(ts[t].legs)
                  /\ ts[t].legs[i].order = us[t].legs[i].order
                  /\ Used(ts, js, t, i) \subseteq Used(us, ks, t, i)
                  /\ \/ Closings(ns, us[t].legs[i].order) = Closings(os, us[t].legs[i].order)
                     \/ /\ Cardinality(Closings(ns, us[t].legs[i].order))
                             = Cardinality(Closings(os, us[t].legs[i].order)) + 1
                        /\ Used(us, ks, t, i) \ Used(ts, js, t, i) # {}
    PROVE  Counted(us, ks, ns, c)
<1> SUFFICES ASSUME NEW t \in DOMAIN us, NEW i \in Entered(us[t].legs)
             PROVE  Cardinality(Closings(ns, us[t].legs[i].order))
                        <= 2 * c + Cardinality(Used(us, ks, t, i))
    BY DEF Counted
<1> DEFINE e == us[t].legs[i].order
           S == Used(ts, js, t, i)
           T == Used(us, ks, t, i)
<1>1. S \in SUBSET Threads /\ T \in SUBSET Threads
    BY DEF Used
<1>2. Cardinality(S) \in Nat /\ Cardinality(T) \in Nat
    BY <1>1, TwoThreads
<1>3. CASE Closings(ns, e) = {}
    <2>1. Cardinality({}) = 0
        BY FS_EmptySet
    <2> QED BY <1>2, <1>3, <2>1
<1>4. CASE Closings(ns, e) # {}
    <2>1. /\ t \in DOMAIN ts /\ i \in Entered(ts[t].legs) /\ ts[t].legs[i].order = e
          /\ S \subseteq T
          /\ \/ Closings(ns, e) = Closings(os, e)
             \/ /\ Cardinality(Closings(ns, e)) = Cardinality(Closings(os, e)) + 1
                /\ T \ S # {}
        BY <1>4
    <2>2. Cardinality(Closings(os, e)) <= 2 * c + Cardinality(S)
        BY <2>1 DEF Counted
    <2> HIDE DEF e, S, T
    <2>3. /\ Cardinality(S) <= Cardinality(T)
          /\ \A th \in T \ S : Cardinality(S) + 1 <= Cardinality(T)
        BY <1>1, <2>1, MoreThreads
    <2>4. Cardinality(Closings(os, e)) \in Nat
        OBVIOUS
    <2>5. Cardinality(Closings(ns, e)) <= 2 * c + Cardinality(T)
        <3>1. CASE Closings(ns, e) = Closings(os, e)
            BY <1>2, <2>2, <2>3, <2>4, <3>1
        <3>2. CASE /\ Cardinality(Closings(ns, e)) = Cardinality(Closings(os, e)) + 1
                   /\ T \ S # {}
            BY <1>2, <2>2, <2>3, <2>4, <3>2
        <3> QED BY <2>1, <3>1, <3>2
    <2> QED BY <2>5 DEF e, T
<1> QED BY <1>3, <1>4

\* A thread goes on to a job that holds nothing in flight.
LEMMA FlightQuiet ==
    ASSUME NEW js, NEW ks, NEW ts, NEW os, NEW ns, NEW th \in Threads, NEW j,
           FlightOK(js, ts, os), Quiet(os, ns),
           \A u \in Threads : ks[u] = IF u = th THEN j ELSE js[u],
           Entered(Placed(j)) = {} \/ j = js[th]
    PROVE  FlightOK(ks, ts, ns)
<1>2. ASSUME NEW u \in Threads
      PROVE  \/ Placed(ks[u]) = Placed(js[u])
             \/ Apart(Placed(ks[u])) /\ Ids(Placed(ks[u])) = {}
    BY DEF Ids, Apart
<1>3. ASSUME NEW u \in Threads
      PROVE  Apart(Placed(ks[u])) /\ Ids(Placed(ks[u])) \subseteq Ids(Placed(js[u]))
    BY <1>2 DEF FlightOK
<1>4. \A e \in 1..Len(os) : e \in 1..Len(ns) /\ Closings(ns, e) = Closings(os, e)
    BY DEF Quiet
<1>5. ASSUME NEW u \in Threads, NEW e \in Ids(Placed(ks[u]))
      PROVE  e \in 1..Len(ns) /\ Closings(ns, e) = {}
    BY <1>3, <1>4 DEF FlightOK
<1>6. \A u \in Threads : \A t \in DOMAIN ts : Ids(Placed(ks[u])) \cap Ids(ts[t].legs) = {}
    BY <1>3 DEF FlightOK
<1>7. \A u, v \in Threads : u # v => Ids(Placed(ks[u])) \cap Ids(Placed(ks[v])) = {}
    BY <1>3 DEF FlightOK
<1> QED BY <1>3, <1>5, <1>6, <1>7 DEF FlightOK

LEMMA NothingPlaced ==
    ASSUME NEW j, Sequence(j), NoOpens(j)
    PROVE  Entered(Placed(j)) = {}
<1>1. PICK S : j \in Seq(S)
    BY DEF Sequence
<1>2. j # <<>> => Head(j) = j[1] /\ 1 \in DOMAIN j
    BY <1>1
<1>3. Placed(j) = <<>> /\ DOMAIN <<>> = {}
    BY <1>2 DEF Placed, NoOpens
<1> QED BY <1>3 DEF Entered

\* A step that takes up no close but of an open trade, and gives up none.
LEMMA QuietStep ==
    ASSUME BookInv, CloseInv, NEW th \in Threads, NEW j,
           OrdersOK', Quiet(orders, orders'), UNCHANGED <<trades, file, crashes>>,
           \A u \in Threads : job'[u] = IF u = th THEN j ELSE job[u],
           Ordered(j), Closes(job[th]) \subseteq Closes(j),
           \A c \in Closes(j) \ Closes(job[th]) :
               CloseOK(c, trades) /\ ~trades[c.trade].closed,
           FlightOK(job', trades, orders')
    PROVE  CloseInv'
<1>2. \A u \in Threads : job'[u] = IF u = th THEN j ELSE job[u]
    OBVIOUS
<1>3. Len(orders) \in Nat /\ Len(orders') \in Nat /\ Len(orders) <= Len(orders')
    BY DEF Quiet
<1>4. crashes' = crashes /\ trades' = trades /\ file' = file
    OBVIOUS
<1>5. EntriesOnce(trades', Len(orders')) /\ EntriesOnce(file'.trades, Len(orders'))
    BY <1>3, <1>4, EntriesMore DEF CloseInv
<1>6. \A u \in Threads : JobShape(job'[u], trades')
    BY <1>2, <1>4 DEF CloseInv, JobShape
<1>7. Counted(trades', job', orders', crashes')
    <2>1. \A e : Cardinality(Closings(orders, e)) \in Nat
        BY FiniteClosings DEF CloseInv
    <2>2. ASSUME NEW u \in Threads
          PROVE  /\ Closes(job[u]) \subseteq Closes(job'[u])
                 /\ \A c \in Closes(job'[u]) \ Closes(job[u]) : ~trades[c.trade].closed
        BY <1>2
    <2>3. ASSUME NEW t \in DOMAIN trades, NEW i \in Entered(trades[t].legs)
          PROVE  /\ Used(trades, job, t, i) \subseteq Used(trades, job', t, i)
                 /\ Closings(orders', trades[t].legs[i].order)
                      = Closings(orders, trades[t].legs[i].order)
        <3>1. Used(trades, job, t, i) \subseteq Used(trades, job', t, i)
            BY <2>2, UsedKept
        <3>2. trades[t].legs[i].order \in 1..Len(orders)
            BY DEF CloseInv, EntriesOnce, Ids
        <3>3. 1..Len(orders) \subseteq 1..Len(orders')
            BY <1>3
        <3> QED BY <3>1, <3>2, <3>3 DEF Quiet
    <2>4. Counted(trades, job', orders', crashes)
        <3> DEFINE now == orders'
                   then == job'
        <3>1. \A t \in DOMAIN trades : \A i \in Entered(trades[t].legs) :
                  /\ Used(trades, job, t, i) \subseteq Used(trades, then, t, i)
                  /\ Closings(now, trades[t].legs[i].order)
                       = Closings(orders, trades[t].legs[i].order)
            BY <2>3
        <3>2. crashes \in Nat /\ Counted(trades, job, orders, crashes)
            BY DEF CloseInv
        <3> HIDE DEF now, then
        <3>3. Counted(trades, then, now, crashes)
            BY <2>1, <3>1, <3>2, CountedKept
        <3> QED BY <3>3 DEF now, then
    <2> QED BY <1>4, <2>4
<1>8. Bounded(orders', crashes')
    BY <1>4, QuietBounded DEF CloseInv
<1>9. FlightOK(job', trades', orders')
    BY <1>4
<1> QED BY <1>4, <1>5, <1>6, <1>7, <1>8, <1>9 DEF CloseInv
LEMMA StillJobs ==
    ASSUME BookInv, CloseInv, NEW th \in Threads
    PROVE  /\ Sequence(job[th]) /\ Ordered(job[th])
           /\ \A c \in Closes(job[th]) : CloseOK(c, trades)
           /\ DOMAIN job = Threads
BY DEF BookInv, JobOK, Tasks, CloseInv, JobShape

\* The next task becomes others, which close nothing or list the open trades.
LEMMA NextTasks ==
    ASSUME BookInv, CloseInv, NEW th \in Threads, job[th] # <<>>,
           Head(job[th]).op # "close",
           NEW tasks, Becomes(th, tasks),
           Sequence(tasks), Ordered(tasks), NoOpens(tasks), NoRelists(tasks),
           Closes(tasks) = {} \/ Head(job[th]).op \in Relisting,
           \A c \in Closes(tasks) : CloseOK(c, trades) /\ ~trades[c.trade].closed,
           OrdersOK', Quiet(orders, orders'), UNCHANGED <<trades, file, crashes>>
    PROVE  CloseInv'
<1> DEFINE r == Tail(job[th])
           j == tasks \o r
<1>1. /\ Sequence(r) /\ Ordered(r) /\ NoOpens(r) /\ Closes(job[th]) = Closes(r)
      /\ Head(job[th]).op \in Relisting => Closes(r) = {}
    BY StillJobs, JobTail
<1>2. job' = [job EXCEPT ![th] = j]
    BY DEF Becomes
<1> HIDE DEF r
<1>3. Closes(j) = Closes(tasks) \cup Closes(r)
    BY <1>1, ClosesJoined
<1>4. Sequence(j) /\ Ordered(j) /\ NoOpens(j)
    <2>1. \A c \in Closes(tasks), d \in Closes(r) : c.trade # d.trade
        BY <1>1
    <2>2. Sequence(j)
        BY <1>1, ConcatSequence
    <2>3. NoRelists(tasks) \/ Closes(r) = {}
        OBVIOUS
    <2>4. Ordered(j) /\ NoOpens(j)
        BY <1>1, <2>1, <2>3, OrderedJoined
    <2> QED BY <2>2, <2>4
<1> HIDE DEF j
<1>5. \A u \in Threads : job'[u] = IF u = th THEN j ELSE job[u]
    BY <1>2, StillJobs
<1>6. FlightOK(job', trades, orders')
    <2>1. Entered(Placed(j)) = {}
        BY <1>4, NothingPlaced
    <2>2. FlightOK(job, trades, orders) /\ OrdersOK
        BY DEF CloseInv
    <2> QED BY <1>5, <2>1, <2>2, FlightQuiet
<1>7. /\ Closes(job[th]) \subseteq Closes(j)
      /\ \A c \in Closes(j) \ Closes(job[th]) : CloseOK(c, trades) /\ ~trades[c.trade].closed
    BY <1>1, <1>3
<1> QED BY <1>4, <1>5, <1>6, <1>7, QuietStep

\* A thread that has nothing to do takes up what enters nothing yet.
LEMMA TakenTasks ==
    ASSUME BookInv, CloseInv, NEW th \in Threads, NEW tasks, Take(th, tasks),
           Sequence(tasks), Ordered(tasks), Entered(Placed(tasks)) = {},
           \A c \in Closes(tasks) : CloseOK(c, trades) /\ ~trades[c.trade].closed
    PROVE  CloseInv'
<1>1. job[th] = <<>> /\ job' = [job EXCEPT ![th] = tasks]
    BY DEF Take
<1>2. UNCHANGED <<orders, trades, file, crashes>>
    BY DEF Take, brokerVars, bookVars
<1>3. OrdersOK' /\ Quiet(orders, orders')
    BY <1>2, QuietBroker DEF CloseInv
<1>4. Closes(<<>>) = {}
    BY DEF Closes
<1>5. \A u \in Threads : job'[u] = IF u = th THEN tasks ELSE job[u]
    BY <1>1, StillJobs
<1>6. FlightOK(job', trades, orders')
    <2> DEFINE ks == job'
               ns == orders'
    <2>1. \A u \in Threads : ks[u] = IF u = th THEN tasks ELSE job[u]
        BY <1>5
    <2>2. Quiet(orders, ns) /\ FlightOK(job, trades, orders)
        BY <1>3 DEF CloseInv
    <2> HIDE DEF ks, ns
    <2>3. FlightOK(ks, trades, ns)
        BY <2>1, <2>2, FlightQuiet
    <2> QED BY <2>3 DEF ks, ns
<1> QED BY <1>1, <1>2, <1>3, <1>4, <1>5, <1>6, QuietStep

LEMMA SweepCloses ==
    ASSUME BookInv, CloseInv, NEW th \in Threads,
           \/ SquareOffForced(th) \/ SweepPositions(th) \/ FlattenPosition(th)
           \/ Kill(th) \/ CloseOrphans(th)
    PROVE  CloseInv'
<1>1. job[th] # <<>> /\ UNCHANGED <<trades, file, crashes>>
    BY DEF SquareOffForced, SweepPositions, FlattenPosition, Kill, CloseOrphans, Doing, bookVars
<1>2. IsFiniteSet(OpenTrades) /\ IsFiniteSet(Held)
    BY FiniteBooks DEF BookInv
<1>3. ASSUME NEW tasks, Plain(tasks), NoRelists(tasks), Becomes(th, tasks),
             Head(job[th]).op # "close", OrdersOK', Quiet(orders, orders')
      PROVE  CloseInv'
    BY <1>1, <1>3, PlainJobs, NextTasks
<1>4. ASSUME NEW S, IsFiniteSet(S)
      PROVE  Plain(Each(S, Flatten)) /\ NoRelists(Each(S, Flatten))
    <2> DEFINE j == Each(S, Flatten)
    <2>1. j = [k \in 1..Cardinality(S) |-> Flatten(SetToSeq(S)[k])]
        BY DEF Each
    <2> HIDE DEF j
    <2>2. NoRelists(j)
        BY <2>1 DEF NoRelists, Relisting, Flatten
    <2> QED BY <1>4, <2>2, FlattenList DEF j
<1>5. CASE SweepPositions(th)
    <2>1. Becomes(th, Each(Held, Flatten)) /\ Head(job[th]).op # "close" /\ UNCHANGED orders
        BY <1>5 DEF SweepPositions, Doing, brokerVars
    <2> QED BY <1>2, <1>3, <1>4, <2>1, QuietBroker DEF CloseInv
<1>6. CASE CloseOrphans(th)
    <2>1. PICK S \in SUBSET Uncovered : Becomes(th, Each(S, Flatten))
        BY <1>6 DEF CloseOrphans
    <2>2. Head(job[th]).op # "close" /\ UNCHANGED orders
        BY <1>6 DEF CloseOrphans, Doing, brokerVars
    <2>3. IsFiniteSet(S)
        <3>1. S \subseteq Held
            BY DEF Uncovered
        <3> QED BY <1>2, <3>1, FS_Subset
    <2> QED BY <1>3, <1>4, <2>1, <2>2, <2>3, QuietBroker DEF CloseInv
<1>7. CASE FlattenPosition(th)
    <2>1. Becomes(th, <<>>) /\ Head(job[th]).op # "close"
        BY <1>7 DEF FlattenPosition, Doing, Done
    <2>2. \/ UNCHANGED orders
          \/ \E s, side, qty : PlaceOrder(Order(s, side, qty, "MARKET", 0))
        BY <1>7 DEF FlattenPosition, brokerVars
    <2>3. OrdersOK' /\ Quiet(orders, orders')
        BY <2>2, QuietBroker, QuietOrder DEF CloseInv
    <2> QED BY <1>3, <2>1, <2>3, PlainLists
<1>8. CASE Kill(th)
    <2>1. /\ Becomes(th, KillTasks) /\ UNCHANGED orders
          /\ Head(job[th]).op \in Relisting /\ Head(job[th]).op # "close"
        BY <1>8 DEF Kill, Doing, brokerVars, Relisting
    <2>2. OrdersOK' /\ Quiet(orders, orders')
        BY <2>1, QuietBroker DEF CloseInv
    <2>3. CASE OpenTrades = {}
        <3>1. KillTasks = <<Sweep>>
            BY <2>3 DEF KillTasks
        <3> QED BY <1>3, <2>1, <2>2, <3>1, PlainLists
    <2>4. CASE OpenTrades # {}
        <3> DEFINE j == CloseList(OpenTrades, FALSE)
        <3>1. KillTasks = j
            BY <2>4 DEF KillTasks, Each, CloseList
        <3>2. /\ Sequence(j) /\ Ordered(j) /\ NoOpens(j) /\ NoRelists(j)
              /\ Closes(j) = {Close(t, FALSE) : t \in OpenTrades}
            BY <1>2, CloseListOK
        <3> HIDE DEF j
        <3>3. \A t \in OpenTrades : /\ CloseOK(Close(t, FALSE), trades)
                                    /\ ~trades[Close(t, FALSE).trade].closed
            BY DEF OpenTrades, CloseOK, Close
        <3>4. \A c \in Closes(j) : CloseOK(c, trades) /\ ~trades[c.trade].closed
            BY <3>2, <3>3
        <3> QED BY <1>1, <2>1, <2>2, <3>1, <3>2, <3>4, NextTasks
    <2> QED BY <2>3, <2>4
<1>9. CASE SquareOffForced(th)
    <2>1. PICK sweep \in {<<Sweep>>, <<>>} : Becomes(th, SquareOffAll \o sweep)
        BY <1>9 DEF SquareOffForced
    <2>2. /\ UNCHANGED orders
          /\ Head(job[th]).op \in Relisting /\ Head(job[th]).op # "close"
        BY <1>9 DEF SquareOffForced, Doing, brokerVars, Relisting
    <2>3. OrdersOK' /\ Quiet(orders, orders')
        BY <2>2, QuietBroker DEF CloseInv
    <2> DEFINE all == CloseList(OpenTrades, TRUE)
               j == all \o sweep
    <2>4. SquareOffAll = all
        BY DEF SquareOffAll, Each, CloseList
    <2>5. /\ Sequence(all) /\ Ordered(all) /\ NoOpens(all) /\ NoRelists(all)
          /\ Closes(all) = {Close(t, TRUE) : t \in OpenTrades}
        BY <1>2, CloseListOK
    <2> HIDE DEF all
    <2>6. Plain(sweep) /\ NoRelists(sweep)
        BY PlainLists
    <2>7. /\ Sequence(sweep) /\ Ordered(sweep) /\ NoOpens(sweep) /\ Closes(sweep) = {}
        BY <2>6, PlainJobs
    <2>8. /\ Sequence(j) /\ Ordered(j) /\ NoOpens(j) /\ NoRelists(j)
          /\ Closes(j) = Closes(all)
        <3>1. \A c \in Closes(all), d \in Closes(sweep) : c.trade # d.trade
            BY <2>7
        <3>2. Sequence(all) /\ Sequence(sweep) /\ NoRelists(sweep)
            BY <2>5, <2>6, <2>7
        <3>3. Sequence(j)
            BY <3>2, ConcatSequence
        <3>4. Closes(j) = Closes(all) \cup Closes(sweep)
            BY <3>2, ClosesJoined
        <3>5. Closes(j) = Closes(all)
            BY <2>7, <3>4
        <3> QED BY <2>5, <2>7, <3>1, <3>2, <3>3, <3>5, OrderedJoined
    <2>9. \A t \in OpenTrades : /\ CloseOK(Close(t, TRUE), trades)
                                /\ ~trades[Close(t, TRUE).trade].closed
        BY DEF OpenTrades, CloseOK, Close
    <2>10. \A c \in Closes(j) : CloseOK(c, trades) /\ ~trades[c.trade].closed
        BY <2>5, <2>8, <2>9
    <2>11. Becomes(th, j)
        BY <2>1, <2>4
    <2> HIDE DEF j
    <2> QED BY <1>1, <2>2, <2>3, <2>8, <2>10, <2>11, NextTasks
<1> QED BY <1>5, <1>6, <1>7, <1>8, <1>9

LEMMA TakeCloses ==
    ASSUME BookInv, CloseInv, TakesUp
    PROVE  CloseInv'
<1>1. "loop" \in Threads /\ "telegram" \in Threads
    BY DEF Threads
<1>2. IsFiniteSet(OpenTrades)
    BY FiniteBooks DEF BookInv
<1>3. ASSUME NEW t \in OpenTrades, NEW recheck \in BOOLEAN
      PROVE  CloseOK(Close(t, recheck), trades) /\ ~trades[Close(t, recheck).trade].closed
    BY DEF OpenTrades, CloseOK, Close
<1> DEFINE all == SquareOffAll
<1>4. /\ Sequence(all) /\ Ordered(all) /\ NoOpens(all) /\ NoRelists(all)
      /\ \A c \in Closes(all) : CloseOK(c, trades) /\ ~trades[c.trade].closed
    <2>1. all = CloseList(OpenTrades, TRUE)
        BY DEF SquareOffAll, Each, CloseList
    <2> HIDE DEF all
    <2>2. /\ Sequence(all) /\ Ordered(all) /\ NoOpens(all) /\ NoRelists(all)
          /\ Closes(all) = {Close(t, TRUE) : t \in OpenTrades}
        BY <1>2, <2>1, CloseListOK
    <2> QED BY <1>3, <2>2
<1> HIDE DEF all
\* The list that closes all, with plain tasks after it.
<1>5. ASSUME NEW th \in Threads, NEW r, Plain(r), Take(th, all \o r)
      PROVE  CloseInv'
    <2> DEFINE j == all \o r
    <2>1. /\ Sequence(r) /\ Ordered(r) /\ NoOpens(r) /\ Closes(r) = {}
        BY <1>5, PlainJobs
    <2>2. Sequence(j) /\ Ordered(j) /\ NoOpens(j) /\ Closes(j) = Closes(all)
        <3>1. Sequence(all) /\ Sequence(r)
            BY <1>4, <2>1
        <3>2. Sequence(j)
            BY <3>1, ConcatSequence
        <3>3. Closes(j) = Closes(all) \cup Closes(r)
            BY <3>1, ClosesJoined
        <3>4. \A c \in Closes(all), d \in Closes(r) : c.trade # d.trade
            BY <2>1
        <3>5. Ordered(j) /\ NoOpens(j)
            BY <1>4, <2>1, <3>4, OrderedJoined
        <3> QED BY <2>1, <3>2, <3>3, <3>5
    <2>3. Take(th, j)
        BY <1>5
    <2> HIDE DEF j
    <2>4. Entered(Placed(j)) = {}
        BY <2>2, NothingPlaced
    <2> QED BY <1>4, <2>2, <2>3, <2>4, TakenTasks
<1>6. ASSUME NEW th \in Threads, Take(th, all)
      PROVE  CloseInv'
    <2>1. Entered(Placed(all)) = {}
        BY <1>4, NothingPlaced
    <2> QED BY <1>4, <1>6, <2>1, TakenTasks
<1>7. ASSUME NEW th \in Threads, NEW by, NEW plan, Take(th, <<Open(by, plan)>>)
      PROVE  CloseInv'
    <2> DEFINE o == Open(by, plan)
               j == <<o>>
    <2>1. o.op = "open" /\ o.placed = <<>>
        BY DEF Open
    <2> HIDE DEF o
    <2>2. j \in Seq({o}) /\ DOMAIN j = {1} /\ j[1] = o /\ Head(j) = o /\ j # <<>>
        OBVIOUS
    <2>3. Take(th, j)
        BY <1>7 DEF o
    <2> HIDE DEF j
    <2>4. Sequence(j) /\ Ordered(j) /\ Closes(j) = {}
        BY <2>1, <2>2 DEF Sequence, Ordered, Closes
    <2>5. Entered(Placed(j)) = {}
        BY <2>1, <2>2 DEF Placed, Entered
    <2> QED BY <2>3, <2>4, <2>5, TakenTasks
<1>8. CASE BrainOpens \/ EnforcedOpens
    BY <1>1, <1>7, <1>8 DEF BrainOpens, EnforcedOpens, Enters
<1>9. CASE ForceTrade
    BY <1>1, <1>7, <1>9 DEF ForceTrade, Enters
<1>10. CASE ForceClose
    BY <1>1, <1>6, <1>10 DEF ForceClose, all
<1>11. CASE BrainCloses
    BY <1>1, <1>6, <1>11 DEF BrainCloses, all
<1>12. CASE AutoClose
    <2>1. PICK t \in OpenTrades : Take("loop", <<Close(t, FALSE)>>)
        BY <1>12 DEF AutoClose
    <2> DEFINE c == Close(t, FALSE)
               j == <<c>>
    <2>2. c.op = "close" /\ CloseOK(c, trades) /\ ~trades[c.trade].closed
        BY <1>3 DEF Close
    <2> HIDE DEF c
    <2>3. j \in Seq({c}) /\ DOMAIN j = {1} /\ j[1] = c
        OBVIOUS
    <2>4. Take("loop", j)
        BY <2>1 DEF c
    <2> HIDE DEF j
    <2>5. Sequence(j) /\ Ordered(j) /\ NoOpens(j) /\ Closes(j) = {c}
        BY <2>2, <2>3 DEF Sequence, Ordered, NoOpens, Closes
    <2>6. Entered(Placed(j)) = {}
        BY <2>5, NothingPlaced
    <2> QED BY <1>1, <2>2, <2>4, <2>5, <2>6, TakenTasks
<1>13. CASE MavisCloseAll
    <2>1. Take("loop", Append(all, Sweep))
        BY <1>13 DEF MavisCloseAll, all
    <2>2. Append(all, Sweep) = all \o <<Sweep>>
        <3>1. PICK S : all \in Seq(S)
            BY <1>4 DEF Sequence
        <3> DEFINE T == S \cup {Sweep}
        <3>2. all \in Seq(T) /\ Sweep \in T
            BY <3>1
        <3> HIDE DEF T
        <3> QED BY <3>2, AppendIsConcat
    <2> QED BY <1>1, <1>5, <2>1, <2>2, PlainLists
<1>14. CASE OrphanCheck
    <2>1. Take("loop", <<Orphans>>)
        BY <1>14 DEF OrphanCheck
    <2> DEFINE j == <<Orphans>>
    <2>2. Sequence(j) /\ Ordered(j) /\ NoOpens(j) /\ Closes(j) = {}
        BY PlainLists, PlainJobs
    <2>3. Take("loop", j)
        BY <2>1
    <2> HIDE DEF j
    <2>4. Entered(Placed(j)) = {}
        BY <2>2, NothingPlaced
    <2> QED BY <1>1, <2>2, <2>3, <2>4, TakenTasks
<1>15. CASE ClosingPass
    <2>1. PICK force \in {<<ForceSquare>>, <<>>}, kill \in {<<HardKill>>, <<>>} :
              Take("loop", all \o force \o kill)
        BY <1>15 DEF ClosingPass, all
    <2>2. Plain(force) /\ Plain(kill)
        BY PlainLists
    <2>3. Plain(force \o kill)
        <3>1. /\ Sequence(force \o kill) /\ Len(force \o kill) = Len(force) + Len(kill)
              /\ \A i \in 1..Len(force) : (force \o kill)[i] = force[i]
              /\ \A i \in 1..Len(kill) : (force \o kill)[Len(force) + i] = kill[i]
            BY <2>2, ConcatSequence DEF Plain
        <3>2. /\ Len(force) \in Nat /\ DOMAIN force = 1..Len(force)
              /\ Len(kill) \in Nat /\ DOMAIN kill = 1..Len(kill)
              /\ DOMAIN (force \o kill) = 1..(Len(force) + Len(kill))
            BY <2>2, <3>1, SequenceFacts DEF Plain
        <3>3. ASSUME NEW i \in DOMAIN (force \o kill)
              PROVE  (force \o kill)[i].op \notin {"open", "close"}
            <4>1. CASE i \in 1..Len(force)
                BY <2>2, <3>1, <3>2, <4>1 DEF Plain
            <4>2. CASE i \notin 1..Len(force)
                <5>1. i - Len(force) \in 1..Len(kill) /\ i = Len(force) + (i - Len(force))
                    BY <3>2, <4>2
                <5> QED BY <2>2, <3>1, <3>2, <5>1 DEF Plain
            <4> QED BY <4>1, <4>2
        <3> QED BY <3>1, <3>3 DEF Plain
    <2>4. (all \o force) \o kill = all \o (force \o kill)
        <3>1. Sequence(all) /\ Sequence(force) /\ Sequence(kill)
            BY <1>4, <2>2 DEF Plain
        <3>2. PICK A : all \in Seq(A)
            BY <3>1 DEF Sequence
        <3>3. PICK B : force \in Seq(B)
            BY <3>1 DEF Sequence
        <3>4. PICK C : kill \in Seq(C)
            BY <3>1 DEF Sequence
        <3> DEFINE S == A \cup B \cup C
        <3>5. all \in Seq(S) /\ force \in Seq(S) /\ kill \in Seq(S)
            BY <3>2, <3>3, <3>4
        <3> HIDE DEF S
        <3> QED BY <3>5, ConcatAssociative
    <2>5. Take("loop", (all \o force) \o kill)
        BY <2>1
    <2> QED BY <1>1, <1>5, <2>3, <2>4, <2>5
<1> QED BY <1>8, <1>9, <1>10, <1>11, <1>12, <1>13, <1>14, <1>15 DEF TakesUp
-----------------------------------------------------------------------------
(* Entries.                                                                *)

\* A leg more: one entry more, or none.
LEMMA LegMore ==
    ASSUME NEW ls, Sequence(ls), NEW l
    PROVE  /\ Entered(Append(ls, l)) = Entered(ls) \cup
                  (IF l.order # 0 /\ ~l.closing THEN {Len(ls) + 1} ELSE {})
           /\ \A i \in Entered(ls) : Append(ls, l)[i] = ls[i]
           /\ Append(ls, l)[Len(ls) + 1] = l
           /\ Len(ls) + 1 \notin Entered(ls)
<1>1. /\ Sequence(Append(ls, l)) /\ Len(Append(ls, l)) = Len(ls) + 1
      /\ \A i \in 1..Len(ls) : Append(ls, l)[i] = ls[i]
      /\ Append(ls, l)[Len(ls) + 1] = l
    BY AppendSequence
<1>2. Len(ls) \in Nat /\ DOMAIN ls = 1..Len(ls) /\ DOMAIN Append(ls, l) = 1..(Len(ls) + 1)
    BY <1>1, SequenceFacts
<1> DEFINE m == Append(ls, l)
           n == Len(ls)
<1> HIDE DEF m, n
<1>3. /\ n \in Nat /\ DOMAIN ls = 1..n /\ DOMAIN m = 1..(n + 1)
      /\ \A i \in 1..n : m[i] = ls[i]
      /\ m[n + 1] = l
    BY <1>1, <1>2 DEF m, n
<1>4. \A i \in 1..(n + 1) : i \in 1..n \/ i = n + 1
    BY <1>3
<1>5. 1..n \subseteq 1..(n + 1) /\ n + 1 \in 1..(n + 1) /\ n + 1 \notin 1..n
    BY <1>3
<1>6. Entered(m) = Entered(ls) \cup (IF l.order # 0 /\ ~l.closing THEN {n + 1} ELSE {})
    BY <1>3, <1>4, <1>5 DEF Entered
<1>7. (\A i \in Entered(ls) : m[i] = ls[i]) /\ n + 1 \notin Entered(ls)
    BY <1>3, <1>5 DEF Entered
<1> QED BY <1>3, <1>6, <1>7 DEF m, n

LEMMA IdsMore ==
    ASSUME NEW ls, Sequence(ls), NEW l, Apart(ls),
           l.order = 0 \/ l.closing \/ l.order \notin Ids(ls)
    PROVE  /\ Apart(Append(ls, l))
           /\ Ids(Append(ls, l)) = Ids(ls) \cup
                  (IF l.order # 0 /\ ~l.closing THEN {l.order} ELSE {})
<1> DEFINE m == Append(ls, l)
           n == Len(ls) + 1
<1>1. /\ Entered(m) = Entered(ls) \cup (IF l.order # 0 /\ ~l.closing THEN {n} ELSE {})
      /\ \A i \in Entered(ls) : m[i] = ls[i]
      /\ m[n] = l
      /\ n \notin Entered(ls)
    BY LegMore
<1> HIDE DEF m, n
<1>2. Ids(m) = Ids(ls) \cup (IF l.order # 0 /\ ~l.closing THEN {l.order} ELSE {})
    BY <1>1 DEF Ids
<1>3. Apart(m)
    <2> SUFFICES ASSUME NEW i \in Entered(m), NEW k \in Entered(m), m[i].order = m[k].order
                 PROVE  i = k
        BY DEF Apart
    <2>1. \A x \in Entered(ls) : ls[x].order \in Ids(ls)
        BY DEF Ids
    <2>2. CASE i \in Entered(ls) /\ k \in Entered(ls)
        BY <1>1, <2>2 DEF Apart
    <2>3. CASE i \notin Entered(ls) \/ k \notin Entered(ls)
        BY <1>1, <2>1, <2>3
    <2> QED BY <2>2, <2>3
<1> QED BY <1>2, <1>3 DEF m

LEMMA EntryCloses ==
    ASSUME BookInv, CloseInv, NEW th \in Threads, PlaceLeg(th) \/ RefuseLeg(th)
    PROVE  CloseInv'
<1> DEFINE task == Task(th)
           r == Tail(job[th])
<1>1. /\ job[th] # <<>> /\ task.op = "open" /\ task = Head(job[th])
      /\ {"op", "placed"} \subseteq DOMAIN task /\ IsLegs(task.placed)
    <2>1. job[th] # <<>> /\ task.op = "open"
        BY DEF PlaceLeg, RefuseLeg, Doing, Task
    <2>2. TaskOK(task)
        BY <2>1, FewerTasks DEF BookInv, JobOK, Task
    <2> QED BY <2>1, <2>2 DEF TaskOK, Task
<1>2. Placed(job[th]) = task.placed
    BY <1>1 DEF Placed
<1>3. /\ Sequence(r) /\ Ordered(r) /\ NoOpens(r) /\ Closes(job[th]) = Closes(r)
    BY <1>1, StillJobs, JobTail
<1>4. UNCHANGED <<trades, file, crashes>>
    BY DEF PlaceLeg, RefuseLeg, bookVars
\* The entry goes on with one leg more, or with none for a refused one.
<1>5. PICK more, l :
          /\ Becomes(th, <<more>>) /\ more.op = "open"
          /\ \/ more.placed = Append(task.placed, l)
             \/ more.placed = task.placed /\ l.order = 0
          /\ OrdersOK' /\ Quiet(orders, orders')
          /\ l.order = 0 \/ (l.order = Len(orders) + 1 /\ Len(orders') = Len(orders) + 1)
    <2>1. \A plan, placed :
              LET more == [task EXCEPT !.plan = plan, !.placed = placed]
              IN  more.placed = placed /\ more.op = "open"
        BY <1>1
    <2>2. CASE PlaceLeg(th)
        <3> DEFINE leg == Head(task.plan)
                   l == Leg(Len(orders) + 1, leg.symbol, leg.side, 1, FALSE, "LIVE")
                   kind == IF task.by = "enforced" THEN "MARKET" ELSE leg.kind
                   placed == Append(task.placed, l)
                   more == [task EXCEPT !.plan = Tail(task.plan), !.placed = placed]
        <3>1. /\ PlaceOrder(Order(leg.symbol, leg.side, 1, kind, 0))
              /\ Becomes(th, <<more>>)
            BY <2>2 DEF PlaceLeg
        <3>2. OrdersOK' /\ Quiet(orders, orders') /\ Len(orders') = Len(orders) + 1
            BY <3>1, QuietOrder DEF CloseInv
        <3>3. l.order = Len(orders) + 1
            BY DEF Leg
        <3>4. more.placed = placed /\ more.op = "open"
            BY <2>1
        <3> HIDE DEF more, l
        <3> QED BY <3>1, <3>2, <3>3, <3>4
    <2>3. CASE RefuseLeg(th)
        <3> DEFINE leg == Head(task.plan)
                   l == Leg(0, leg.symbol, leg.side, 1, FALSE, "REJECTED")
                   placed == IF task.by = "execute_plan" THEN Append(task.placed, l)
                                                         ELSE task.placed
                   more == [task EXCEPT !.plan = Tail(task.plan), !.placed = placed]
        <3>1. Becomes(th, <<more>>) /\ UNCHANGED orders
            BY <2>3 DEF RefuseLeg, brokerVars
        <3>2. OrdersOK' /\ Quiet(orders, orders')
            BY <3>1, QuietBroker DEF CloseInv
        <3>3. l.order = 0
            BY DEF Leg
        <3>4. more.placed = placed /\ more.op = "open"
            BY <2>1
        <3> HIDE DEF more, l
        <3> QED BY <3>1, <3>2, <3>3, <3>4
    <2> QED BY <2>2, <2>3
<1> DEFINE j == <<more>> \o r
           n == Len(orders)
<1>6. job' = [job EXCEPT ![th] = j]
    BY <1>5 DEF Becomes
<1> HIDE DEF r, task
<1>8. Sequence(<<more>>) /\ Ordered(<<more>>) /\ NoRelists(<<more>>) /\ Closes(<<more>>) = {}
    <2>1. <<more>> \in Seq({more}) /\ DOMAIN <<more>> = {1} /\ <<more>>[1] = more
        OBVIOUS
    <2> QED BY <1>5, <2>1 DEF Sequence, Ordered, NoRelists, Relisting, Closes
<1>9. Ordered(j) /\ Closes(j) = Closes(job[th])
    BY <1>3, <1>8, OrderedJoined, ClosesJoined
<1>10. Placed(j) = more.placed
    <2>1. /\ Sequence(j) /\ Len(j) = 1 + Len(r) /\ Len(r) \in Nat
          /\ j[1] = more
        <3>1. <<more>> \in Seq({more}) /\ Len(<<more>>) = 1 /\ <<more>>[1] = more
            OBVIOUS
        <3> DEFINE one == <<more>>
        <3>2. Sequence(one)
            BY <1>8
        <3> HIDE DEF one
        <3>3. /\ Sequence(one \o r) /\ Len(one \o r) = Len(one) + Len(r)
              /\ \A i \in 1..Len(one) : (one \o r)[i] = one[i]
            BY <1>3, <3>2, ConcatSequence
        <3>4. Len(r) \in Nat
            BY <1>3, SequenceFacts
        <3> QED BY <3>1, <3>3, <3>4 DEF one
    <2> HIDE DEF j
    <2>2. PICK S : j \in Seq(S)
        BY <2>1 DEF Sequence
    <2>3. j # <<>> /\ Head(j) = more
        BY <2>1, <2>2
    <2> QED BY <1>5, <2>3 DEF Placed
<1> HIDE DEF j
<1>11. Sequence(task.placed) /\ Apart(task.placed)
    BY <1>1, <1>2 DEF CloseInv, FlightOK, IsLegs
<1>12. /\ n \in Nat /\ n + 1 \notin 1..n
       /\ \A e \in Ids(task.placed) : e \in 1..n /\ Closings(orders, e) = {}
       /\ \A u \in Threads : Ids(Placed(job[u])) \subseteq 1..n
       /\ \A t \in DOMAIN trades : Ids(trades[t].legs) \subseteq 1..n
    <2>1. n \in Nat
        BY SequenceFacts DEF CloseInv, OrdersOK
    <2>2. n + 1 \notin 1..n
        BY <2>1
    <2> QED BY <1>2, <2>1, <2>2 DEF CloseInv, FlightOK, EntriesOnce
<1>13. /\ Apart(Placed(j))
       /\ Ids(Placed(j)) \subseteq Ids(task.placed) \cup
              (IF l.order = 0 THEN {} ELSE {n + 1})
    <2>1. l.order = 0 \/ l.closing \/ l.order \notin Ids(task.placed)
        BY <1>5, <1>12
    <2>2. CASE more.placed = task.placed
        BY <1>10, <1>11, <2>2
    <2>3. CASE more.placed = Append(task.placed, l)
        BY <1>5, <1>10, <1>11, <2>1, <2>3, IdsMore
    <2> QED BY <1>5, <2>2, <2>3
<1>14. /\ \A e \in 1..n : e \in 1..Len(orders') /\ Closings(orders', e) = Closings(orders, e)
       /\ Len(orders') = n + 1 => /\ n + 1 \in 1..Len(orders')
                                  /\ Closings(orders', n + 1) = {}
    <2>1. /\ Len(orders') \in Nat /\ n <= Len(orders')
          /\ \A e \in 1..Len(orders') :
                 Closings(orders', e) = IF e \in 1..n THEN Closings(orders, e) ELSE {}
        BY <1>5 DEF Quiet
    <2>2. \A e \in 1..n : e \in 1..Len(orders')
        BY <1>12, <2>1
    <2>3. Len(orders') = n + 1 => n + 1 \in 1..Len(orders')
        BY <1>12
    <2> HIDE DEF n
    <2> QED BY <1>12, <2>1, <2>2, <2>3
<1>15. \A e \in Ids(Placed(j)) : e \in 1..Len(orders') /\ Closings(orders', e) = {}
    <2>1. ASSUME NEW e \in Ids(task.placed)
          PROVE  e \in 1..Len(orders') /\ Closings(orders', e) = {}
        BY <1>12, <1>14
    <2>2. ASSUME l.order # 0
          PROVE  n + 1 \in 1..Len(orders') /\ Closings(orders', n + 1) = {}
        BY <1>5, <1>14, <2>2
    <2> QED BY <1>13, <2>1, <2>2
<1>16. FlightOK(job', trades, orders')
    <2> DEFINE ks == job'
    <2>1. \A u \in Threads : ks[u] = IF u = th THEN j ELSE job[u]
        BY <1>6, StillJobs
    <2> HIDE DEF ks
    <2>2. \A u \in Threads : u # th => Placed(ks[u]) = Placed(job[u])
        BY <2>1
    <2>3. ASSUME NEW u \in Threads
          PROVE  /\ Apart(Placed(ks[u]))
                 /\ \A e \in Ids(Placed(ks[u])) :
                        e \in 1..Len(orders') /\ Closings(orders', e) = {}
        <3>1. CASE u = th
            BY <1>13, <1>15, <2>1, <3>1
        <3>2. CASE u # th
            <4>1. /\ Apart(Placed(job[u]))
                  /\ \A e \in Ids(Placed(job[u])) :
                         e \in 1..Len(orders) /\ Closings(orders, e) = {}
                BY DEF CloseInv, FlightOK
            <4> QED BY <1>14, <2>2, <3>2, <4>1
        <3> QED BY <3>1, <3>2
    <2>4. ASSUME NEW u \in Threads, NEW t \in DOMAIN trades
          PROVE  Ids(Placed(ks[u])) \cap Ids(trades[t].legs) = {}
        <3>1. Ids(Placed(job[u])) \cap Ids(trades[t].legs) = {}
            BY DEF CloseInv, FlightOK
        <3>2. Ids(Placed(ks[u])) \subseteq Ids(Placed(job[u])) \cup {n + 1}
            BY <1>2, <1>13, <2>1
        <3> QED BY <1>12, <3>1, <3>2
    <2>5. ASSUME NEW u \in Threads, NEW v \in Threads, u # v
          PROVE  Ids(Placed(ks[u])) \cap Ids(Placed(ks[v])) = {}
        <3>1. /\ Ids(Placed(job[u])) \cap Ids(Placed(job[v])) = {}
              /\ Ids(Placed(job[u])) \subseteq 1..n /\ Ids(Placed(job[v])) \subseteq 1..n
            BY <1>12, <2>5 DEF CloseInv, FlightOK
        <3>2. \A w \in Threads : Ids(Placed(ks[w])) \subseteq
                  Ids(Placed(job[w])) \cup (IF w = th THEN {n + 1} ELSE {})
            BY <1>2, <1>13, <2>1
        <3> QED BY <1>12, <2>5, <3>1, <3>2
    <2>6. FlightOK(ks, trades, orders')
        BY <2>3, <2>4, <2>5 DEF FlightOK
    <2> QED BY <2>6 DEF ks
<1>17. \A u \in Threads : job'[u] = IF u = th THEN j ELSE job[u]
    BY <1>6, StillJobs
<1> QED BY <1>4, <1>5, <1>9, <1>16, <1>17, QuietStep
\* A book that shows the same entries in the same places.
SameEntries(ts, us) ==
    /\ DOMAIN us = DOMAIN ts
    /\ \A t \in DOMAIN ts :
         /\ Entered(us[t].legs) = Entered(ts[t].legs)
         /\ \A i \in Entered(ts[t].legs) : us[t].legs[i].order = ts[t].legs[i].order

LEMMA SameIds ==
    ASSUME NEW ls, NEW ms, Entered(ms) = Entered(ls),
           \A i \in Entered(ls) : ms[i].order = ls[i].order
    PROVE  Ids(ms) = Ids(ls) /\ (Apart(ls) => Apart(ms))
BY DEF Ids, Apart

LEMMA SameEntriesOnce ==
    ASSUME NEW ts, NEW us, NEW n, SameEntries(ts, us), EntriesOnce(ts, n)
    PROVE  EntriesOnce(us, n) /\ \A t \in DOMAIN ts : Ids(us[t].legs) = Ids(ts[t].legs)
<1>1. ASSUME NEW t \in DOMAIN ts
      PROVE  Ids(us[t].legs) = Ids(ts[t].legs) /\ Apart(us[t].legs)
    <2>1. Apart(ts[t].legs)
        BY DEF EntriesOnce
    <2> QED BY <2>1, SameIds DEF SameEntries
<1> QED BY <1>1 DEF EntriesOnce, SameEntries

LEMMA SavedEntries ==
    ASSUME NEW ts, NEW map, IsBook(ts)
    PROVE  SameEntries(ts, Saved(ts, map).trades)
<1> DEFINE us == Saved(ts, map).trades
<1>1. /\ DOMAIN us = DOMAIN ts
      /\ \A t \in DOMAIN ts :
           /\ DOMAIN us[t].legs = DOMAIN ts[t].legs
           /\ \A i \in DOMAIN ts[t].legs : /\ us[t].legs[i].order = ts[t].legs[i].order
                                          /\ us[t].legs[i].closing = ts[t].legs[i].closing
    BY SavedGrown DEF Grown
<1> HIDE DEF us
<1> QED BY <1>1 DEF SameEntries, Entered, us

LEMMA RegisterCloses ==
    ASSUME BookInv, CloseInv, NEW th \in Threads, RegisterTrade(th)
    PROVE  CloseInv'
<1> DEFINE task == Task(th)
           ls == task.placed
           r == Tail(job[th])
<1>1. /\ job[th] # <<>> /\ task.op = "open" /\ task = Head(job[th]) /\ IsLegs(ls)
      /\ Becomes(th, <<>>) /\ UNCHANGED <<orders, crashes>>
    <2>1. job[th] # <<>> /\ task.op = "open" /\ task = Head(job[th])
          /\ Becomes(th, <<>>) /\ UNCHANGED <<orders, crashes>>
        BY DEF RegisterTrade, Doing, Task, Done, brokerVars
    <2>2. TaskOK(task)
        BY <2>1, FewerTasks DEF BookInv, JobOK, Task
    <2> QED BY <2>1, <2>2 DEF TaskOK
<1>2. OrdersOK' /\ Quiet(orders, orders') /\ Len(orders') = Len(orders)
    BY <1>1, QuietBroker DEF CloseInv
<1>3. CASE UNCHANGED bookVars
    <2>1. Closes(<<>>) = {} /\ Sequence(<<>>) /\ Ordered(<<>>) /\ NoOpens(<<>>) /\ NoRelists(<<>>)
        BY PlainLists, PlainJobs
    <2>2. UNCHANGED <<trades, file, crashes>>
        BY <1>1, <1>3 DEF bookVars
    <2> DEFINE none == <<>>
    <2>3. Head(job[th]).op # "close" /\ Becomes(th, none)
        BY <1>1
    <2>4. /\ Closes(none) = {} /\ Sequence(none) /\ Ordered(none) /\ NoOpens(none)
          /\ NoRelists(none)
        BY <2>1
    <2> HIDE DEF none
    <2> QED BY <1>1, <1>2, <2>2, <2>3, <2>4, NextTasks
<1>4. ASSUME NEW legs, IsLegs(legs), Register(legs), Entered(legs) = Entered(ls),
             \A i \in Entered(ls) : legs[i].order = ls[i].order
      PROVE  CloseInv'
    <2> DEFINE new == Trade(legs, FALSE)
               us == Append(trades, new)
               m == Len(trades) + 1
               n == Len(orders)
    <2>1. /\ trades' = us /\ file'.trades = Saved(us, tracked').trades
        BY <1>4 DEF Register
    <2>2. new.legs = legs /\ new.closed = FALSE
        BY DEF Trade
    <2> HIDE DEF new
    <2>3. /\ DOMAIN us = DOMAIN trades \cup {m} /\ m \notin DOMAIN trades
          /\ \A t \in DOMAIN trades : us[t] = trades[t]
          /\ us[m] = new
        <3>1. Sequence(trades)
            BY DEF BookInv, BookOK, IsBook
        <3>2. /\ Sequence(us) /\ Len(us) = m
              /\ \A t \in 1..Len(trades) : us[t] = trades[t]
              /\ us[m] = new
            BY <3>1, AppendSequence
        <3>3. Len(trades) \in Nat /\ DOMAIN trades = 1..Len(trades) /\ DOMAIN us = 1..m
            BY <3>1, <3>2, SequenceFacts
        <3> HIDE DEF us
        <3> QED BY <3>2, <3>3
    <2>4. IsBook(us)
        BY <1>4, <2>1, OpenSteps DEF BookInv, BookOK
    <2> HIDE DEF us, m
    <2>5. /\ Apart(ls) /\ Ids(ls) \subseteq 1..n /\ Placed(job[th]) = ls
          /\ \A e \in Ids(ls) : Closings(orders, e) = {}
          /\ \A t \in DOMAIN trades : Ids(ls) \cap Ids(trades[t].legs) = {}
          /\ \A u \in Threads : u # th => Ids(ls) \cap Ids(Placed(job[u])) = {}
        <3>1. Placed(job[th]) = ls
            BY <1>1 DEF Placed
        <3> HIDE DEF ls
        <3> QED BY <3>1 DEF CloseInv, FlightOK
    <2>6. Ids(legs) = Ids(ls) /\ Apart(legs)
        BY <1>4, <2>5, SameIds
    <2> HIDE DEF ls, task
    <2>7. EntriesOnce(us, n)
        <3>1. EntriesOnce(trades, n)
            BY DEF CloseInv
        <3>2. \A t \in DOMAIN us : Apart(us[t].legs) /\ Ids(us[t].legs) \subseteq 1..n
            BY <2>2, <2>3, <2>5, <2>6, <3>1 DEF EntriesOnce
        <3>3. ASSUME NEW t \in DOMAIN us, NEW u \in DOMAIN us, t # u
              PROVE  Ids(us[t].legs) \cap Ids(us[u].legs) = {}
            <4>1. CASE t \in DOMAIN trades /\ u \in DOMAIN trades
                BY <2>3, <3>1, <3>3, <4>1 DEF EntriesOnce
            <4>2. CASE t = m
                BY <2>2, <2>3, <2>5, <2>6, <3>3, <4>2
            <4>3. CASE u = m
                BY <2>2, <2>3, <2>5, <2>6, <3>3, <4>3
            <4> QED BY <2>3, <4>1, <4>2, <4>3
        <3> QED BY <3>2, <3>3 DEF EntriesOnce
    <2>8. EntriesOnce(file'.trades, n)
        BY <2>1, <2>4, <2>7, SavedEntries, SameEntriesOnce
    <2>9. /\ Sequence(r) /\ Ordered(r) /\ NoOpens(r) /\ Closes(job[th]) = Closes(r)
        BY <1>1, StillJobs, JobTail
    <2>10. job' = [job EXCEPT ![th] = r]
        <3>1. job' = [job EXCEPT ![th] = <<>> \o r]
            BY <1>1 DEF Becomes
        <3>2. PICK S : r \in Seq(S)
            BY <2>9 DEF Sequence
        <3> HIDE DEF r
        <3>3. <<>> \o r = r
            BY <3>2
        <3> QED BY <3>1, <3>3
    <2> HIDE DEF r
    <2>11. \A u \in Threads : job'[u] = IF u = th THEN r ELSE job[u]
        BY <2>10, StillJobs
    <2>12. \A u \in Threads : Ordered(job'[u]) /\ Closes(job'[u]) = Closes(job[u])
        BY <2>9, <2>11, StillJobs
    <2>13. \A u \in Threads : JobShape(job'[u], us)
        <3>1. \A u \in Threads : \A c \in Closes(job[u]) : CloseOK(c, us)
            BY <2>3, StillJobs DEF CloseOK
        <3> QED BY <2>12, <3>1 DEF JobShape
    <2>14. Entered(Placed(r)) = {}
        BY <2>9, NothingPlaced
    <2>15. FlightOK(job', trades, orders)
        <3>1. Quiet(orders, orders)
            BY <1>1, <1>2
        <3> QED BY <2>11, <2>14, <3>1, FlightQuiet DEF CloseInv
    <2>16. FlightOK(job', us, orders)
        <3>1. ASSUME NEW u \in Threads, NEW t \in DOMAIN us
              PROVE  Ids(Placed(job'[u])) \cap Ids(us[t].legs) = {}
            <4>1. CASE t \in DOMAIN trades
                BY <2>3, <2>15, <4>1 DEF FlightOK
            <4>2. CASE t = m /\ u # th
                BY <2>2, <2>3, <2>5, <2>6, <2>11, <4>2
            <4>3. CASE u = th
                <5>1. Ids(Placed(r)) = {}
                    BY <2>14 DEF Ids
                <5> QED BY <2>11, <4>3, <5>1
            <4> QED BY <2>3, <4>1, <4>2, <4>3
        <3> QED BY <2>15, <3>1 DEF FlightOK
    <2>17. Counted(us, job', orders, crashes)
        <3> DEFINE ks == job'
        <3>1. \A e : Cardinality(Closings(orders, e)) \in Nat
            BY FiniteClosings DEF CloseInv
        <3>2. ASSUME NEW t \in DOMAIN trades, NEW i \in Entered(trades[t].legs)
              PROVE  Used(trades, job, t, i) \subseteq Used(us, ks, t, i)
            <4>1. us[t].closed = trades[t].closed
                BY <2>3
            <4>2. \A u \in Threads :
                    /\ Closes(job[u]) \subseteq Closes(ks[u])
                    /\ \A c \in Closes(ks[u]) \ Closes(job[u]) : ~trades[c.trade].closed
                BY <2>12
            <4> HIDE DEF ks
            <4> QED BY <4>1, <4>2, UsedKept
        <3> HIDE DEF ks
        <3>3. ASSUME NEW t \in DOMAIN us, NEW i \in Entered(us[t].legs)
              PROVE  \/ Closings(orders, us[t].legs[i].order) = {}
                     \/ /\ t \in DOMAIN trades /\ i \in Entered(trades[t].legs)
                        /\ trades[t].legs[i].order = us[t].legs[i].order
                        /\ Used(trades, job, t, i) \subseteq Used(us, ks, t, i)
            <4>1. CASE t \in DOMAIN trades
                BY <2>3, <3>2, <3>3, <4>1
            <4>2. CASE t = m
                <5>1. us[t].legs[i].order \in Ids(legs)
                    BY <2>2, <2>3, <3>3, <4>2 DEF Ids
                <5> QED BY <2>5, <2>6, <5>1
            <4> QED BY <2>3, <4>1, <4>2
        <3>4. crashes \in Nat /\ Counted(trades, job, orders, crashes)
            BY DEF CloseInv
        <3>5. Counted(us, ks, orders, crashes)
            BY <3>1, <3>3, <3>4, CountedKept
        <3> QED BY <3>5 DEF ks
    <2>18. crashes \in Nat /\ Bounded(orders, crashes)
        BY DEF CloseInv
    <2>19. /\ Counted(trades', job', orders', crashes') /\ FlightOK(job', trades', orders')
           /\ \A u \in Threads : JobShape(job'[u], trades')
        BY <1>1, <2>1, <2>13, <2>16, <2>17
    <2>20. EntriesOnce(trades', Len(orders')) /\ EntriesOnce(file'.trades, Len(orders'))
        BY <1>2, <2>1, <2>7, <2>8
    <2> QED BY <1>1, <1>2, <2>18, <2>19, <2>20 DEF CloseInv
<1>5. \/ Register(ls) \/ UNCHANGED bookVars \/ Register(Brains(ls))
    BY DEF RegisterTrade
<1>6. /\ IsLegs(Brains(ls)) /\ Entered(Brains(ls)) = Entered(ls)
      /\ \A i \in Entered(ls) : Brains(ls)[i].order = ls[i].order
    <2> HIDE DEF ls
    <2>1. /\ IsLegs(Brains(ls)) /\ DOMAIN Brains(ls) = DOMAIN ls
          /\ \A i \in DOMAIN ls : /\ Brains(ls)[i].order = ls[i].order
                                 /\ Brains(ls)[i].closing = ls[i].closing
        BY <1>1, BrainsLegs
    <2> QED BY <2>1 DEF Entered
<1> HIDE DEF ls, task
<1> QED BY <1>1, <1>3, <1>4, <1>5, <1>6
-----------------------------------------------------------------------------
(* Closings.                                                               *)

\* A job has one close of a trade.
LEMMA OneClose ==
    ASSUME NEW j, Ordered(j), NEW c \in Closes(j), NEW d \in Closes(j), c.trade = d.trade
    PROVE  c = d
<1>1. PICK k \in DOMAIN j : c = j[k] /\ j[k].op = "close"
    BY DEF Closes
<1>2. PICK l \in DOMAIN j : d = j[l] /\ j[l].op = "close"
    BY DEF Closes
<1> QED BY <1>1, <1>2 DEF Ordered

\* The task at hand of a thread that is closing.
LEMMA ClosingNow ==
    ASSUME BookInv, CloseInv, NEW th \in Threads, Doing(th, "close")
    PROVE  /\ job[th] # <<>> /\ Task(th) = Head(job[th]) /\ CloseOK(Task(th), trades)
           /\ Sequence(Tail(job[th])) /\ Ordered(Tail(job[th])) /\ NoOpens(Tail(job[th]))
           /\ Closes(job[th]) = Closes(Tail(job[th])) \cup {Task(th)}
           /\ \A c \in Closes(Tail(job[th])) : /\ c.trade # Task(th).trade
                                               /\ CloseOK(c, trades)
<1>1. job[th] # <<>> /\ Head(job[th]).op = "close"
    BY DEF Doing
<1>2. /\ Sequence(Tail(job[th])) /\ Ordered(Tail(job[th])) /\ NoOpens(Tail(job[th]))
      /\ Closes(job[th]) = Closes(Tail(job[th])) \cup {Head(job[th])}
      /\ \A c \in Closes(Tail(job[th])) : c.trade # Head(job[th]).trade
    BY <1>1, JobTail, StillJobs
<1>3. \A c \in Closes(job[th]) : CloseOK(c, trades)
    BY StillJobs
<1> QED BY <1>1, <1>2, <1>3 DEF Task

\* A closing that is done with, or that has become another with no other of
\* its trade after it: the job it leaves.
LEMMA ClosingGoesOn ==
    ASSUME BookInv, CloseInv, NEW th \in Threads, Doing(th, "close"),
           NEW tasks, Becomes(th, tasks),
           \/ tasks = <<>>
           \/ \E c : tasks = <<c>> /\ CloseOK(c, trades) /\ c.trade = Task(th).trade
    PROVE  /\ \A u \in Threads : u # th => job'[u] = job[u]
           /\ \A u \in Threads : JobShape(job'[u], trades)
           /\ Entered(Placed(job'[th])) = {}
           /\ job' = [job EXCEPT ![th] = job'[th]]
           /\ Closes(job'[th]) = Closes(tasks) \cup Closes(Tail(job[th]))
           /\ tasks = <<>> => Closes(tasks) = {}
           /\ \A c : tasks = <<c>> => Closes(tasks) = IF c.op = "close" THEN {c} ELSE {}
<1> DEFINE r == Tail(job[th])
           j == tasks \o r
<1>1. /\ job[th] # <<>> /\ Sequence(r) /\ Ordered(r) /\ NoOpens(r)
      /\ \A c \in Closes(r) : c.trade # Task(th).trade /\ CloseOK(c, trades)
    BY ClosingNow
<1>2. job' = [job EXCEPT ![th] = j]
    BY DEF Becomes
<1> HIDE DEF r
<1>3. /\ tasks = <<>> => Closes(tasks) = {}
      /\ \A c : tasks = <<c>> => Closes(tasks) = IF c.op = "close" THEN {c} ELSE {}
    <2>1. \A c : DOMAIN <<c>> = {1} /\ <<c>>[1] = c
        OBVIOUS
    <2>2. \A c : Closes(<<c>>) = IF c.op = "close" THEN {c} ELSE {}
        BY <2>1 DEF Closes
    <2> QED BY <2>2, PlainLists, PlainJobs
<1>4. /\ Sequence(tasks) /\ Ordered(tasks) /\ NoOpens(tasks) /\ NoRelists(tasks)
      /\ \A c \in Closes(tasks) : c.trade = Task(th).trade /\ CloseOK(c, trades)
    <2>1. CASE tasks = <<>>
        BY <1>3, <2>1, PlainLists, PlainJobs
    <2>2. CASE \E c : tasks = <<c>> /\ CloseOK(c, trades) /\ c.trade = Task(th).trade
        <3>1. PICK c : tasks = <<c>> /\ CloseOK(c, trades) /\ c.trade = Task(th).trade
            BY <2>2
        <3>2. <<c>> \in Seq({c}) /\ DOMAIN <<c>> = {1} /\ <<c>>[1] = c
            OBVIOUS
        <3>3. c.op = "close"
            BY <3>1 DEF CloseOK
        <3>4. Sequence(<<c>>) /\ Ordered(<<c>>) /\ NoOpens(<<c>>) /\ NoRelists(<<c>>)
            BY <3>2, <3>3 DEF Sequence, Ordered, NoOpens, NoRelists, Relisting
        <3>5. \A d \in Closes(tasks) : d = c
            BY <1>3, <3>1, <3>3
        <3> QED BY <3>1, <3>4, <3>5
    <2> QED BY <2>1, <2>2
<1>5. Closes(j) = Closes(tasks) \cup Closes(r)
    BY <1>1, <1>4, ClosesJoined
<1>6. Sequence(j) /\ Ordered(j) /\ NoOpens(j)
    <2>1. \A c \in Closes(tasks), d \in Closes(r) : c.trade # d.trade
        BY <1>1, <1>4
    <2> QED BY <1>1, <1>4, <2>1, ConcatSequence, OrderedJoined
<1> HIDE DEF j
<1>7. \A u \in Threads : job'[u] = IF u = th THEN j ELSE job[u]
    BY <1>2, StillJobs
<1>8. \A u \in Threads : JobShape(job'[u], trades)
    BY <1>1, <1>4, <1>5, <1>6, <1>7, StillJobs DEF JobShape
<1>9. Entered(Placed(j)) = {}
    BY <1>6, NothingPlaced
<1> QED BY <1>2, <1>3, <1>5, <1>7, <1>8, <1>9 DEF r

LEMMA ClosingEnds ==
    ASSUME BookInv, CloseInv, NEW th \in Threads, Doing(th, "close"), Done(th)
    PROVE  /\ \A u \in Threads : u # th => job'[u] = job[u]
           /\ \A u \in Threads : JobShape(job'[u], trades)
           /\ Entered(Placed(job'[th])) = {}
           /\ job' = [job EXCEPT ![th] = job'[th]]
           /\ Closes(job'[th]) = Closes(Tail(job[th]))
<1> DEFINE none == <<>>
           left == Closes(Tail(job[th]))
<1>1. Becomes(th, none) /\ none = <<>>
    BY DEF Done
<1> HIDE DEF none
<1>2. /\ \A u \in Threads : u # th => job'[u] = job[u]
      /\ \A u \in Threads : JobShape(job'[u], trades)
      /\ Entered(Placed(job'[th])) = {}
      /\ job' = [job EXCEPT ![th] = job'[th]]
      /\ Closes(job'[th]) = Closes(none) \cup left
      /\ none = <<>> => Closes(none) = {}
    BY <1>1, ClosingGoesOn
<1> HIDE DEF left
<1>3. Closes(job'[th]) = left
    BY <1>1, <1>2
<1> QED BY <1>2, <1>3 DEF left

\* What is left to show of a closing step when the book keeps its entries.
LEMMA ClosingStep ==
    ASSUME BookInv, CloseInv, NEW th \in Threads,
           OrdersOK', crashes' = crashes,
           SameEntries(trades, trades'),
           Len(orders') >= Len(orders), Len(orders') \in Nat,
           EntriesOnce(file'.trades, Len(orders')),
           \A u \in Threads : JobShape(job'[u], trades),
           job' = [job EXCEPT ![th] = job'[th]], Entered(Placed(job'[th])) = {},
           \A u \in Threads : \A e \in Ids(Placed(job[u])) :
               Closings(orders', e) = Closings(orders, e),
           Counted(trades', job', orders', crashes),
           Bounded(orders', crashes)
    PROVE  CloseInv'
<1>1. /\ EntriesOnce(trades', Len(orders'))
      /\ \A t \in DOMAIN trades : Ids(trades'[t].legs) = Ids(trades[t].legs)
    <2>1. Len(orders) \in Nat
        BY SequenceFacts DEF CloseInv, OrdersOK
    <2>2. EntriesOnce(trades, Len(orders'))
        BY <2>1, EntriesMore DEF CloseInv
    <2> DEFINE us == trades'
    <2>3. SameEntries(trades, us)
        OBVIOUS
    <2> HIDE DEF us
    <2>4. /\ \A n : EntriesOnce(trades, n) => EntriesOnce(us, n)
          /\ \A t \in DOMAIN trades : Ids(us[t].legs) = Ids(trades[t].legs)
        <3>1. EntriesOnce(trades, Len(orders))
            BY DEF CloseInv
        <3> QED BY <2>3, <3>1, SameEntriesOnce
    <2> QED BY <2>2, <2>4 DEF us
<1>2. \A u \in Threads : JobShape(job'[u], trades')
    BY DEF SameEntries, JobShape, CloseOK
<1>3. FlightOK(job', trades', orders')
    <2> DEFINE ks == job'
    <2>1. \A u \in Threads : u # th => ks[u] = job[u]
        BY StillJobs
    <2>2. Entered(Placed(ks[th])) = {}
        OBVIOUS
    <2> HIDE DEF ks
    <2>3. ASSUME NEW u \in Threads
          PROVE  \/ Placed(ks[u]) = Placed(job[u])
                 \/ Apart(Placed(ks[u])) /\ Ids(Placed(ks[u])) = {}
        BY <2>1, <2>2 DEF Ids, Apart
    <2>4. ASSUME NEW u \in Threads
          PROVE  Apart(Placed(ks[u])) /\ Ids(Placed(ks[u])) \subseteq Ids(Placed(job[u]))
        BY <2>3 DEF CloseInv, FlightOK
    <2>5. ASSUME NEW u \in Threads, NEW e \in Ids(Placed(ks[u]))
          PROVE  e \in 1..Len(orders') /\ Closings(orders', e) = {}
        <3>1. e \in Ids(Placed(job[u]))
            BY <2>4
        <3>2. e \in 1..Len(orders) /\ Closings(orders, e) = {}
            BY <3>1 DEF CloseInv, FlightOK
        <3>3. Len(orders) \in Nat
            BY SequenceFacts DEF CloseInv, OrdersOK
        <3> QED BY <3>1, <3>2, <3>3
    <2>6. \A u \in Threads : \A t \in DOMAIN trades' :
              Ids(Placed(ks[u])) \cap Ids(trades'[t].legs) = {}
        BY <1>1, <2>4 DEF CloseInv, FlightOK, SameEntries
    <2>7. \A u, v \in Threads : u # v => Ids(Placed(ks[u])) \cap Ids(Placed(ks[v])) = {}
        BY <2>4 DEF CloseInv, FlightOK
    <2>8. FlightOK(ks, trades', orders')
        BY <2>4, <2>5, <2>6, <2>7 DEF FlightOK
    <2> QED BY <2>8 DEF ks
<1>4. crashes' \in Nat /\ Counted(trades', job', orders', crashes')
      /\ Bounded(orders', crashes')
    BY DEF CloseInv
<1> QED BY <1>1, <1>2, <1>3, <1>4 DEF CloseInv

LEMMA SkipCloses ==
    ASSUME BookInv, CloseInv, NEW th \in Threads, CloseSkipped(th)
    PROVE  CloseInv'
<1> DEFINE task == Task(th)
<1>1. /\ Doing(th, "close") /\ task.recheck /\ trades[task.trade].closed
      /\ Becomes(th, <<>>) /\ UNCHANGED <<orders, trades, file, crashes>>
    BY DEF CloseSkipped, Overtaken, Done, brokerVars, bookVars
<1>2. /\ Closes(job[th]) = Closes(Tail(job[th])) \cup {task}
      /\ \A c \in Closes(Tail(job[th])) : c.trade # task.trade
    BY <1>1, ClosingNow
<1>3. /\ \A u \in Threads : u # th => job'[u] = job[u]
      /\ \A u \in Threads : JobShape(job'[u], trades)
      /\ Entered(Placed(job'[th])) = {}
      /\ job' = [job EXCEPT ![th] = job'[th]]
      /\ Closes(job'[th]) = Closes(Tail(job[th]))
    <2>1. Doing(th, "close") /\ Done(th)
        BY <1>1 DEF Done
    <2> QED BY <2>1, ClosingEnds
<1> HIDE DEF task
<1>4. OrdersOK' /\ Len(orders') \in Nat /\ Len(orders') >= Len(orders)
    <2>1. Len(orders) \in Nat
        BY SequenceFacts DEF CloseInv, OrdersOK
    <2> QED BY <1>1, <2>1 DEF CloseInv, OrdersOK
<1>5. SameEntries(trades, trades')
    BY <1>1 DEF SameEntries
<1>6. Counted(trades, job', orders, crashes)
    <2> DEFINE ks == job'
    <2>1. ASSUME NEW t \in DOMAIN trades, NEW i, NEW u \in Used(trades, job, t, i)
          PROVE  u \in Used(trades, ks, t, i)
        <3>1. u \in Threads
            BY <2>1 DEF Used
        <3>2. Closes(ks[u]) \subseteq Closes(job[u])
            BY <1>2, <1>3, <3>1
        <3>3. ~trades[t].closed => \A c \in Closes(job[u]) : c.trade = t => c \in Closes(ks[u])
            BY <1>1, <1>2, <1>3, <3>1
        <3> HIDE DEF ks
        <3>4. CASE trades[t].closed
            <4>1. ~Pending(job[u], t, i)
                BY <2>1, <3>4 DEF Used
            <4>2. ~Pending(ks[u], t, i)
                BY <3>2, <4>1 DEF Pending
            <4> QED BY <3>1, <3>4, <4>2 DEF Used
        <3>5. CASE ~trades[t].closed
            <4>1. Passed(job[u], t, i)
                BY <2>1, <3>5 DEF Used
            <4>2. Passed(ks[u], t, i)
                BY <3>3, <3>5, <4>1 DEF Passed
            <4> QED BY <3>1, <3>5, <4>2 DEF Used
        <3> QED BY <3>4, <3>5
    <2> HIDE DEF ks
    <2>2. \A e : Cardinality(Closings(orders, e)) \in Nat
        BY FiniteClosings DEF CloseInv
    <2>3. \A t \in DOMAIN trades : \A i \in Entered(trades[t].legs) :
              Used(trades, job, t, i) \subseteq Used(trades, ks, t, i)
        BY <2>1
    <2>4. crashes \in Nat /\ Counted(trades, job, orders, crashes)
        BY DEF CloseInv
    <2>5. Counted(trades, ks, orders, crashes)
        BY <2>2, <2>3, <2>4, CountedKept
    <2> QED BY <2>5 DEF ks
<1>7. /\ EntriesOnce(file'.trades, Len(orders'))
      /\ Bounded(orders', crashes)
      /\ Counted(trades', job', orders', crashes)
      /\ \A e : Closings(orders', e) = Closings(orders, e)
    BY <1>1, <1>6 DEF CloseInv
<1> QED BY <1>1, <1>3, <1>4, <1>5, <1>7, ClosingStep

LEMMA DoneCloses ==
    ASSUME BookInv, CloseInv, NEW th \in Threads, CloseDone(th)
    PROVE  CloseInv'
<1> DEFINE task == Task(th)
           t0 == task.trade
           us == [trades EXCEPT ![t0].closed = TRUE]
<1>1. /\ Doing(th, "close") /\ trades' = us /\ file'.trades = Saved(us, tracked').trades
      /\ Becomes(th, <<>>) /\ UNCHANGED <<orders, crashes>>
    BY DEF CloseDone, Done, brokerVars
<1>2. /\ Closes(job[th]) = Closes(Tail(job[th])) \cup {task}
      /\ \A c \in Closes(Tail(job[th])) : c.trade # task.trade
      /\ t0 \in DOMAIN trades
    BY <1>1, ClosingNow DEF CloseOK
<1>3. /\ \A u \in Threads : u # th => job'[u] = job[u]
      /\ \A u \in Threads : JobShape(job'[u], trades)
      /\ Entered(Placed(job'[th])) = {}
      /\ job' = [job EXCEPT ![th] = job'[th]]
      /\ Closes(job'[th]) = Closes(Tail(job[th]))
    <2>1. Doing(th, "close") /\ Done(th)
        BY <1>1 DEF Done
    <2> QED BY <2>1, ClosingEnds
<1>4. OrdersOK' /\ Len(orders') \in Nat /\ Len(orders') >= Len(orders)
    <2>1. Len(orders) \in Nat
        BY SequenceFacts DEF CloseInv, OrdersOK
    <2> QED BY <1>1, <2>1 DEF CloseInv, OrdersOK
<1>5. /\ DOMAIN us = DOMAIN trades
      /\ \A t \in DOMAIN trades : /\ us[t].legs = trades[t].legs
                                  /\ t # t0 => us[t].closed = trades[t].closed
                                  /\ t = t0 => us[t].closed = TRUE
    BY DEF BookInv, BookOK, IsBook, IsTrade
<1>6. IsBook(us)
    BY <1>1, CloseSteps DEF BookInv, BookOK
<1> HIDE DEF us, t0, task
<1>7. SameEntries(trades, us)
    BY <1>5 DEF SameEntries
<1>8. EntriesOnce(file'.trades, Len(orders))
    <2>1. EntriesOnce(us, Len(orders))
        BY <1>7, SameEntriesOnce DEF CloseInv
    <2>2. SameEntries(us, Saved(us, tracked').trades)
        BY <1>6, SavedEntries
    <2> QED BY <1>1, <2>1, <2>2, SameEntriesOnce
<1>9. Counted(us, job', orders, crashes)
    <2> DEFINE ks == job'
    <2>1. ASSUME NEW t \in DOMAIN trades, NEW i \in Entered(trades[t].legs),
                 NEW u \in Used(trades, job, t, i)
          PROVE  u \in Used(us, ks, t, i)
        <3>1. u \in Threads
            BY <2>1 DEF Used
        <3>2. Closes(ks[u]) \subseteq Closes(job[u])
            BY <1>2, <1>3, <3>1
        <3>3. t # t0 => \A c \in Closes(job[u]) : c.trade = t => c \in Closes(ks[u])
            BY <1>2, <1>3, <3>1 DEF t0
        <3>4. u = th => \A c \in Closes(ks[u]) : c.trade # t0
            BY <1>2, <1>3 DEF t0
        <3> HIDE DEF ks
        <3>5. CASE trades[t].closed
            <4>1. ~Pending(job[u], t, i)
                BY <2>1, <3>5 DEF Used
            <4>2. ~Pending(ks[u], t, i)
                BY <3>2, <4>1 DEF Pending
            <4>3. us[t].closed
                BY <1>5, <3>5
            <4> QED BY <3>1, <4>2, <4>3 DEF Used
        <3>6. CASE ~trades[t].closed /\ t # t0
            <4>1. Passed(job[u], t, i)
                BY <2>1, <3>6 DEF Used
            <4>2. Passed(ks[u], t, i)
                BY <3>3, <3>6, <4>1 DEF Passed
            <4>3. ~us[t].closed
                BY <1>5, <3>6
            <4> QED BY <3>1, <4>2, <4>3 DEF Used
        <3>7. CASE ~trades[t].closed /\ t = t0
            <4>1. Passed(job[u], t, i)
                BY <2>1, <3>7 DEF Used
            <4>2. PICK c \in Closes(job[u]) : c.trade = t /\ c.at > i
                BY <4>1 DEF Passed
            <4>3. ASSUME Pending(ks[u], t, i)
                  PROVE  FALSE
                <5>1. PICK d \in Closes(ks[u]) : d.trade = t /\ d.at <= i
                    BY <4>3 DEF Pending
                <5>2. c = d
                    BY <3>1, <3>2, <4>2, <5>1, OneClose, StillJobs
                <5>3. c.at \in Nat /\ i \in Nat
                    <6>1. CloseOK(c, trades)
                        BY <3>1, StillJobs
                    <6>2. Sequence(trades[t].legs) /\ i \in DOMAIN trades[t].legs
                        BY DEF BookInv, BookOK, IsBook, IsTrade, IsLegs, Entered
                    <6>3. i \in 1..Len(trades[t].legs) /\ Len(trades[t].legs) \in Nat
                        BY <6>2, SequenceFacts
                    <6> QED BY <6>1, <6>3 DEF CloseOK
                <5> QED BY <4>2, <5>1, <5>2, <5>3
            <4>4. us[t].closed
                BY <1>5, <3>7
            <4> QED BY <3>1, <4>3, <4>4 DEF Used
        <3> QED BY <3>5, <3>6, <3>7
    <2> HIDE DEF ks
    <2>2. \A e : Cardinality(Closings(orders, e)) \in Nat
        BY FiniteClosings DEF CloseInv
    <2>3. \A t \in DOMAIN us : \A i \in Entered(us[t].legs) :
              /\ t \in DOMAIN trades /\ i \in Entered(trades[t].legs)
              /\ trades[t].legs[i].order = us[t].legs[i].order
              /\ Used(trades, job, t, i) \subseteq Used(us, ks, t, i)
        BY <1>5, <2>1
    <2>4. crashes \in Nat /\ Counted(trades, job, orders, crashes)
        BY DEF CloseInv
    <2>5. Counted(us, ks, orders, crashes)
        BY <2>2, <2>3, <2>4, CountedKept
    <2> QED BY <2>5 DEF ks
<1>10. /\ EntriesOnce(file'.trades, Len(orders'))
       /\ Bounded(orders', crashes)
       /\ Counted(trades', job', orders', crashes)
       /\ SameEntries(trades, trades')
       /\ \A e : Closings(orders', e) = Closings(orders, e)
    BY <1>1, <1>7, <1>8, <1>9 DEF CloseInv
<1> QED BY <1>1, <1>3, <1>4, <1>10, ClosingStep
\* The closing of a leg uses up the turn of the thread that does it.
LEMMA LegCloses ==
    ASSUME BookInv, CloseInv, NEW th \in Threads, CloseLeg(th)
    PROVE  CloseInv'
<1> DEFINE task == Task(th)
           t0 == task.trade
           i0 == Min(Remaining(t0, task.at))
           leg == trades[t0].legs[i0]
           l == Leg(Len(orders) + 1, leg.symbol, -leg.side, leg.qty, TRUE, "LIVE")
           next == [task EXCEPT !.at = i0 + 1, !.recheck = FALSE]
           us == [trades EXCEPT ![t0].legs = Append(@, l)]
           n == Len(orders)
           e0 == leg.order
           left == Closes(Tail(job[th]))
<1>1. /\ Doing(th, "close") /\ ~Overtaken(task) /\ Remaining(t0, task.at) # {}
      /\ PlaceOrder(Order(leg.symbol, -leg.side, leg.qty, "MARKET", e0))
      /\ trades' = us /\ Becomes(th, <<next>>)
      /\ file' = file /\ crashes' = crashes
    BY DEF CloseLeg
<1>2. /\ CloseOK(task, trades) /\ Closes(job[th]) = left \cup {task}
      /\ \A c \in left : c.trade # t0
    BY <1>1, ClosingNow
<1>3. /\ t0 \in DOMAIN trades /\ task.at \in Nat /\ task.at > 0
      /\ task.recheck \in BOOLEAN /\ ~(task.recheck /\ trades[t0].closed)
    BY <1>1, <1>2 DEF CloseOK, Overtaken
<1>4. \A t \in DOMAIN trades : Sequence(trades[t].legs) /\ DOMAIN trades[t].legs \subseteq Nat
    <2>1. \A t \in DOMAIN trades : Sequence(trades[t].legs)
        BY DEF BookInv, BookOK, IsBook, IsTrade, IsLegs
    <2>2. \A k : 1..k \subseteq Nat
        OBVIOUS
    <2> QED BY <2>1, <2>2, SequenceFacts
<1>5. /\ i0 \in DOMAIN trades[t0].legs /\ i0 \in Nat /\ i0 >= task.at /\ ~leg.closing
    <2>1. Remaining(t0, task.at) \in SUBSET Nat
        BY <1>3, <1>4 DEF Remaining
    <2>2. i0 \in Remaining(t0, task.at)
        BY <1>1, <2>1, LeastIn
    <2> QED BY <1>3, <1>4, <2>2 DEF Remaining, Closable
<1>6. n \in Nat /\ e0 \in 0..n /\ (e0 # 0 => i0 \in Entered(trades[t0].legs) /\ e0 \in 1..n
                                             /\ e0 \in Ids(trades[t0].legs))
    <2>1. n \in Nat
        BY SequenceFacts DEF CloseInv, OrdersOK
    <2>2. ASSUME e0 # 0
          PROVE  i0 \in Entered(trades[t0].legs) /\ e0 \in Ids(trades[t0].legs)
        BY <1>5, <2>2 DEF Entered, Ids
    <2>3. ASSUME e0 # 0
          PROVE  e0 \in 1..n
        BY <1>3, <2>2, <2>3 DEF CloseInv, EntriesOnce
    <2>4. e0 \in 0..n
        BY <2>1, <2>3
    <2> QED BY <2>1, <2>2, <2>3, <2>4
<1>7. /\ l.closing /\ l.order = n + 1
    BY DEF Leg
<1>8. /\ OrdersOK' /\ Len(orders') = n + 1
      /\ DOMAIN orders = 1..n /\ DOMAIN orders' = 1..(n + 1)
      /\ \A e \in 1..(n + 1) : e # e0 => Closings(orders', e) = Closings(orders, e)
      /\ Cardinality(Closings(orders', e0)) = Cardinality(Closings(orders, e0)) + 1
      /\ Closings(orders', n + 1) = {}
    <2> DEFINE symbol == leg.symbol
               side == -leg.side
               qty == leg.qty
    <2>1. OrdersOK /\ e0 \in 0..Len(orders)
        BY <1>6 DEF CloseInv
    <2>2. PlaceOrder(Order(symbol, side, qty, "MARKET", e0))
        BY <1>1
    <2> HIDE DEF symbol, side, qty, e0
    <2> QED BY <2>1, <2>2, PlacedOnce
<1>9. /\ next.op = "close" /\ next.trade = t0 /\ next.at = i0 + 1 /\ next.recheck = FALSE
      /\ CloseOK(next, trades)
    BY <1>2, <1>3, <1>5 DEF CloseOK
<1>10. /\ DOMAIN us = DOMAIN trades
       /\ \A t \in DOMAIN trades :
            /\ us[t].closed = trades[t].closed
            /\ us[t].legs = IF t = t0 THEN Append(trades[t].legs, l) ELSE trades[t].legs
    BY DEF BookInv, BookOK, IsBook, IsTrade
<1> HIDE DEF us, l, i0, t0, task, next, n, e0, leg, left
<1>11. SameEntries(trades, us)
    <2>1. ASSUME NEW t \in DOMAIN trades
          PROVE  /\ Entered(us[t].legs) = Entered(trades[t].legs)
                 /\ \A i \in Entered(trades[t].legs) : us[t].legs[i].order = trades[t].legs[i].order
        <3>1. Sequence(trades[t].legs)
            BY <1>4
        <3>2. /\ Entered(Append(trades[t].legs, l)) = Entered(trades[t].legs)
              /\ \A i \in Entered(trades[t].legs) :
                     Append(trades[t].legs, l)[i] = trades[t].legs[i]
            <4> DEFINE ls == trades[t].legs
            <4> HIDE DEF ls
            <4>1. /\ Entered(Append(ls, l)) = Entered(ls) \cup
                        (IF l.order # 0 /\ ~l.closing THEN {Len(ls) + 1} ELSE {})
                  /\ \A i \in Entered(ls) : Append(ls, l)[i] = ls[i]
                BY <3>1, LegMore DEF ls
            <4>2. Entered(Append(ls, l)) = Entered(ls)
                BY <1>7, <4>1
            <4> QED BY <4>1, <4>2 DEF ls
        <3> QED BY <1>10, <3>2
    <2> QED BY <1>10, <2>1 DEF SameEntries
<1>12. /\ \A u \in Threads : u # th => job'[u] = job[u]
       /\ \A u \in Threads : JobShape(job'[u], trades)
       /\ Entered(Placed(job'[th])) = {}
       /\ job' = [job EXCEPT ![th] = job'[th]]
       /\ Closes(job'[th]) = {next} \cup left
    <2> DEFINE tasks == <<next>>
    <2>1. Becomes(th, tasks) /\ tasks = <<next>>
        BY <1>1
    <2>2. \E c : tasks = <<c>> /\ CloseOK(c, trades) /\ c.trade = Task(th).trade
        BY <1>9 DEF t0, task
    <2> HIDE DEF tasks
    <2>3. /\ \A u \in Threads : u # th => job'[u] = job[u]
          /\ \A u \in Threads : JobShape(job'[u], trades)
          /\ Entered(Placed(job'[th])) = {}
          /\ job' = [job EXCEPT ![th] = job'[th]]
          /\ Closes(job'[th]) = Closes(tasks) \cup Closes(Tail(job[th]))
          /\ \A c : tasks = <<c>> => Closes(tasks) = IF c.op = "close" THEN {c} ELSE {}
        BY <1>1, <2>1, <2>2, ClosingGoesOn
    <2>4. Closes(tasks) = {next}
        BY <1>9, <2>1, <2>3
    <2> QED BY <2>3, <2>4 DEF left
\* Whoever has had a turn keeps it.
<1>13. ASSUME NEW t \in DOMAIN trades, NEW i \in Entered(trades[t].legs),
              NEW u \in Used(trades, job, t, i)
       PROVE  u \in Used(us, job', t, i)
    <2> DEFINE ks == job'
    <2>1. u \in Threads /\ us[t].closed = trades[t].closed
        BY <1>10, <1>13 DEF Used
    <2>2. u # th => Closes(ks[u]) = Closes(job[u])
        BY <1>12, <2>1
    <2>3. u = th => Closes(ks[u]) = {next} \cup left /\ Closes(job[u]) = left \cup {task}
        BY <1>2, <1>12
    <2>4. i \in Nat
        BY <1>4 DEF Entered
    <2> HIDE DEF ks
    <2>5. CASE trades[t].closed
        <3>1. ~Pending(job[u], t, i)
            BY <1>13, <2>5 DEF Used
        <3>2. ASSUME Pending(ks[u], t, i)
              PROVE  FALSE
            <4>1. PICK d \in Closes(ks[u]) : d.trade = t /\ ~d.recheck /\ d.at <= i
                BY <3>2 DEF Pending
            <4>2. d \notin Closes(job[u])
                BY <3>1, <4>1 DEF Pending
            <4>3. u = th /\ d = next
                BY <2>2, <2>3, <4>1, <4>2
            <4>4. task \in Closes(job[u]) /\ task.trade = t /\ ~task.recheck /\ task.at <= i
                BY <1>3, <1>5, <1>9, <2>3, <2>4, <2>5, <4>1, <4>3 DEF t0
            <4> QED BY <3>1, <4>4 DEF Pending
        <3>3. us[t].closed
            BY <2>1, <2>5
        <3> QED BY <2>1, <3>2, <3>3 DEF Used, ks
    <2>6. CASE ~trades[t].closed
        <3>1. Passed(job[u], t, i)
            BY <1>13, <2>6 DEF Used
        <3>2. PICK c \in Closes(job[u]) : c.trade = t /\ c.at > i
            BY <3>1 DEF Passed
        <3>3. Passed(ks[u], t, i)
            <4>1. CASE c \in Closes(ks[u])
                BY <3>2, <4>1 DEF Passed
            <4>2. CASE c \notin Closes(ks[u])
                <5>1. u = th /\ c = task
                    BY <2>2, <2>3, <3>2, <4>2
                <5>2. next \in Closes(ks[u]) /\ next.trade = t /\ next.at > i
                    BY <1>3, <1>5, <1>9, <2>3, <2>4, <3>2, <5>1 DEF t0
                <5> QED BY <5>2 DEF Passed
            <4> QED BY <4>1, <4>2
        <3>4. ~us[t].closed
            BY <2>1, <2>6
        <3> QED BY <2>1, <3>3, <3>4 DEF Used, ks
    <2> QED BY <2>5, <2>6 DEF ks
\* The thread had not had its turn at this leg, and has had it now.
<1>14. th \notin Used(trades, job, t0, i0) /\ th \in Used(us, job', t0, i0)
    <2> DEFINE ks == job'
    <2>1. us[t0].closed = trades[t0].closed
        BY <1>3, <1>10
    <2>2. Closes(ks[th]) = {next} \cup left
        BY <1>12
    <2> HIDE DEF ks
    <2>3. CASE trades[t0].closed
        <3>1. Pending(job[th], t0, i0)
            BY <1>2, <1>3, <1>5, <2>3 DEF Pending, t0
        <3>2. ~Pending(ks[th], t0, i0)
            BY <1>2, <1>5, <1>9, <2>2 DEF Pending
        <3>3. us[t0].closed
            BY <2>1, <2>3
        <3> QED BY <2>3, <3>1, <3>2, <3>3 DEF Used, ks
    <2>4. CASE ~trades[t0].closed
        <3>1. ~Passed(job[th], t0, i0)
            BY <1>2, <1>3, <1>5 DEF Passed
        <3>2. Passed(ks[th], t0, i0)
            BY <1>5, <1>9, <2>2 DEF Passed
        <3>3. ~us[t0].closed
            BY <2>1, <2>4
        <3> QED BY <2>4, <3>1, <3>2, <3>3 DEF Used, ks
    <2> QED BY <2>3, <2>4 DEF ks
<1>15. Counted(us, job', orders', crashes)
    <2> DEFINE ks == job'
               ns == orders'
    <2>1. \A e : Cardinality(Closings(orders, e)) \in Nat
        BY FiniteClosings DEF CloseInv
    <2>2. ASSUME NEW t \in DOMAIN us, NEW i \in Entered(us[t].legs)
          PROVE  /\ t \in DOMAIN trades /\ i \in Entered(trades[t].legs)
                 /\ trades[t].legs[i].order = us[t].legs[i].order
                 /\ Used(trades, job, t, i) \subseteq Used(us, ks, t, i)
                 /\ \/ Closings(ns, us[t].legs[i].order) = Closings(orders, us[t].legs[i].order)
                    \/ /\ Cardinality(Closings(ns, us[t].legs[i].order))
                            = Cardinality(Closings(orders, us[t].legs[i].order)) + 1
                       /\ Used(us, ks, t, i) \ Used(trades, job, t, i) # {}
        <3>1. /\ t \in DOMAIN trades /\ i \in Entered(trades[t].legs)
              /\ trades[t].legs[i].order = us[t].legs[i].order
            BY <1>11, <2>2 DEF SameEntries
        <3>2. Used(trades, job, t, i) \subseteq Used(us, ks, t, i)
            BY <1>13, <3>1
        <3> DEFINE e == trades[t].legs[i].order
        <3>3. e \in Ids(trades[t].legs) /\ e \in 1..n
            BY <3>1 DEF CloseInv, EntriesOnce, Ids, n
        <3> HIDE DEF e
        <3>4. CASE e # e0
            <4>1. e \in 1..(n + 1)
                BY <1>6, <3>3
            <4>2. Closings(ns, e) = Closings(orders, e)
                BY <1>8, <3>4, <4>1
            <4> QED BY <3>1, <3>2, <4>2 DEF e
        <3>5. CASE e = e0
            <4>1. e0 # 0
                BY <1>6, <3>3, <3>5
            <4>2. t = t0
                <5>1. e \in Ids(trades[t].legs) \cap Ids(trades[t0].legs)
                    BY <1>6, <3>3, <3>5, <4>1
                <5> QED BY <1>3, <3>1, <5>1 DEF CloseInv, EntriesOnce
            <4>3. i = i0
                BY <1>3, <1>6, <3>1, <3>5, <4>1, <4>2 DEF CloseInv, EntriesOnce, Apart, e, e0, leg
            <4>4. Used(us, ks, t, i) \ Used(trades, job, t, i) # {}
                BY <1>14, <4>2, <4>3
            <4>5. Cardinality(Closings(ns, e)) = Cardinality(Closings(orders, e)) + 1
                BY <1>8, <3>5
            <4> QED BY <3>1, <3>2, <4>4, <4>5 DEF e
        <3> QED BY <3>4, <3>5
    <2>3. crashes \in Nat /\ Counted(trades, job, orders, crashes)
        BY DEF CloseInv
    <2> HIDE DEF ks, ns
    <2>4. Counted(us, ks, ns, crashes)
        BY <2>1, <2>2, <2>3, CountedKept
    <2> QED BY <2>4 DEF ks, ns
<1>16. Bounded(orders', crashes)
    <2>1. crashes \in Nat /\ Bounded(orders, crashes)
        BY DEF CloseInv
    <2>2. ASSUME NEW e \in 1..(n + 1)
          PROVE  Cardinality(Closings(orders', e)) <= 2 * (1 + crashes)
        <3>1. CASE e = n + 1
            <4>1. Cardinality(Closings(orders', e)) = 0
                BY <1>8, <3>1, FS_EmptySet
            <4> QED BY <2>1, <4>1
        <3>2. CASE e # n + 1 /\ e # e0
            <4>1. e \in 1..n
                BY <1>6, <3>2
            <4> QED BY <1>8, <2>1, <3>2, <4>1 DEF Bounded
        <3>3. CASE e = e0
            <4> DEFINE S == Used(us, job', t0, i0)
            <4>1. e0 # 0
                BY <1>6, <3>3
            <4>2. us[t0].legs[i0].order = e0 /\ i0 \in Entered(us[t0].legs)
                BY <1>3, <1>6, <1>11, <4>1 DEF SameEntries, e0, leg
            <4>3. Cardinality(Closings(orders', e0)) <= 2 * crashes + Cardinality(S)
                BY <1>3, <1>10, <1>15, <4>2 DEF Counted
            <4>4. Cardinality(S) \in Nat /\ Cardinality(S) <= 2
                <5>1. S \in SUBSET Threads
                    BY DEF Used
                <5> QED BY <5>1, TwoThreads
            <4>5. Cardinality(Closings(orders', e0)) \in Nat
                BY <1>8, FiniteClosings DEF CloseInv
            <4> HIDE DEF S
            <4> QED BY <2>1, <3>3, <4>3, <4>4, <4>5
        <3> QED BY <3>1, <3>2, <3>3
    <2> QED BY <1>8, <2>2 DEF Bounded
<1>17. \A u \in Threads : \A e \in Ids(Placed(job[u])) : Closings(orders', e) = Closings(orders, e)
    <2> SUFFICES ASSUME NEW u \in Threads, NEW e \in Ids(Placed(job[u]))
                 PROVE  Closings(orders', e) = Closings(orders, e)
        OBVIOUS
    <2>1. e \in 1..n /\ e \notin Ids(trades[t0].legs)
        BY <1>3 DEF CloseInv, FlightOK, n
    <2>2. e # e0 /\ e \in 1..(n + 1)
        BY <1>6, <2>1
    <2> QED BY <1>8, <2>2
<1>18. EntriesOnce(file'.trades, Len(orders'))
    <2>1. EntriesOnce(file.trades, n) /\ n + 1 \in Nat /\ n <= n + 1
        BY <1>6 DEF CloseInv, n
    <2>2. EntriesOnce(file.trades, n + 1)
        BY <1>6, <2>1, EntriesMore
    <2> QED BY <1>1, <1>8, <2>2
<1>19. Len(orders') \in Nat /\ Len(orders') >= Len(orders)
    BY <1>6, <1>8 DEF n
<1>20. /\ SameEntries(trades, trades') /\ Counted(trades', job', orders', crashes)
       /\ crashes' = crashes
    BY <1>1, <1>11, <1>15
<1> QED BY <1>8, <1>12, <1>16, <1>17, <1>18, <1>19, <1>20, ClosingStep

-----------------------------------------------------------------------------
(* A restart: a life more, and nobody has had a turn in it.                *)

LEMMA RestartCloses ==
    ASSUME BookInv, CloseInv, Restart
    PROVE  CloseInv'
<1>0. PICK phantoms \in Phantoms(file.trades) :
          /\ trades' = AdoptedTrades(file.trades, Untracked(file.tracked) \ phantoms)
          /\ file' = [trades |-> trades', tracked |-> tracked']
    BY DEF Restart, Loaded, AdoptedTrades
<1> DEFINE found == Untracked(file.tracked) \ phantoms
           us == AdoptedTrades(file.trades, found)
           ts == file.trades
           n == Len(orders)
<1>1. /\ trades' = us /\ file'.trades = us
      /\ job' = [th \in Threads |-> <<>>] /\ crashes' = crashes + 1
      /\ Reload
    BY <1>0 DEF Restart
<1>2. OrdersOK' /\ Quiet(orders, orders') /\ Len(orders') = n
    BY <1>1, QuietBroker DEF CloseInv
<1>3. \A t \in DOMAIN us : (t \in DOMAIN ts /\ us[t] = ts[t]) \/ \E s : us[t] = Adopted(s)
    <2>1. found \subseteq Untracked(file.tracked) /\ IsFiniteSet(found)
        <3>1. IsFiniteSet(Held) /\ found \subseteq Held
            BY FiniteBooks DEF BookInv, Untracked
        <3> QED BY <3>1, FS_Subset
    <2> HIDE DEF found
    <2> QED BY <2>1, AdoptedOK DEF BookInv
<1>4. \A s : Entered(Adopted(s).legs) = {}
    <2> SUFFICES ASSUME NEW s
                 PROVE  Entered(Adopted(s).legs) = {}
        OBVIOUS
    <2> DEFINE l == IF position[s] > 0
                    THEN Leg(0, s, Buy, position[s], FALSE, "COMPLETE")
                    ELSE Leg(0, s, Sell, -position[s], FALSE, "COMPLETE")
    <2>1. l.order = 0
        BY DEF Leg
    <2>2. Adopted(s).legs = <<l>>
        BY DEF Adopted, Trade
    <2> HIDE DEF l
    <2>3. DOMAIN <<l>> = {1} /\ <<l>>[1] = l
        OBVIOUS
    <2> QED BY <2>1, <2>2, <2>3 DEF Entered
<1>5. crashes \in Nat /\ n \in Nat /\ DOMAIN orders = 1..n
    BY SequenceFacts DEF CloseInv, OrdersOK, n
<1>6. EntriesOnce(ts, n)
    BY DEF CloseInv
<1> HIDE DEF us, ts, n
<1>7. ASSUME NEW t \in DOMAIN us, Entered(us[t].legs) # {}
      PROVE  t \in DOMAIN ts /\ us[t] = ts[t]
    BY <1>3, <1>4, <1>7
<1>8. EntriesOnce(us, n)
    <2>1. \A ls : Entered(ls) = {} => Apart(ls) /\ Ids(ls) = {}
        BY DEF Apart, Ids
    <2>2. \A t \in DOMAIN us : Apart(us[t].legs) /\ Ids(us[t].legs) \subseteq 1..n
        BY <1>6, <1>7, <2>1 DEF EntriesOnce
    <2>3. ASSUME NEW t \in DOMAIN us, NEW u \in DOMAIN us, t # u
          PROVE  Ids(us[t].legs) \cap Ids(us[u].legs) = {}
        BY <1>6, <1>7, <2>1, <2>3 DEF EntriesOnce
    <2> QED BY <2>2, <2>3 DEF EntriesOnce
<1>9. ASSUME NEW th \in Threads
      PROVE  JobShape(job'[th], us) /\ Entered(Placed(job'[th])) = {}
    <2> DEFINE j == <<>>
    <2>1. Sequence(j) /\ Ordered(j) /\ NoOpens(j) /\ Closes(j) = {}
        BY PlainLists, PlainJobs
    <2>2. job'[th] = j
        BY <1>1
    <2> HIDE DEF j
    <2> QED BY <2>1, <2>2, NothingPlaced DEF JobShape
<1>10. FlightOK(job', us, orders')
    BY <1>9 DEF FlightOK, Apart, Ids
<1>11. \A e \in 1..n : /\ Cardinality(Closings(orders', e)) \in Nat
                       /\ Cardinality(Closings(orders', e)) <= 2 * (1 + crashes)
    <2>1. \A e \in 1..n : Closings(orders', e) = Closings(orders, e)
        BY <1>2 DEF Quiet, n
    <2>2. Bounded(orders, crashes) /\ \A e : Cardinality(Closings(orders, e)) \in Nat
        BY FiniteClosings DEF CloseInv
    <2> QED BY <1>5, <2>1, <2>2 DEF Bounded
<1>12. Bounded(orders', crashes + 1)
    <2>1. DOMAIN orders' = 1..n
        BY <1>2 DEF Quiet, n
    <2>2. 2 * (1 + crashes) <= 2 * (1 + (crashes + 1)) /\ 2 * (1 + crashes) \in Nat
        BY <1>5
    <2>3. ASSUME NEW e \in 1..n
          PROVE  Cardinality(Closings(orders', e)) <= 2 * (1 + (crashes + 1))
        BY <1>5, <1>11, <2>2
    <2> QED BY <2>1, <2>3 DEF Bounded
<1>13. Counted(us, job', orders', crashes + 1)
    <2> SUFFICES ASSUME NEW t \in DOMAIN us, NEW i \in Entered(us[t].legs)
                 PROVE  Cardinality(Closings(orders', us[t].legs[i].order))
                            <= 2 * (crashes + 1) + Cardinality(Used(us, job', t, i))
        BY DEF Counted
    <2> DEFINE S == Used(us, job', t, i)
    <2>1. S \in SUBSET Threads
        BY DEF Used
    <2>2. Cardinality(S) \in Nat
        BY <2>1, TwoThreads
    <2>3. us[t].legs[i].order \in 1..n
        BY <1>8 DEF EntriesOnce, Ids
    <2> HIDE DEF S
    <2>4. /\ Cardinality(Closings(orders', us[t].legs[i].order)) \in Nat
          /\ Cardinality(Closings(orders', us[t].legs[i].order)) <= 2 * (1 + crashes)
        BY <1>11, <2>3
    <2>5. Cardinality(Closings(orders', us[t].legs[i].order))
              <= 2 * (crashes + 1) + Cardinality(S)
        BY <1>5, <2>2, <2>4
    <2> QED BY <2>5 DEF S
<1>14. /\ EntriesOnce(trades', Len(orders')) /\ EntriesOnce(file'.trades, Len(orders'))
       /\ \A th \in Threads : JobShape(job'[th], trades')
       /\ FlightOK(job', trades', orders')
       /\ Counted(trades', job', orders', crashes')
       /\ Bounded(orders', crashes')
    BY <1>1, <1>2, <1>8, <1>9, <1>10, <1>12, <1>13
<1>15. crashes' \in Nat
    BY <1>1, <1>5
<1> QED BY <1>2, <1>14, <1>15 DEF CloseInv

-----------------------------------------------------------------------------
LEMMA InitCloses == BotInit => CloseInv
<1> SUFFICES ASSUME BotInit
             PROVE  CloseInv
    OBVIOUS
<1>1. /\ orders = <<>> /\ trades = <<>> /\ file.trades = <<>> /\ crashes = 0
      /\ job = [th \in Threads |-> <<>>]
    BY DEF BotInit, BrokerInit
<1>2. Sequence(<<>>) /\ DOMAIN <<>> = {} /\ Len(<<>>) = 0
    <2>1. <<>> \in Seq({}) /\ DOMAIN <<>> = {} /\ Len(<<>>) = 0
        OBVIOUS
    <2> QED BY <2>1 DEF Sequence
<1>3. OrdersOK /\ Bounded(orders, crashes)
    BY <1>1, <1>2 DEF OrdersOK, Bounded
<1>4. EntriesOnce(trades, Len(orders)) /\ EntriesOnce(file.trades, Len(orders))
    BY <1>1, <1>2 DEF EntriesOnce
<1>5. ASSUME NEW th \in Threads
      PROVE  JobShape(job[th], trades) /\ Entered(Placed(job[th])) = {}
    <2> DEFINE j == <<>>
    <2>1. Sequence(j) /\ Ordered(j) /\ NoOpens(j) /\ Closes(j) = {}
        BY PlainLists, PlainJobs
    <2>2. job[th] = j
        BY <1>1
    <2> HIDE DEF j
    <2> QED BY <2>1, <2>2, NothingPlaced DEF JobShape
<1>6. FlightOK(job, trades, orders)
    BY <1>5 DEF FlightOK, Apart, Ids
<1>7. Counted(trades, job, orders, crashes)
    BY <1>1, <1>2 DEF Counted
<1> QED BY <1>1, <1>3, <1>4, <1>5, <1>6, <1>7 DEF CloseInv

LEMMA StepCloses == BookInv /\ CloseInv /\ [Next]_vars => CloseInv'
<1> SUFFICES ASSUME BookInv, CloseInv, [Next]_vars
             PROVE  CloseInv'
    OBVIOUS
\* Steps that leave the book and the jobs alone.
<1>1. ASSUME OrdersOK', Quiet(orders, orders'), UNCHANGED <<trades, file, job, crashes>>
      PROVE  CloseInv'
    <2> DEFINE th == "loop"
               j == job[th]
    <2>1. th \in Threads
        BY DEF Threads
    <2>2. \A u \in Threads : job'[u] = IF u = th THEN j ELSE job[u]
        BY <1>1
    <2>3. Ordered(j)
        BY <2>1, StillJobs
    <2>5. FlightOK(job', trades, orders')
        BY <1>1, <2>1, <2>2, FlightQuiet DEF CloseInv
    <2>6. UNCHANGED <<trades, file, crashes>>
        BY <1>1
    <2> QED BY <1>1, <2>1, <2>2, <2>3, <2>5, <2>6, QuietStep
<1>2. ASSUME NEW th \in Threads, Works(th)
      PROVE  CloseInv'
    BY <1>2, EntryCloses, RegisterCloses, SkipCloses, LegCloses, DoneCloses, SweepCloses
       DEF Works
<1>3. CASE DayMoves
    <2>1. UNCHANGED <<orders, trades, file, job, crashes>>
        BY <1>3 DEF DayMoves, brokerVars, bookVars
    <2> QED BY <1>1, <2>1, QuietBroker DEF CloseInv
<1>4. ASSUME NEW s \in Symbols, Ticks(s)
      PROVE  CloseInv'
    <2>1. Tick(s) /\ UNCHANGED <<trades, file, job, crashes>>
        BY <1>4 DEF Ticks, bookVars
    <2> QED BY <1>1, <2>1, QuietBroker DEF CloseInv
<1>5. CASE UNCHANGED vars
    <2>1. UNCHANGED <<orders, trades, file, job, crashes>>
        BY <1>5 DEF vars
    <2> QED BY <1>1, <2>1, QuietBroker DEF CloseInv
<1> QED BY <1>2, <1>3, <1>4, <1>5, TakeCloses, RestartCloses DEF Next

\* order_manager.py close_trade, square_off_all and the loops that call them:
\* whatever the interleaving of the threads, the crashes and the restarts, an
\* entry is closed at most once by each thread in each life of the bot.
THEOREM ClosesAreBounded == BotSpec => []ClosesBounded
<1>1. CloseInv => ClosesBounded
    BY TwoThreads DEF CloseInv, Bounded, ClosesBounded, Closings
<1>2. BotInit => CloseInv
    BY InitCloses
<1> QED BY <1>1, <1>2, StepCloses, BooksAgree, PTL DEF BotSpec
=============================================================================
