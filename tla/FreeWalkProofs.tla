---------------------------- MODULE FreeWalkProofs ----------------------------
(***************************************************************************)
(* Theorems about FreeWalk, for every world of rooms and doors that         *)
(* WalkAssumption and RoomAssumption admit, every set of presses and any    *)
(* number of calls, cutscenes and texts.                                    *)
(***************************************************************************)
EXTENDS FreeWalk, ExploreBrainProofs, SequenceTheorems

(* The shape of what is remembered and of what the next look is told.       *)
Fields == {"places", "sealed", "edges", "place", "cursor", "lost", "resync", "prev"}
Listed(s) == s \in Seq({s[i] : i \in DOMAIN s})
IsMap(m) ==
  /\ m = [f \in Fields |-> m[f]]
  /\ Listed(m.places)
  /\ m.place \in 1..Len(m.places)
  /\ m.lost \in BOOLEAN /\ m.resync \in BOOLEAN
TypeInv ==
  /\ IsMap(mem)
  /\ did = [f \in {"buttons", "fade", "advanced"} |-> did[f]]
  /\ did.fade \in BOOLEAN /\ did.advanced \in BOOLEAN
  /\ anchor \in Nat /\ calm \in 0..2

(* A door leads to a known place, from which another one leads back.         *)
DoorsPair(m) ==
  \A k \in DOMAIN m.edges :
    /\ k[1] \in 1..Len(m.places) /\ m.edges[k].to \in 1..Len(m.places)
    /\ \E b \in DOMAIN m.edges : b[1] = m.edges[k].to /\ m.edges[b].to = k[1]

(* The places since the anchor are those that hang together with this one.   *)
Hangs(m, from) ==
  /\ from \in 1..m.place
  /\ \A k \in DOMAIN m.edges : k[1] >= from => m.edges[k].to >= from
  /\ \A some \in SUBSET (1..Len(m.places)) :
       Closed(m, some) => from..Len(m.places) \subseteq some

(* Until the emulator runs again the last frame is the present one; once a   *)
(* step was compared with its predecessor, only a text can call for a new    *)
(* baseline, and then nothing was pressed since.                             *)
Compared ==
  /\ ~did.advanced /\ ~mem.resync => mem.prev = spot
  /\ calm > 0 /\ mem.resync => /\ did.advanced /\ did.buttons = <<>>
                               /\ tool # "none"
IInv == TypeInv /\ DoorsPair(mem) /\ Hangs(mem, anchor) /\ Compared /\ LostIsShort

-------------------------------------------------------------------------------
(* Lemmas about the memory: what each piece of perceive() leaves alone.       *)

LEMMA ListedIsSeq ==
  ASSUME NEW S, NEW seq \in Seq(S)
  PROVE  Listed(seq)
<1> DEFINE R == {seq[p] : p \in DOMAIN seq}
<1>1. Len(seq) \in Nat /\ seq \in [1..Len(seq) -> S]
  BY LenProperties
<1>2. seq \in [1..Len(seq) -> R]
  BY <1>1
<1> QED BY <1>1, <1>2 DEF Listed

LEMMA Appended ==
  ASSUME NEW seq, Listed(seq), NEW e
  PROVE  /\ Listed(Append(seq, e))
         /\ Len(seq) \in Nat /\ Len(Append(seq, e)) = Len(seq) + 1
<1> DEFINE R == {seq[p] : p \in DOMAIN seq}
<1>1. seq \in Seq(R \cup {e})
  BY SeqMonotonic DEF Listed
<1>2. /\ Append(seq, e) \in Seq(R \cup {e})
      /\ Len(Append(seq, e)) = Len(seq) + 1 /\ Len(seq) \in Nat
  BY <1>1, AppendProperties, LenProperties
<1> QED BY <1>2, ListedIsSeq

LEMMA Replaced ==
  ASSUME NEW seq, Listed(seq), NEW i \in 1..Len(seq), NEW e
  PROVE  /\ Listed([seq EXCEPT ![i] = e])
         /\ Len([seq EXCEPT ![i] = e]) = Len(seq)
<1> DEFINE R == {seq[p] : p \in DOMAIN seq}
           T == R \cup {e}
           new == [seq EXCEPT ![i] = e]
<1>1. seq \in Seq(T)
  BY SeqMonotonic DEF Listed
<1>2. e \in T
  OBVIOUS
<1> HIDE DEF T
<1>3. new \in Seq(T) /\ Len(new) = Len(seq)
  BY <1>1, <1>2, ExceptSeq
<1> HIDE DEF new
<1>4. Listed(new)
  BY <1>3, ListedIsSeq
<1> QED BY <1>3, <1>4 DEF new

(* The same place, its doors and the number of places.                        *)
Settled(m, n) ==
  /\ IsMap(n)
  /\ Len(n.places) = Len(m.places) /\ n.edges = m.edges /\ n.place = m.place

LEMMA StayLostKeeps ==
  ASSUME NEW m, IsMap(m), NEW at
  PROVE  LET n == StayLost(m, at)
         IN  Settled(m, n) /\ n.lost = TRUE /\ n.resync = FALSE /\ n.prev = at
<1> QED BY DEF IsMap, Fields, Settled, StayLost

LEMMA TextKeeps ==
  ASSUME NEW m, IsMap(m)
  PROVE  LET n == PerceiveText(m)
         IN  Settled(m, n) /\ n.lost = m.lost /\ n.resync = TRUE
<1> QED BY DEF IsMap, Fields, Settled, PerceiveText

LEMMA ReAnchorIsFresh ==
  ASSUME NEW m, IsMap(m)
  PROVE  LET n == ReAnchor(m)
         IN  /\ IsMap(n)
             /\ Len(n.places) = Len(m.places) + 1 /\ n.place = Len(m.places) + 1
             /\ n.edges = m.edges /\ n.lost = FALSE
<1> DEFINE more == Append(m.places, <<>>)
           far == Len(m.places) + 1
<1>1. Listed(more) /\ Len(more) = far /\ far \in 1..far
  BY Appended DEF IsMap
<1>2. ReAnchor(m) = [m EXCEPT !.places = more, !.place = far,
                              !.cursor = <<0, 0>>, !.lost = FALSE]
  BY DEF ReAnchor
<1> HIDE DEF more
<1> QED BY <1>1, <1>2 DEF IsMap, Fields

LEMMA SeenKeeps ==
  ASSUME NEW m, IsMap(m), NEW at
  PROVE  LET n == Seen(m, at)
         IN  Settled(m, n) /\ n.lost = m.lost /\ n.resync = FALSE /\ n.prev = at
<1> DEFINE cells == Visit(m.places[m.place], {m.cursor})
           ps == [m.places EXCEPT ![m.place] = cells]
<1>1. Listed(ps) /\ Len(ps) = Len(m.places)
  BY Replaced DEF IsMap
<1>2. Seen(m, at) = [m EXCEPT !.places = ps, !.resync = FALSE, !.prev = at]
  BY DEF Seen, IsMap, Fields
<1> HIDE DEF ps
<1> QED BY <1>1, <1>2 DEF IsMap, Fields, Settled

LEMMA WalkedKeeps ==
  ASSUME NEW m, IsMap(m), NEW d, NEW tiles
  PROVE  LET n == Walked(m, d, tiles)
         IN  /\ Settled(m, n)
             /\ n.lost = m.lost /\ n.resync = m.resync /\ n.prev = m.prev
<1> DEFINE bump == [m.places[m.place] EXCEPT ![m.cursor] = @ \cup {d}]
           trail == Trail(m.places[m.place], m.cursor, d, tiles)
           to == Away(m.cursor, d, tiles)
           cells == IF tiles = 0 THEN bump ELSE trail
           cur == IF tiles = 0 THEN m.cursor ELSE to
           ps == [m.places EXCEPT ![m.place] = cells]
           n == [m EXCEPT !.places = ps, !.cursor = cur]
<1>1. Listed(ps) /\ Len(ps) = Len(m.places)
  BY Replaced DEF IsMap
<1>2. n = Walked(m, d, tiles)
  <2>1. CASE tiles = 0
    BY <2>1 DEF Walked, IsMap, Fields
  <2>2. CASE tiles # 0
    BY <2>2 DEF Walked, IsMap, Fields
  <2> QED BY <2>1, <2>2
<1> HIDE DEF ps, cur
<1>3. Settled(m, n) /\ n.lost = m.lost /\ n.resync = m.resync /\ n.prev = m.prev
  BY <1>1 DEF IsMap, Fields, Settled
<1> QED BY <1>2, <1>3

(* Through a door: to the place it is known to lead to, or to a fresh one     *)
(* that it leads to and that leads back.                                      *)
DoorOf(m) == <<m.place, m.cursor>>
LEMMA TransitKnown ==
  ASSUME NEW m, IsMap(m), NEW d, DoorOf(m) \in DOMAIN m.edges,
         m.edges[DoorOf(m)].to \in 1..Len(m.places)
  PROVE  LET n == Transit(m, d)
         IN  /\ IsMap(n)
             /\ Len(n.places) = Len(m.places) /\ n.edges = m.edges
             /\ n.place = m.edges[DoorOf(m)].to
             /\ n.lost = m.lost /\ n.resync = TRUE /\ n.prev = m.prev
<1> DEFINE door == <<m.place, m.cursor>>
           exit == m.edges[door]
           to == exit.to
           entry == exit.entry
           back == Neighbour(entry, Back[d])
           cells == Visit(m.places[to], {entry, back})
           ps == [m.places EXCEPT ![to] = cells]
           seals == m.sealed \cup {door, <<to, back>>}
           n == [m EXCEPT !.places = ps, !.edges = m.edges, !.sealed = seals,
                          !.place = to, !.cursor = entry, !.resync = TRUE]
<1>1. Listed(ps) /\ Len(ps) = Len(m.places)
  BY Replaced DEF IsMap, DoorOf
<1>2. n = Transit(m, d)
  BY DEF Transit, DoorOf
<1>3. to \in 1..Len(m.places) /\ to = m.edges[DoorOf(m)].to
  BY DEF DoorOf
<1> HIDE DEF ps, seals, to, entry
<1>4. /\ IsMap(n) /\ Len(n.places) = Len(m.places) /\ n.edges = m.edges
      /\ n.place = to
      /\ n.lost = m.lost /\ n.resync = TRUE /\ n.prev = m.prev
  BY <1>1, <1>3 DEF IsMap, Fields
<1> QED BY <1>2, <1>3, <1>4

LEMMA TransitFresh ==
  ASSUME NEW m, IsMap(m), NEW d, DoorOf(m) \notin DOMAIN m.edges
  PROVE  LET n == Transit(m, d)
             far == Len(m.places) + 1
             exit == [to |-> far, entry |-> <<0, 0>>, dir |-> d]
             return == [to |-> m.place, entry |-> m.cursor, dir |-> Back[d]]
         IN  /\ IsMap(n)
             /\ Len(n.places) = far /\ n.place = far
             /\ n.edges = Linked(m.edges, DoorOf(m), exit, <<far, <<0, 0>>>>, return)
             /\ n.lost = m.lost /\ n.resync = TRUE /\ n.prev = m.prev
<1> DEFINE door == <<m.place, m.cursor>>
           far == Len(m.places) + 1
           exit == [to |-> far, entry |-> <<0, 0>>, dir |-> d]
           return == [to |-> m.place, entry |-> m.cursor, dir |-> Back[d]]
           back == Neighbour(<<0, 0>>, Back[d])
           more == Append(m.places, <<>>)
           cells == Visit(more[far], {<<0, 0>>, back})
           ps == [more EXCEPT ![far] = cells]
           doors == Linked(m.edges, door, exit, <<far, <<0, 0>>>>, return)
           seals == m.sealed \cup {door, <<far, back>>}
           n == [m EXCEPT !.places = ps, !.edges = doors, !.sealed = seals,
                          !.place = far, !.cursor = <<0, 0>>, !.resync = TRUE]
<1>1. Listed(more) /\ Len(more) = far /\ far \in 1..far
  BY Appended DEF IsMap
<1>2. Listed(ps) /\ Len(ps) = far
  <2> HIDE DEF more, far, cells
  <2> QED BY <1>1, Replaced
<1>3. n = Transit(m, d)
  BY DEF Transit, DoorOf
<1>4. door = DoorOf(m)
  BY DEF DoorOf
<1> HIDE DEF ps, seals, doors
<1>5. /\ IsMap(n) /\ Len(n.places) = far /\ n.edges = doors /\ n.place = far
      /\ n.lost = m.lost /\ n.resync = TRUE /\ n.prev = m.prev
  <2> HIDE DEF far
  <2> QED BY <1>1, <1>2 DEF IsMap, Fields
<1> QED BY <1>3, <1>4, <1>5 DEF doors

(* How the places hang together depends on the place, the doors and the       *)
(* number of places only.                                                     *)
LEMMA SettledHangs ==
  ASSUME NEW m, NEW n, Settled(m, n), DoorsPair(m), NEW from, Hangs(m, from)
  PROVE  DoorsPair(n) /\ Hangs(n, from)
<1> QED BY DEF Settled, DoorsPair, Hangs, Closed

LEMMA FreshHangs ==
  ASSUME NEW m, IsMap(m), DoorsPair(m)
  PROVE  DoorsPair(ReAnchor(m)) /\ Hangs(ReAnchor(m), Len(m.places) + 1)
<1> DEFINE n == ReAnchor(m)
           far == Len(m.places) + 1
<1>1. /\ Len(n.places) = far /\ n.place = far /\ n.edges = m.edges
      /\ Len(m.places) \in Nat
  BY ReAnchorIsFresh, Appended DEF IsMap
<1> HIDE DEF n
<1>2. DoorsPair(n)
  BY <1>1 DEF DoorsPair
<1>3. Hangs(n, far)
  <2>1. far \in 1..n.place /\ \A k \in DOMAIN n.edges : k[1] < far
    BY <1>1 DEF DoorsPair
  <2>2. \A some : Closed(n, some) => far..Len(n.places) \subseteq some
    BY <1>1 DEF Closed
  <2> QED BY <1>1, <2>1, <2>2 DEF Hangs, DoorsPair
<1> QED BY <1>2, <1>3 DEF n

LEMMA KnownDoorHangs ==
  ASSUME NEW m, IsMap(m), DoorsPair(m), NEW from, Hangs(m, from), NEW n,
         DoorOf(m) \in DOMAIN m.edges, n.place = m.edges[DoorOf(m)].to,
         Len(n.places) = Len(m.places), n.edges = m.edges
  PROVE  DoorsPair(n) /\ Hangs(n, from)
<1> DEFINE to == m.edges[DoorOf(m)].to
<1>1. DoorOf(m)[1] = m.place /\ from \in 1..m.place /\ to \in 1..Len(m.places)
  BY DEF DoorOf, Hangs, DoorsPair
<1>2. m.place \in 1..Len(m.places)
  BY DEF IsMap
<1>3. from \in 1..to
  BY <1>1, <1>2 DEF Hangs
<1>4. ASSUME NEW some \in SUBSET (1..Len(n.places)), Closed(n, some)
      PROVE  from..Len(n.places) \subseteq some
  <2>1. PICK b \in DOMAIN m.edges : b[1] = to /\ m.edges[b].to = m.place
    BY <1>1 DEF DoorsPair
  <2>2. Closed(m, some)
    BY <1>4, <2>1 DEF Closed
  <2> QED BY <2>2 DEF Hangs
<1>5. DoorsPair(n)
  BY DEF DoorsPair
<1>6. \A k \in DOMAIN n.edges : k[1] >= from => n.edges[k].to >= from
  BY DEF Hangs
<1> QED BY <1>3, <1>4, <1>5, <1>6 DEF Hangs

LEMMA FreshDoorHangs ==
  ASSUME NEW m, IsMap(m), DoorsPair(m), NEW from, Hangs(m, from), NEW n,
         NEW far, far = Len(m.places) + 1,
         NEW door, door[1] = m.place, door \notin DOMAIN m.edges,
         NEW way, way[1] = far,
         NEW exit, exit.to = far, NEW return, return.to = m.place,
         n.place = far, Len(n.places) = far,
         n.edges = Linked(m.edges, door, exit, way, return)
  PROVE  DoorsPair(n) /\ Hangs(n, from)
<1>1. /\ Len(m.places) \in Nat /\ far \in Nat /\ m.place \in 1..Len(m.places)
      /\ from \in 1..m.place
  BY Appended DEF IsMap, Hangs
<1>2. /\ \A k \in DOMAIN m.edges : k[1] \in 1..Len(m.places)
      /\ door # way /\ way \notin DOMAIN m.edges
  BY <1>1 DEF DoorsPair
<1>3. /\ DOMAIN n.edges = DOMAIN m.edges \cup {door, way}
      /\ n.edges[door] = exit /\ n.edges[way] = return
      /\ \A k \in DOMAIN m.edges : n.edges[k] = m.edges[k]
  BY <1>2 DEF Linked
<1>4. DoorsPair(n)
  <2> SUFFICES ASSUME NEW k \in DOMAIN n.edges
               PROVE  /\ k[1] \in 1..far /\ n.edges[k].to \in 1..far
                      /\ \E b \in DOMAIN n.edges :
                           b[1] = n.edges[k].to /\ n.edges[b].to = k[1]
    BY DEF DoorsPair
  <2>1. CASE k = door
    BY <1>1, <1>3, <2>1
  <2>2. CASE k = way
    BY <1>1, <1>3, <2>2
  <2>3. CASE k \in DOMAIN m.edges
    <3>1. /\ k[1] \in 1..Len(m.places) /\ m.edges[k].to \in 1..Len(m.places)
          /\ \E b \in DOMAIN m.edges : b[1] = m.edges[k].to /\ m.edges[b].to = k[1]
      BY <2>3 DEF DoorsPair
    <3> QED BY <1>1, <1>3, <2>3, <3>1
  <2> QED BY <1>3, <2>1, <2>2, <2>3
<1>5. \A k \in DOMAIN n.edges : k[1] >= from => n.edges[k].to >= from
  BY <1>1, <1>3 DEF Hangs
<1>6. ASSUME NEW some \in SUBSET (1..Len(n.places)), Closed(n, some)
      PROVE  from..Len(n.places) \subseteq some
  <2> DEFINE old == some \cap 1..Len(m.places)
  <2>1. far \in some /\ m.place \in some
    BY <1>3, <1>6 DEF Closed
  <2>2. \A k \in DOMAIN m.edges : k[1] \in old => m.edges[k].to \in old
    BY <1>3, <1>6 DEF Closed, DoorsPair
  <2>3. Closed(m, old)
    BY <1>1, <2>1, <2>2 DEF Closed
  <2>4. from..Len(m.places) \subseteq old
    BY <2>3 DEF Hangs
  <2> QED BY <1>1, <2>1, <2>4
<1> QED BY <1>1, <1>4, <1>5, <1>6 DEF Hangs

LEMMA TransitHangs ==
  ASSUME NEW m, IsMap(m), DoorsPair(m), NEW from, Hangs(m, from), NEW d
  PROVE  LET n == Transit(m, d)
         IN  /\ IsMap(n) /\ DoorsPair(n) /\ Hangs(n, from)
             /\ n.lost = m.lost /\ n.resync = TRUE /\ n.prev = m.prev
<1> DEFINE n == Transit(m, d)
<1>1. CASE DoorOf(m) \in DOMAIN m.edges
  <2>1. m.edges[DoorOf(m)].to \in 1..Len(m.places)
    BY <1>1 DEF DoorsPair
  <2>2. /\ IsMap(n) /\ Len(n.places) = Len(m.places) /\ n.edges = m.edges
        /\ n.place = m.edges[DoorOf(m)].to
        /\ n.lost = m.lost /\ n.resync = TRUE /\ n.prev = m.prev
    BY <1>1, <2>1, TransitKnown
  <2> HIDE DEF n
  <2>3. DoorsPair(n) /\ Hangs(n, from)
    BY <1>1, <2>2, KnownDoorHangs
  <2> QED BY <2>2, <2>3 DEF n
<1>2. CASE DoorOf(m) \notin DOMAIN m.edges
  <2> DEFINE far == Len(m.places) + 1
             way == <<far, <<0, 0>>>>
             exit == [to |-> far, entry |-> <<0, 0>>, dir |-> d]
             return == [to |-> m.place, entry |-> m.cursor, dir |-> Back[d]]
  <2>1. /\ IsMap(n) /\ Len(n.places) = far /\ n.place = far
        /\ n.edges = Linked(m.edges, DoorOf(m), exit, way, return)
        /\ n.lost = m.lost /\ n.resync = TRUE /\ n.prev = m.prev
    BY <1>2, TransitFresh
  <2>2. /\ DoorOf(m)[1] = m.place /\ way[1] = far
        /\ exit.to = far /\ return.to = m.place
    BY DEF DoorOf
  <2> HIDE DEF n, way, exit, return
  <2>3. DoorsPair(n) /\ Hangs(n, from)
    BY <1>2, <2>1, <2>2, FreshDoorHangs
  <2> QED BY <2>1, <2>3 DEF n
<1> QED BY <1>1, <1>2

-------------------------------------------------------------------------------
(* perceive() as a whole.                                                      *)
LEMMA PerceiveKeeps ==
  ASSUME NEW m, IsMap(m), DoorsPair(m), NEW from, Hangs(m, from), NEW at, NEW c
  PROVE  LET n == Perceive(m, at, c)
         IN  /\ IsMap(n) /\ DoorsPair(n)
             /\ m.lost /\ ~n.lost => Hangs(n, Len(m.places) + 1)
             /\ ~(m.lost /\ ~n.lost) => Hangs(n, from)
             /\ ~n.resync => n.prev = at
             /\ n.resync => c.fade
             /\ n.lost <=> StillLost(m, at, c)
<1> DEFINE n == Perceive(m, at, c)
           d == SingleDir(c.buttons)
           found == IF m.lost THEN ReAnchor(m) ELSE m
           start == IF m.lost THEN Len(m.places) + 1 ELSE from
           seen == Seen(found, at)
           tiles == Scrolled(m.prev, at, d)
<1>1. CASE StillLost(m, at, c)
  <2>1. n = StayLost(m, at)
    BY <1>1 DEF Perceive
  <2> HIDE DEF n
  <2>2. Settled(m, n) /\ n.lost = TRUE /\ n.resync = FALSE /\ n.prev = at
    BY <2>1, StayLostKeeps
  <2>3. DoorsPair(n) /\ Hangs(n, from) /\ IsMap(n)
    BY <2>2, SettledHangs DEF Settled
  <2> QED BY <1>1, <2>2, <2>3 DEF n
<1>2. CASE ~StillLost(m, at, c)
  <2>1. /\ IsMap(found) /\ DoorsPair(found) /\ Hangs(found, start)
        /\ found.lost = FALSE
    <3>1. CASE m.lost
      <4>1. IsMap(ReAnchor(m)) /\ ReAnchor(m).lost = FALSE
        BY ReAnchorIsFresh
      <4>2. DoorsPair(ReAnchor(m)) /\ Hangs(ReAnchor(m), Len(m.places) + 1)
        BY FreshHangs
      <4> QED BY <3>1, <4>1, <4>2
    <3>2. CASE ~m.lost
      BY <3>2 DEF IsMap
    <3> QED BY <3>1, <3>2
  <2> HIDE DEF found, start
  <2>2. /\ Settled(found, seen)
        /\ seen.lost = FALSE /\ seen.resync = FALSE /\ seen.prev = at
    BY <2>1, SeenKeeps
  <2> HIDE DEF seen
  <2>3. IsMap(seen) /\ DoorsPair(seen) /\ Hangs(seen, start)
    BY <2>1, <2>2, SettledHangs DEF Settled
  <2>4. CASE c.fade /\ d # "none"
    <3>1. n = Transit(seen, d)
      BY <1>2, <2>4 DEF Perceive, seen, found
    <3> HIDE DEF n, d
    <3>2. /\ IsMap(n) /\ DoorsPair(n) /\ Hangs(n, start)
          /\ n.lost = FALSE /\ n.resync = TRUE
      BY <2>2, <2>3, <3>1, TransitHangs
    <3> QED BY <1>2, <2>4, <3>2 DEF n, start
  <2>5. CASE ~(c.fade /\ d # "none") /\ ~m.resync /\ d # "none"
    <3>1. n = Walked(seen, d, tiles)
      BY <1>2, <2>5 DEF Perceive, seen, found
    <3> HIDE DEF n, d, tiles
    <3>2. /\ Settled(seen, n)
          /\ n.lost = FALSE /\ n.resync = FALSE /\ n.prev = at
      BY <2>2, <2>3, <3>1, WalkedKeeps
    <3>3. IsMap(n) /\ DoorsPair(n) /\ Hangs(n, start)
      BY <2>3, <3>2, SettledHangs DEF Settled
    <3> QED BY <1>2, <3>2, <3>3 DEF n, start
  <2>6. CASE ~(c.fade /\ d # "none") /\ ~(~m.resync /\ d # "none")
    <3>1. n = seen
      BY <1>2, <2>6 DEF Perceive, seen, found
    <3> QED BY <1>2, <2>2, <2>3, <3>1 DEF start
  <2> QED BY <2>4, <2>5, <2>6
<1> QED BY <1>1, <1>2

(* What every observation leaves, whatever it is part of.                     *)
LEMMA ObserveKeeps ==
  ASSUME IInv, Observe
  PROVE  /\ IsMap(mem') /\ anchor' \in Nat /\ calm' \in 0..2
         /\ DoorsPair(mem') /\ Hangs(mem', anchor')
         /\ ~mem'.resync => mem'.prev = spot
         /\ calm' > 0 => ~mem'.resync
         /\ LostIsShort'
<1>1. /\ IsMap(mem) /\ DoorsPair(mem) /\ Hangs(mem, anchor)
      /\ anchor \in Nat /\ calm \in 0..2 /\ Len(mem.places) \in Nat
  BY Appended DEF IInv, TypeInv, IsMap
<1>2. CASE text = "none"
  <2>1. mem' = Perceive(mem, spot, did)
    BY <1>2 DEF Observe
  <2>2. /\ IsMap(mem') /\ DoorsPair(mem')
        /\ mem.lost /\ ~mem'.lost => Hangs(mem', Len(mem.places) + 1)
        /\ ~(mem.lost /\ ~mem'.lost) => Hangs(mem', anchor)
        /\ ~mem'.resync => mem'.prev = spot
        /\ mem'.resync => did.fade
        /\ mem'.lost <=> StillLost(mem, spot, did)
    BY <1>1, <2>1, PerceiveKeeps
  <2>3. /\ anchor' = (IF mem.lost /\ ~mem'.lost THEN Len(mem.places) + 1 ELSE anchor)
        /\ anchor' \in Nat
    BY <1>1 DEF Observe
  <2>4. calm' \in 0..2 /\ (calm' > 0 => ~did.fade)
    BY <1>1, <1>2 DEF Observe
  <2>5. ASSUME calm' = 2, StillLost(mem, spot, did)
        PROVE  FALSE
    <3>1. ~did.fade /\ calm > 0
      BY <1>1, <1>2, <2>5 DEF Observe
    <3>2. CASE ~did.advanced
      <4>1. calm = 2 /\ ~mem.lost /\ ~mem.resync
        BY <1>2, <2>5, <3>1, <3>2 DEF Observe, IInv, Compared, LostIsShort
      <4>2. mem.prev = spot
        BY <3>2, <4>1 DEF IInv, Compared
      <4> QED BY <2>5, <3>1, <4>1, <4>2 DEF StillLost, SceneCut
    <3>3. CASE did.advanced
      <4>1. SingleDir(did.buttons) # "none" /\ ~SceneCut(mem.prev, spot)
        BY <1>2, <2>5, <3>1, <3>3 DEF Observe
      <4>2. SingleDir(<<>>) = "none"
        BY DEF SingleDir
      <4>3. ~mem.resync
        BY <3>1, <4>1, <4>2 DEF IInv, Compared
      <4> QED BY <2>5, <3>1, <3>3, <4>1, <4>3 DEF StillLost
    <3> QED BY <3>2, <3>3
  <2>6. calm' = 2 => ~mem'.lost
    BY <2>2, <2>5
  <2>7. Hangs(mem', anchor')
    BY <2>2, <2>3
  <2>8. calm' > 0 => ~mem'.resync
    BY <2>2, <2>4
  <2> QED BY <2>2, <2>3, <2>4, <2>6, <2>7, <2>8 DEF LostIsShort
<1>3. CASE text # "none"
  <2>1. mem' = PerceiveText(mem) /\ calm' = 0
    BY <1>3 DEF Observe
  <2>2. Settled(mem, mem') /\ mem'.lost = mem.lost /\ mem'.resync = TRUE
    BY <1>1, <2>1, TextKeeps
  <2>3. IsMap(mem') /\ DoorsPair(mem') /\ Hangs(mem', anchor)
    BY <1>1, <2>2, SettledHangs DEF Settled
  <2>4. anchor' = anchor
    BY <2>2 DEF Observe
  <2> QED BY <1>1, <2>1, <2>2, <2>3, <2>4 DEF LostIsShort
<1> QED BY <1>2, <1>3

-------------------------------------------------------------------------------
(* The inductive invariant.                                                   *)
LEMMA InitHolds == Init => IInv
<1> SUFFICES ASSUME Init PROVE IInv
  OBVIOUS
<1>1. Listed(<< <<>> >>) /\ Len(<< <<>> >>) = 1
  <2>1. << <<>> >> \in Seq({<<>>}) /\ Len(<< <<>> >>) = 1
    OBVIOUS
  <2> QED BY <2>1, ListedIsSeq
<1>2. mem = [f \in Fields |-> mem[f]]
  BY DEF Init, NewMap, Fields
<1>3. /\ mem.places = << <<>> >> /\ mem.place = 1
      /\ mem.edges = <<>> /\ mem.lost = FALSE /\ mem.resync = TRUE
  BY DEF Init, NewMap
<1>4. IsMap(mem) /\ Len(mem.places) = 1
  <2> DEFINE one == << <<>> >>
  <2> HIDE DEF one
  <2>1. Listed(one) /\ Len(one) = 1 /\ mem.places = one
    BY <1>1, <1>3 DEF one
  <2>2. Listed(mem.places) /\ mem.place \in 1..Len(mem.places)
    BY <1>3, <2>1
  <2>3. mem.lost \in BOOLEAN /\ mem.resync \in BOOLEAN
    BY <1>3
  <2> QED BY <1>2, <2>1, <2>2, <2>3 DEF IsMap
<1>5. DoorsPair(mem) /\ Hangs(mem, anchor)
  BY <1>4, <1>3 DEF DoorsPair, Hangs, Closed, Init
<1>6. TypeInv
  BY <1>4 DEF Init, TypeInv
<1>7. Compared /\ LostIsShort
  BY <1>3 DEF Init, Compared, LostIsShort
<1> QED BY <1>5, <1>6, <1>7 DEF IInv

(* What a press tells the next observation.                                   *)
LEMMA PressesTell ==
  ASSUME NEW buttons, Presses(buttons)
  PROVE  /\ did'.advanced = TRUE /\ did'.buttons = buttons /\ did'.fade \in BOOLEAN
         /\ did' = [f \in {"buttons", "fade", "advanced"} |-> did'[f]]
<1>1. \E fade \in BOOLEAN : Told(buttons, fade)
  BY DEF Presses, Walks, Reads, Jumps
<1> QED BY <1>1 DEF Told

LEMMA StepKeeps == IInv /\ [Next]_vars => IInv'
<1> SUFFICES ASSUME IInv, [Next]_vars PROVE IInv'
  OBVIOUS
<1>1. CASE Advance
  <2>1. \E fade \in BOOLEAN : Told(<<>>, fade)
    BY <1>1 DEF Advance, Jumps
  <2>2. /\ did'.advanced = TRUE /\ did'.buttons = <<>> /\ did'.fade \in BOOLEAN
        /\ did' = [f \in {"buttons", "fade", "advanced"} |-> did'[f]]
    BY <2>1 DEF Told
  <2>3. mem' = PerceiveText(mem) /\ tool' # "none"
        /\ UNCHANGED <<tool, anchor, calm>>
    BY <1>1 DEF Advance
  <2>4. Settled(mem, mem') /\ mem'.lost = mem.lost /\ mem'.resync = TRUE
    BY <2>3, TextKeeps DEF IInv, TypeInv
  <2>5. DoorsPair(mem') /\ Hangs(mem', anchor')
    BY <2>3, <2>4, SettledHangs DEF IInv
  <2>6. TypeInv'
    BY <2>2, <2>3, <2>4 DEF IInv, TypeInv, Settled
  <2>7. Compared' /\ LostIsShort'
    BY <2>2, <2>3, <2>4 DEF IInv, Compared, LostIsShort
  <2> QED BY <2>5, <2>6, <2>7 DEF IInv
<1>2. CASE Act
  <2>1. PICK buttons : Presses(buttons)
    BY <1>2 DEF Act
  <2>2. /\ did'.advanced = TRUE /\ did'.fade \in BOOLEAN
        /\ did' = [f \in {"buttons", "fade", "advanced"} |-> did'[f]]
    BY <2>1, PressesTell
  <2>3. UNCHANGED <<mem, anchor, calm>> /\ tool = "none"
    BY <1>2 DEF Act, Call
  <2>4. TypeInv'
    BY <2>2, <2>3 DEF IInv, TypeInv
  <2>5. Compared' /\ LostIsShort'
    BY <2>2, <2>3 DEF IInv, Compared, LostIsShort
  <2> QED BY <2>3, <2>4, <2>5 DEF IInv
<1>3. ASSUME Observe, UsedUp, WorldUntouched
      PROVE  IInv'
  <2>1. /\ IsMap(mem') /\ anchor' \in Nat /\ calm' \in 0..2
        /\ DoorsPair(mem') /\ Hangs(mem', anchor')
        /\ ~mem'.resync => mem'.prev = spot
        /\ calm' > 0 => ~mem'.resync
        /\ LostIsShort'
    BY <1>3, ObserveKeeps
  <2>2. /\ did' = [f \in {"buttons", "fade", "advanced"} |-> did'[f]]
        /\ did'.fade \in BOOLEAN /\ did'.advanced \in BOOLEAN
    BY <1>3 DEF UsedUp, IInv, TypeInv
  <2>3. TypeInv'
    BY <2>1, <2>2 DEF TypeInv
  <2>4. Compared'
    BY <1>3, <2>1 DEF Compared, WorldUntouched
  <2> QED BY <2>1, <2>3, <2>4 DEF IInv
<1>4. CASE Render
  BY <1>3, <1>4 DEF Render
<1>5. CASE Look
  BY <1>3, <1>5 DEF Look
<1>6. CASE Explore
  <2>1. UNCHANGED <<spot, did, mem, anchor, calm>> /\ tool = "none"
    BY <1>6 DEF Explore, Call
  <2>2. Compared' /\ LostIsShort' /\ TypeInv'
    BY <2>1 DEF IInv, TypeInv, Compared, LostIsShort
  <2> QED BY <2>1, <2>2 DEF IInv
<1>7. CASE Arrive
  BY <1>3, <1>7 DEF Arrive
<1>8. CASE GiveUp
  BY <1>3, <1>8 DEF GiveUp
<1>9. CASE Go
  <2>1. PICK buttons : Presses(buttons)
    BY <1>9 DEF Go
  <2>2. /\ did'.advanced = TRUE /\ did'.fade \in BOOLEAN
        /\ did' = [f \in {"buttons", "fade", "advanced"} |-> did'[f]]
    BY <2>1, PressesTell
  <2>3. /\ IsMap(mem') /\ anchor' \in Nat /\ calm' \in 0..2
        /\ DoorsPair(mem') /\ Hangs(mem', anchor')
        /\ calm' > 0 => ~mem'.resync
        /\ LostIsShort'
    BY <1>9, ObserveKeeps DEF Go
  <2>4. TypeInv'
    BY <2>2, <2>3 DEF TypeInv
  <2>5. Compared'
    BY <2>2, <2>3 DEF Compared
  <2> QED BY <2>3, <2>4, <2>5 DEF IInv
<1>10. CASE UNCHANGED vars
  <2>1. UNCHANGED <<spot, did, mem, tool, anchor, calm>>
    BY <1>10 DEF vars
  <2>2. Compared' /\ LostIsShort' /\ TypeInv'
    BY <2>1 DEF IInv, TypeInv, Compared, LostIsShort
  <2> QED BY <2>1, <2>2 DEF IInv
<1> QED BY <1>1, <1>2, <1>4, <1>5, <1>6, <1>7, <1>8, <1>9, <1>10 DEF Next

(* The inductive invariant holds in every world of rooms and doors, however   *)
(* the player walks, is carried off or reads.                                 *)
THEOREM Invariance == Spec => []IInv
<1> QED BY InitHolds, StepKeeps, PTL DEF Spec

(* The perceiver's map of places: those that known doors lead to from where   *)
(* the player is are exactly those minted since the pose was last lost and    *)
(* found.                                                                     *)
THEOREM Navigable == Spec => []NavigableSinceAnchor
<1>1. IInv => NavigableSinceAnchor
  <2> SUFFICES ASSUME IInv PROVE NavigableSinceAnchor
    OBVIOUS
  <2> DEFINE since == anchor..Len(mem.places)
  <2>1. /\ mem.place \in 1..Len(mem.places) /\ Len(mem.places) \in Nat
        /\ DoorsPair(mem) /\ Hangs(mem, anchor) /\ anchor \in 1..mem.place
    BY Appended DEF IInv, TypeInv, IsMap, Hangs
  <2>2. since \subseteq Reachable(mem)
    BY <2>1 DEF Hangs, Reachable
  <2>3. since \in SUBSET (1..Len(mem.places)) /\ Closed(mem, since)
    BY <2>1 DEF Hangs, Closed, DoorsPair
  <2>4. Reachable(mem) \subseteq since
    BY <2>3 DEF Reachable
  <2> QED BY <2>2, <2>4 DEF NavigableSinceAnchor
<1> QED BY <1>1, Invariance, PTL

(* The perceiver's recovery: a lost pose is found again by two single steps   *)
(* with no door, text, cutscene or mixed press between them.                  *)
THEOREM FoundAgain == Spec => []LostIsShort
<1>1. IInv => LostIsShort
  BY DEF IInv
<1> QED BY <1>1, Invariance, PTL

-------------------------------------------------------------------------------
(* A function that is given by its first value and by how each value follows  *)
(* from the one before: there is one.                                         *)
Iterates(f, F, n, S, b) ==
  f \in [0..n -> S] /\ f[0] = b /\ \A i \in 1..n : f[i] = F[<<i, f[i - 1]>>]

LEMMA Iterated ==
  ASSUME NEW n \in Nat, NEW S, NEW b \in S, NEW F,
         \A i \in 1..n : \A x \in S : F[<<i, x>>] \in S
  PROVE  \E f : Iterates(f, F, n, S, b)
<1> DEFINE Good(f, k) == f[0] = b /\ \A i \in 1..k : f[i] = F[<<i, f[i - 1]>>]
           P == {k \in 0..n : \E f \in [0..k -> S] : Good(f, k)}
<1>1. 0 \in P
  <2>1. [i \in 0..0 |-> b] \in [0..0 -> S] /\ Good([i \in 0..0 |-> b], 0)
    OBVIOUS
  <2> HIDE DEF Good
  <2> QED BY <2>1
<1>2. ASSUME NEW k \in 0..n, k < n, k \in P
      PROVE  k + 1 \in P
  <2>1. PICK f \in [0..k -> S] : Good(f, k)
    BY <1>2
  <2> DEFINE next == F[<<k + 1, f[k]>>]
             g == [i \in 0..k + 1 |-> IF i <= k THEN f[i] ELSE next]
  <2>2. f[k] \in S /\ k + 1 \in 1..n
    BY <1>2
  <2>3. next \in S
    BY <2>2
  <2>4. next = F[<<k + 1, f[k]>>]
    OBVIOUS
  <2> HIDE DEF next
  <2>5. g \in [0..k + 1 -> S]
    BY <2>3
  <2>6. Good(g, k + 1)
    <3>1. g[0] = b
      BY <2>1
    <3>2. ASSUME NEW i \in 1..k + 1 PROVE g[i] = F[<<i, g[i - 1]>>]
      <4>1. g[i - 1] = f[i - 1] /\ i - 1 \in 0..k
        OBVIOUS
      <4>2. CASE i <= k
        <5>1. g[i] = f[i] /\ i \in 1..k
          BY <4>2
        <5>2. f[i] = F[<<i, f[i - 1]>>]
          BY <2>1, <5>1
        <5> HIDE DEF g
        <5> QED BY <4>1, <5>1, <5>2
      <4>3. CASE i = k + 1
        <5>1. g[i] = next /\ f[i - 1] = f[k]
          BY <4>3
        <5> HIDE DEF g
        <5> QED BY <2>4, <4>1, <4>3, <5>1
      <4> QED BY <4>2, <4>3
    <3> HIDE DEF g
    <3> QED BY <3>1, <3>2
  <2> HIDE DEF g, Good
  <2> QED BY <1>2, <2>5, <2>6
<1>3. P = 0..n
  <2> HIDE DEF P
  <2>1. P \in SUBSET (0..n)
    BY DEF P
  <2> QED BY <1>1, <1>2, <2>1, StepByStep
<1>4. n \in P
  <2> HIDE DEF P
  <2> QED BY <1>3
<1>5. PICK f \in [0..n -> S] : Good(f, n)
  BY <1>4
<1>6. Iterates(f, F, n, S, b)
  BY <1>5 DEF Iterates
<1> QED BY <1>6

-------------------------------------------------------------------------------
(* A press of several buttons: its steps, and where it leads when all are of  *)
(* one direction.                                                             *)
LEMMA WalkIsSteps ==
  ASSUME NEW buttons \in Seq(Directions), spot \in Tiles
  PROVE  \E at \in [0..Len(buttons) -> [spot : Tiles, crossed : BOOLEAN]] :
           /\ at[0] = [spot |-> spot, crossed |-> FALSE]
           /\ \A i \in 1..Len(buttons) : at[i] = Step(at[i - 1], buttons[i])
           /\ Walk(buttons) = at[Len(buttons)]
<1> DEFINE n == Len(buttons)
           S == [spot : Tiles, crossed : BOOLEAN]
           b == [spot |-> spot, crossed |-> FALSE]
           F == [p \in (1..n) \X S |-> Step(p[2], buttons[p[1]])]
           walk(g) == [i \in 0..n |-> IF i = 0 THEN b ELSE Step(g[i - 1], buttons[i])]
<1>1. n \in Nat /\ b \in S
  BY LenProperties
<1>2. ASSUME NEW x \in S, NEW d PROVE Step(x, d) \in S
  BY WalkAssumption DEF Step
<1>3. \A i \in 1..n : \A x \in S : /\ F[<<i, x>>] = Step(x, buttons[i])
                                   /\ F[<<i, x>>] \in S
  <2> HIDE DEF S, n
  <2> QED BY <1>2
<1> HIDE DEF F
<1>4. PICK f : Iterates(f, F, n, S, b)
  <2> HIDE DEF S, n, b
  <2>1. \A i \in 1..n : \A x \in S : F[<<i, x>>] \in S
    BY <1>3
  <2> QED BY <1>1, <2>1, Iterated
<1> HIDE DEF S, b
<1> HIDE DEF n
<1>13. f \in [0..n -> S] /\ f[0] = b /\ \A i \in 1..n : f[i] = F[<<i, f[i - 1]>>]
  BY <1>4 DEF Iterates
<1> USE DEF n
<1>5. \A i \in 1..n : f[i - 1] \in S /\ f[i] = Step(f[i - 1], buttons[i])
  <2> HIDE DEF n
  <2>1. \A i \in 1..n : i - 1 \in 0..n
    BY <1>1
  <2> QED BY <1>3, <1>13, <2>1
<1>6. f = walk(f)
  <2> HIDE DEF n
  <2>1. \A i \in 0..n : i # 0 => i \in 1..n
    BY <1>1
  <2> QED BY <1>1, <1>13, <1>5, <2>1
<1> DEFINE g == CHOOSE g : g = walk(g)
<1>7. g = walk(g)
  <2> HIDE DEF walk
  <2> QED BY <1>6
<1>8. Walk(buttons) = g[n]
  BY DEF Walk, b
<1>9. \A i \in 0..n : g[i] = IF i = 0 THEN b ELSE Step(g[i - 1], buttons[i])
  <2> HIDE DEF g, n
  <2> QED BY <1>7
<1> HIDE DEF g
<1>10. g \in [0..n -> S]
  <2> DEFINE P == {k \in 0..n : g[k] = f[k]}
  <2>1. 0 \in P
    BY <1>1, <1>13, <1>9
  <2>2. ASSUME NEW k \in 0..n, k < n, k \in P PROVE k + 1 \in P
    <3>1. k + 1 \in 1..n /\ k + 1 \in 0..n /\ k + 1 # 0 /\ (k + 1) - 1 = k
      BY <1>1, <2>2
    <3>2. g[k + 1] = Step(g[k], buttons[k + 1])
      BY <1>9, <3>1
    <3>3. f[k + 1] = Step(f[k], buttons[k + 1])
      BY <1>5, <3>1
    <3> QED BY <2>2, <3>1, <3>2, <3>3
  <2>3. P = 0..n
    <3> HIDE DEF P, n
    <3>1. P \in SUBSET (0..n)
      BY DEF P
    <3> QED BY <1>1, <2>1, <2>2, <3>1, StepByStep
  <2>4. \A k \in 0..n : g[k] = f[k]
    BY <2>3
  <2>5. g = [i \in 0..n |-> g[i]]
    <3> HIDE DEF n
    <3> QED BY <1>7
  <2> HIDE DEF n, P
  <2> QED BY <1>13, <2>4, <2>5
<1>11. \A i \in 1..n : g[i] = Step(g[i - 1], buttons[i])
  BY <1>1, <1>9
<1>12. g[0] = b
  BY <1>1, <1>9
<1> QED BY <1>8, <1>10, <1>11, <1>12 DEF S, b

(* So many tiles on in a direction; behind a door in that direction the player *)
(* is in a room that no more such doors lead back from.                       *)
Onto(from, d, n) ==
  <<from[1], from[2] + n * Delta[d][1], from[3] + n * Delta[d][2]>>
Past(s, d, beyond) ==
  /\ s[1] \notin beyond
  /\ \A l \in DOMAIN Doors : l[2] = d /\ l[1][1] \in beyond => Doors[l][1] \in beyond
Straight(s, d, x) ==
  \/ \E n \in Nat : x = Onto(s, d, n)
  \/ \E beyond : Past(s, d, beyond) /\ x[1] \in beyond

LEMMA OneTileOn ==
  ASSUME NEW a \in Int, NEW k \in {-1, 0, 1}, NEW n \in Nat
  PROVE  /\ a + n * k + k = a + (n + 1) * k
         /\ a + n * k \in Int
<1>1. CASE k = 0
  BY <1>1
<1>2. CASE k = 1
  BY <1>2
<1>3. CASE k = -1
  BY <1>3
<1> QED BY <1>1, <1>2, <1>3

LEMMA OntoNext ==
  ASSUME NEW s \in Tiles, NEW d \in Directions, NEW n \in Nat
  PROVE  LET x == Onto(s, d, n)
         IN  <<x[1], x[2] + Delta[d][1], x[3] + Delta[d][2]>> = Onto(s, d, n + 1)
<1>1. s[2] \in Int /\ s[3] \in Int
  BY WalkAssumption
<1>2. /\ s[2] + n * Delta[d][1] + Delta[d][1] = s[2] + (n + 1) * Delta[d][1]
      /\ s[3] + n * Delta[d][2] + Delta[d][2] = s[3] + (n + 1) * Delta[d][2]
  BY <1>1, Deltas, OneTileOn
<1> DEFINE p == s[2] + n * Delta[d][1]
           q == s[3] + n * Delta[d][2]
           p2 == s[2] + (n + 1) * Delta[d][1]
           q2 == s[3] + (n + 1) * Delta[d][2]
<1>3. p + Delta[d][1] = p2 /\ q + Delta[d][2] = q2
  BY <1>2
<1>4. Onto(s, d, n) = <<s[1], p, q>> /\ Onto(s, d, n + 1) = <<s[1], p2, q2>>
  BY DEF Onto
<1> HIDE DEF p, q, p2, q2
<1> QED BY <1>3, <1>4

LEMMA StepIsStraight ==
  ASSUME NEW s \in Tiles, NEW d \in Directions,
         NEW x \in [spot : Tiles, crossed : BOOLEAN], Straight(s, d, x.spot)
  PROVE  Straight(s, d, Step(x, d).spot)
<1> DEFINE door == <<x.spot, d>>
           to == <<x.spot[1], x.spot[2] + Delta[d][1], x.spot[3] + Delta[d][2]>>
<1>1. CASE door \in DOMAIN Doors
  <2>1. Step(x, d).spot = Doors[door] /\ door[2] = d /\ door[1] = x.spot
    BY <1>1 DEF Step
  <2>2. ASSUME NEW n \in Nat, x.spot = Onto(s, d, n)
        PROVE  Straight(s, d, Doors[door])
    <3>1. x.spot[1] = s[1]
      BY <2>2 DEF Onto
    <3>2. PICK beyond \in SUBSET {t[1] : t \in Tiles} :
            /\ door[1][1] \notin beyond /\ Doors[door][1] \in beyond
            /\ \A l \in DOMAIN Doors :
                 l[2] = door[2] /\ l[1][1] \in beyond => Doors[l][1] \in beyond
      <4> HIDE DEF door
      <4> QED BY <1>1, RoomAssumption
    <3>3. Past(s, d, beyond) /\ Doors[door][1] \in beyond
      <4> HIDE DEF door
      <4> QED BY <2>1, <3>1, <3>2 DEF Past
    <3> QED BY <3>3 DEF Straight
  <2>3. ASSUME NEW beyond, Past(s, d, beyond), x.spot[1] \in beyond
        PROVE  Straight(s, d, Doors[door])
    <3>1. Doors[door][1] \in beyond
      <4> HIDE DEF door
      <4> QED BY <1>1, <2>1, <2>3 DEF Past
    <3> QED BY <2>3, <3>1 DEF Straight
  <2> QED BY <2>1, <2>2, <2>3 DEF Straight
<1>2. CASE door \notin DOMAIN Doors
  <2>1. Step(x, d).spot = IF to \in Tiles THEN to ELSE x.spot
    BY <1>2 DEF Step
  <2>2. ASSUME NEW n \in Nat, x.spot = Onto(s, d, n)
        PROVE  Straight(s, d, to)
    <3>1. to = Onto(s, d, n + 1)
      BY <2>2, OntoNext
    <3>2. n + 1 \in Nat
      OBVIOUS
    <3> HIDE DEF to
    <3> QED BY <3>1, <3>2 DEF Straight
  <2>3. ASSUME NEW beyond, Past(s, d, beyond), x.spot[1] \in beyond
        PROVE  Straight(s, d, to)
    <3>1. to[1] \in beyond
      BY <2>3
    <3> HIDE DEF to
    <3> QED BY <2>3, <3>1 DEF Straight
  <2>4. Straight(s, d, to)
    BY <2>2, <2>3 DEF Straight
  <2> HIDE DEF to
  <2> QED BY <2>1, <2>4
<1> QED BY <1>1, <1>2

LEMMA OneDirection ==
  ASSUME NEW buttons, SingleDir(buttons) # "none"
  PROVE  /\ SingleDir(buttons) \in Directions
         /\ buttons # <<>>
         /\ \A i \in 1..Len(buttons) : buttons[i] = SingleDir(buttons)
<1>1. PICK d \in Directions : Len(buttons) > 0 /\ \A i \in 1..Len(buttons) :
                                                    buttons[i] = d
  BY DEF SingleDir
<1>2. SingleDir(buttons) = d
  BY <1>1 DEF SingleDir
<1>3. buttons # <<>>
  BY <1>1
<1> QED BY <1>1, <1>2, <1>3

LEMMA WalkIsStraight ==
  ASSUME spot \in Tiles, NEW buttons \in Seq(Directions)
  PROVE  /\ Walk(buttons).spot \in Tiles
         /\ SingleDir(buttons) # "none" =>
              Straight(spot, SingleDir(buttons), Walk(buttons).spot)
<1> DEFINE S == [spot : Tiles, crossed : BOOLEAN]
           n == Len(buttons)
           d == SingleDir(buttons)
<1>1. PICK at \in [0..n -> S] :
        /\ at[0] = [spot |-> spot, crossed |-> FALSE]
        /\ \A i \in 1..n : at[i] = Step(at[i - 1], buttons[i])
        /\ Walk(buttons) = at[n]
  BY WalkIsSteps
<1>2. n \in Nat
  BY LenProperties
<1>3. at[n] \in S
  BY <1>1, <1>2
<1>4. ASSUME d # "none"
      PROVE  Straight(spot, d, at[n].spot)
  <2> DEFINE P == {k \in 0..n : Straight(spot, d, at[k].spot)}
  <2>1. d \in Directions /\ \A i \in 1..n : buttons[i] = d
    BY <1>4, OneDirection
  <2> HIDE DEF d
  <2>2. 0 \in P
    <3>1. spot = Onto(spot, d, 0)
      <4>1. spot = <<spot[1], spot[2], spot[3]>> /\ spot[2] \in Int /\ spot[3] \in Int
        BY WalkAssumption
      <4>2. /\ spot[2] + 0 * Delta[d][1] = spot[2]
            /\ spot[3] + 0 * Delta[d][2] = spot[3]
        BY <4>1, <2>1, Deltas
      <4> QED BY <4>1, <4>2 DEF Onto
    <3>2. at[0].spot = spot
      BY <1>1
    <3>3. Straight(spot, d, spot)
      BY <3>1 DEF Straight
    <3> QED BY <1>2, <3>2, <3>3
  <2>3. ASSUME NEW k \in 0..n, k < n, k \in P PROVE k + 1 \in P
    <3>1. k + 1 \in 1..n /\ k + 1 \in 0..n /\ (k + 1) - 1 = k
      BY <1>2, <2>3
    <3>2. at[k + 1] = Step(at[k], d) /\ at[k] \in S
      BY <1>1, <2>1, <3>1
    <3>3. Straight(spot, d, Step(at[k], d).spot)
      BY <2>1, <2>3, <3>2, StepIsStraight
    <3> QED BY <3>1, <3>2, <3>3
  <2>4. P = 0..n
    <3> HIDE DEF P, n
    <3>1. P \in SUBSET (0..n)
      BY DEF P
    <3> QED BY <1>2, <2>2, <2>3, <3>1, StepByStep
  <2>5. n \in P
    <3> HIDE DEF P
    <3> QED BY <1>2, <2>4
  <2> QED BY <2>5
<1> QED BY <1>1, <1>3, <1>4

(* What the observation after a press can see of it.                          *)
Explains(from, to, buttons, stayed) ==
  \/ SingleDir(buttons) = "none"
  \/ from[1] # to[1]
  \/ \E n \in Nat : /\ to = Onto(from, SingleDir(buttons), n)
                    /\ n = 0 => stayed

LEMMA PressIsSeen ==
  ASSUME spot \in Tiles, text = "none", NEW buttons \in Seq(Directions), Presses(buttons)
  PROVE  Explains(spot, spot', did'.buttons, bumped')
<1>1. did'.buttons = buttons
  BY PressesTell
<1>2. CASE Walks(buttons)
  <2>1. spot' = Walk(buttons).spot /\ bumped' = (spot' = spot)
    BY <1>2 DEF Walks
  <2> DEFINE d == SingleDir(buttons)
  <2>2. SUFFICES ASSUME d # "none", spot[1] = spot'[1]
        PROVE  \E n \in Nat : spot' = Onto(spot, d, n) /\ (n = 0 => bumped')
    BY <1>1 DEF Explains
  <2>3. Straight(spot, d, spot') /\ d \in Directions
    BY <2>1, <2>2, WalkIsStraight, OneDirection
  <2> HIDE DEF d
  <2>4. PICK n \in Nat : spot' = Onto(spot, d, n)
    BY <2>2, <2>3 DEF Straight, Past
  <2>5. n = 0 => spot' = spot
    <3>1. spot = <<spot[1], spot[2], spot[3]>> /\ spot[2] \in Int /\ spot[3] \in Int
      BY WalkAssumption
    <3>2. /\ spot[2] + 0 * Delta[d][1] = spot[2]
          /\ spot[3] + 0 * Delta[d][2] = spot[3]
      BY <3>1, <2>3, Deltas
    <3> QED BY <3>1, <3>2, <2>4 DEF Onto
  <2> QED BY <2>1, <2>4, <2>5
<1>3. CASE Jumps(buttons)
  BY <1>3 DEF Jumps, Explains
<1> QED BY <1>2, <1>3 DEF Presses, Reads

-------------------------------------------------------------------------------
(* The walls: what each piece of perceive() adds to them, which is nothing    *)
(* but for a step that did not scroll the screen, and where the cursor goes.  *)
Wall(m, p, c, d) ==
  p \in DOMAIN m.places /\ c \in DOMAIN m.places[p] /\ d \in m.places[p][c]
NoMore(m, n) == \A p, c, d : Wall(n, p, c, d) => Wall(m, p, c, d)

LEMMA WallsAreRecorded ==
  ASSUME NEW m
  PROVE  \A w : w \in Recorded(m) <=> \E p, c, d : w = <<p, c, d>> /\ Wall(m, p, c, d)
<1> SUFFICES ASSUME NEW w
             PROVE  w \in Recorded(m) <=> \E p, c, d : w = <<p, c, d>> /\ Wall(m, p, c, d)
  OBVIOUS
<1>1. w \in Recorded(m) <=>
        \E p \in DOMAIN m.places : \E c \in DOMAIN m.places[p] :
          \E d \in m.places[p][c] : w = <<p, c, d>>
  BY DEF Recorded
<1> QED BY <1>1 DEF Wall

LEMMA VisitWalls ==
  ASSUME NEW cells, NEW new, NEW c \in DOMAIN Visit(cells, new),
         NEW d \in Visit(cells, new)[c]
  PROVE  c \in DOMAIN cells /\ d \in cells[c]
<1> QED BY DEF Visit

LEMMA TrailWalls ==
  ASSUME NEW cells, NEW at, NEW dir, NEW tiles,
         NEW c \in DOMAIN Trail(cells, at, dir, tiles),
         NEW d \in Trail(cells, at, dir, tiles)[c]
  PROVE  c \in DOMAIN cells /\ d \in cells[c]
<1> DEFINE new == {Away(at, dir, n) : n \in 1..tiles}
           v == Visit(cells, new)
           to == Away(at, dir, tiles)
           t == [v EXCEPT ![at] = @ \ {dir}, ![to] = @ \ {Back[dir]}]
<1>1. t = Trail(cells, at, dir, tiles)
  BY DEF Trail
<1> HIDE DEF v, to
<1>2. c \in DOMAIN v /\ d \in v[c]
  <2>1. DOMAIN t = DOMAIN v /\ \A x \in DOMAIN v : t[x] \subseteq v[x]
    OBVIOUS
  <2>2. c \in DOMAIN t /\ d \in t[c]
    BY <1>1
  <2> HIDE DEF t
  <2> QED BY <2>1, <2>2
<1> QED BY <1>2, VisitWalls DEF v

LEMMA ListDomain ==
  ASSUME NEW seq, Listed(seq)
  PROVE  DOMAIN seq = 1..Len(seq) /\ Len(seq) \in Nat
<1> DEFINE R == {seq[p] : p \in DOMAIN seq}
<1>1. seq \in Seq(R)
  BY DEF Listed
<1> QED BY <1>1, LenProperties

LEMMA PutWalls ==
  ASSUME NEW m, NEW n, NEW i, NEW cells,
         \A c \in DOMAIN cells : \A d \in cells[c] : Wall(m, i, c, d),
         n.places = [m.places EXCEPT ![i] = cells]
  PROVE  NoMore(m, n)
<1> SUFFICES ASSUME NEW p, NEW c, NEW d, Wall(n, p, c, d) PROVE Wall(m, p, c, d)
  BY DEF NoMore
<1>1. DOMAIN n.places = DOMAIN m.places
  OBVIOUS
<1>2. CASE p = i
  BY <1>1, <1>2 DEF Wall
<1>3. CASE p # i
  BY <1>1, <1>3 DEF Wall
<1> QED BY <1>2, <1>3

LEMMA AddedWalls ==
  ASSUME NEW m, IsMap(m), NEW n, n.places = Append(m.places, <<>>)
  PROVE  NoMore(m, n)
<1> DEFINE R == {m.places[p] : p \in DOMAIN m.places}
           T == R \cup {<<>>}
<1> SUFFICES ASSUME NEW p, NEW c, NEW d, Wall(n, p, c, d) PROVE Wall(m, p, c, d)
  BY DEF NoMore
<1>1. m.places \in Seq(T) /\ <<>> \in T
  BY SeqMonotonic DEF IsMap, Listed
<1> HIDE DEF T
<1>2. /\ DOMAIN m.places = 1..Len(m.places) /\ Len(m.places) \in Nat
      /\ DOMAIN n.places = 1..Len(m.places) + 1
      /\ \A i \in 1..Len(m.places) : n.places[i] = m.places[i]
      /\ n.places[Len(m.places) + 1] = <<>>
  BY <1>1, AppendProperties, LenProperties
<1>3. CASE p = Len(m.places) + 1
  BY <1>2, <1>3 DEF Wall
<1>4. CASE p # Len(m.places) + 1
  <2>1. p \in 1..Len(m.places)
    BY <1>2, <1>4 DEF Wall
  <2> QED BY <1>2, <2>1 DEF Wall
<1> QED BY <1>3, <1>4

(* The cursor and the places behind doors are cells of the grid.              *)
Grid == Int \X Int
OnGrid(m) ==
  /\ m.cursor \in Grid
  /\ \A k \in DOMAIN m.edges : m.edges[k].entry \in Grid /\ m.edges[k].dir \in Directions

LEMMA AwayOnGrid ==
  ASSUME NEW c \in Grid, NEW d \in Directions, NEW n \in Nat
  PROVE  /\ Away(c, d, n) \in Grid
         /\ Away(c, d, n)[1] - c[1] = n * Delta[d][1]
         /\ Away(c, d, n)[2] - c[2] = n * Delta[d][2]
<1>1. c[1] \in Int /\ c[2] \in Int
  BY DEF Grid
<1> DEFINE p == n * Delta[d][1]
           q == n * Delta[d][2]
<1>2. Delta[d][1] \in Int /\ Delta[d][2] \in Int
  BY Deltas
<1>3. Away(c, d, n) = <<c[1] + p, c[2] + q>>
  BY DEF Away
<1>4. p \in Int /\ q \in Int
  BY <1>2
<1> HIDE DEF p, q
<1>5. /\ Away(c, d, n) \in Grid
      /\ Away(c, d, n)[1] - c[1] = p /\ Away(c, d, n)[2] - c[2] = q
  BY <1>1, <1>3, <1>4 DEF Grid
<1> QED BY <1>5 DEF p, q

LEMMA ReAnchorSees ==
  ASSUME NEW m, IsMap(m), OnGrid(m)
  PROVE  NoMore(m, ReAnchor(m)) /\ OnGrid(ReAnchor(m))
<1> DEFINE n == ReAnchor(m)
<1>1. n.places = Append(m.places, <<>>) /\ n.cursor = <<0, 0>> /\ n.edges = m.edges
  BY DEF ReAnchor, IsMap, Fields
<1> HIDE DEF n
<1>2. NoMore(m, n)
  BY <1>1, AddedWalls
<1>3. OnGrid(n)
  BY <1>1 DEF OnGrid, Grid
<1> QED BY <1>2, <1>3 DEF n

LEMMA SeenSees ==
  ASSUME NEW m, IsMap(m), OnGrid(m), NEW at
  PROVE  NoMore(m, Seen(m, at)) /\ OnGrid(Seen(m, at)) /\ Seen(m, at).cursor = m.cursor
<1> DEFINE n == Seen(m, at)
           cells == Visit(m.places[m.place], {m.cursor})
<1>1. /\ n.places = [m.places EXCEPT ![m.place] = cells]
      /\ n.cursor = m.cursor /\ n.edges = m.edges
  BY DEF Seen, IsMap, Fields
<1>2. \A c \in DOMAIN cells : \A d \in cells[c] : Wall(m, m.place, c, d)
  BY VisitWalls, ListDomain DEF Wall, IsMap
<1> HIDE DEF n, cells
<1>3. NoMore(m, n)
  BY <1>1, <1>2, PutWalls
<1>4. OnGrid(n)
  BY <1>1 DEF OnGrid
<1> QED BY <1>1, <1>3, <1>4 DEF n

LEMMA WalkedSees ==
  ASSUME NEW m, IsMap(m), OnGrid(m), NEW d \in Directions, NEW tiles \in Nat
  PROVE  LET n == Walked(m, d, tiles)
         IN  /\ OnGrid(n)
             /\ n.cursor = IF tiles = 0 THEN m.cursor ELSE Away(m.cursor, d, tiles)
             /\ \A p, c, e : Wall(n, p, c, e) =>
                               Wall(m, p, c, e) \/ (tiles = 0 /\ e = d)
<1> DEFINE n == Walked(m, d, tiles)
<1>1. CASE tiles = 0
  <2> DEFINE cells == [m.places[m.place] EXCEPT ![m.cursor] = @ \cup {d}]
  <2>1. /\ n.places = [m.places EXCEPT ![m.place] = cells]
        /\ n.cursor = m.cursor /\ n.edges = m.edges
    BY <1>1 DEF Walked, IsMap, Fields
  <2>2. ASSUME NEW p, NEW c, NEW e, Wall(n, p, c, e), e # d PROVE Wall(m, p, c, e)
    <3>1. /\ DOMAIN n.places = DOMAIN m.places /\ DOMAIN cells = DOMAIN m.places[m.place]
          /\ \A x \in DOMAIN cells : \A y \in cells[x] : y = d \/ y \in m.places[m.place][x]
      BY <2>1
    <3> HIDE DEF cells, n
    <3>2. CASE p = m.place
      BY <2>1, <2>2, <3>1, <3>2 DEF Wall
    <3>3. CASE p # m.place
      BY <2>1, <2>2, <3>1, <3>3 DEF Wall
    <3> QED BY <3>2, <3>3
  <2> HIDE DEF n
  <2>3. OnGrid(n)
    BY <2>1 DEF OnGrid
  <2> QED BY <1>1, <2>1, <2>2, <2>3 DEF n
<1>2. CASE tiles # 0
  <2> DEFINE cells == Trail(m.places[m.place], m.cursor, d, tiles)
             to == Away(m.cursor, d, tiles)
  <2>1. /\ n.places = [m.places EXCEPT ![m.place] = cells]
        /\ n.cursor = to /\ n.edges = m.edges
    BY <1>2 DEF Walked, IsMap, Fields
  <2>2. \A c \in DOMAIN cells : \A e \in cells[c] : Wall(m, m.place, c, e)
    BY TrailWalls, ListDomain DEF Wall, IsMap
  <2>3. to \in Grid
    BY AwayOnGrid DEF OnGrid
  <2> HIDE DEF n, cells, to
  <2>4. NoMore(m, n)
    BY <2>1, <2>2, PutWalls
  <2>5. OnGrid(n)
    BY <2>1, <2>3 DEF OnGrid
  <2> QED BY <1>2, <2>1, <2>4, <2>5 DEF n, to, NoMore
<1> QED BY <1>1, <1>2

LEMMA TransitSees ==
  ASSUME NEW m, IsMap(m), DoorsPair(m), OnGrid(m), NEW d \in Directions
  PROVE  NoMore(m, Transit(m, d)) /\ OnGrid(Transit(m, d))
<1> DEFINE n == Transit(m, d)
           door == DoorOf(m)
<1>1. CASE door \in DOMAIN m.edges
  <2> DEFINE exit == m.edges[door]
             cells == Visit(m.places[exit.to], {exit.entry, Neighbour(exit.entry, Back[d])})
  <2>1. /\ n.places = [m.places EXCEPT ![exit.to] = cells]
        /\ n.cursor = exit.entry /\ n.edges = m.edges
    BY <1>1 DEF Transit, IsMap, Fields, DoorOf
  <2>2. exit.to \in 1..Len(m.places)
    BY <1>1 DEF DoorsPair
  <2>3. \A c \in DOMAIN cells : \A e \in cells[c] : Wall(m, exit.to, c, e)
    BY <2>2, VisitWalls, ListDomain DEF Wall, IsMap
  <2>4. OnGrid(n)
    <3> HIDE DEF n, door
    <3> QED BY <1>1, <2>1 DEF OnGrid
  <2> HIDE DEF n, cells, exit
  <2>5. NoMore(m, n)
    BY <2>1, <2>3, PutWalls
  <2> QED BY <2>4, <2>5 DEF n
<1>2. CASE door \notin DOMAIN m.edges
  <2> DEFINE far == Len(m.places) + 1
             exit == [to |-> far, entry |-> <<0, 0>>, dir |-> d]
             way == <<far, <<0, 0>>>>
             return == [to |-> m.place, entry |-> m.cursor, dir |-> Back[d]]
             more == Append(m.places, <<>>)
             new == {<<0, 0>>, Neighbour(<<0, 0>>, Back[d])}
             cells == Visit(more[far], new)
             k == [m EXCEPT !.places = more]
  <2>1. /\ n.places = [more EXCEPT ![far] = cells]
        /\ n.cursor = <<0, 0>>
        /\ n.edges = Linked(m.edges, door, exit, way, return)
    BY <1>2 DEF Transit, IsMap, Fields, DoorOf
  <2>2. k.places = more
    BY DEF IsMap, Fields
  <2>3. Listed(more) /\ Len(more) = far /\ far \in 1..far
    BY Appended DEF IsMap
  <2>4. \A c \in DOMAIN cells : \A e \in cells[c] : Wall(k, far, c, e)
    <3> HIDE DEF k, more, far, new
    <3> QED BY <2>2, <2>3, VisitWalls, ListDomain DEF Wall
  <2>5. NoMore(k, n)
    <3> HIDE DEF n, cells, k, more, far
    <3> QED BY <2>1, <2>2, <2>4, PutWalls
  <2>6. NoMore(m, k)
    <3> HIDE DEF k
    <3> QED BY <2>2, AddedWalls
  <2>7. /\ exit.entry = <<0, 0>> /\ return.entry = m.cursor
        /\ exit.dir \in Directions /\ return.dir \in Directions
    BY DEF Back, Directions, Order
  <2>8. OnGrid(n)
    <3> HIDE DEF n, exit, way, return, door
    <3>1. DOMAIN n.edges = {door, way} \cup DOMAIN m.edges
      BY <2>1 DEF Linked
    <3>2. \A x \in DOMAIN n.edges : \/ n.edges[x] = exit
                                    \/ n.edges[x] = return
                                    \/ x \in DOMAIN m.edges /\ n.edges[x] = m.edges[x]
      BY <2>1, <3>1 DEF Linked
    <3>3. <<0, 0>> \in Grid /\ m.cursor \in Grid
      BY DEF Grid, OnGrid
    <3> QED BY <2>1, <2>7, <3>2, <3>3 DEF OnGrid
  <2> HIDE DEF n, k
  <2>9. NoMore(m, n)
    BY <2>5, <2>6 DEF NoMore
  <2> QED BY <2>8, <2>9 DEF n
<1> QED BY <1>1, <1>2

LEMMA OntoShift ==
  ASSUME NEW s \in Tiles, NEW d \in Directions, NEW n \in Nat
  PROVE  LET x == Onto(s, d, n)
         IN  /\ x[2] - s[2] = n * Delta[d][1] /\ x[3] - s[3] = n * Delta[d][2]
             /\ Scrolled(s, x, d) = n
<1> DEFINE a == n * Delta[d][1]
           b == n * Delta[d][2]
<1>1. s[2] \in Int /\ s[3] \in Int
  BY WalkAssumption
<1>2. a \in Int /\ b \in Int
  BY Deltas
<1>3. IF d \in {"up", "down"} THEN b \in {n, -n} ELSE a \in {n, -n}
  <2>1. CASE d \in {"up", "down"}
    <3>1. Delta[d][2] = 1 \/ Delta[d][2] = -1
      BY <2>1, Deltas
    <3> QED BY <2>1, <3>1
  <2>2. CASE d \notin {"up", "down"}
    <3>1. Delta[d][1] = 1 \/ Delta[d][1] = -1
      BY <2>2, Deltas
    <3> QED BY <2>2, <3>1
  <2> QED BY <2>1, <2>2
<1>4. Onto(s, d, n) = <<s[1], s[2] + a, s[3] + b>>
  BY DEF Onto
<1> HIDE DEF a, b
<1> DEFINE x == Onto(s, d, n)
<1>5. x[2] = s[2] + a /\ x[3] = s[3] + b
  BY <1>4
<1> HIDE DEF x
<1>6. x[2] - s[2] = a /\ x[3] - s[3] = b
  BY <1>1, <1>2, <1>5
<1>7. Scrolled(s, x, d) = n
  <2>1. CASE d \in {"up", "down"}
    <3>1. Scrolled(s, x, d) = IF x[3] - s[3] < 0 THEN -(x[3] - s[3]) ELSE x[3] - s[3]
      BY <2>1 DEF Scrolled
    <3> QED BY <1>2, <1>3, <1>6, <2>1, <3>1
  <2>2. CASE d \notin {"up", "down"}
    <3>1. Scrolled(s, x, d) = IF x[2] - s[2] < 0 THEN -(x[2] - s[2]) ELSE x[2] - s[2]
      BY <2>2 DEF Scrolled
    <3> QED BY <1>2, <1>3, <1>6, <2>2, <3>1
  <2> QED BY <2>1, <2>2
<1> QED BY <1>6, <1>7 DEF x, a, b

LEMMA ScrolledIsLength ==
  ASSUME NEW s \in Tiles, NEW t \in Tiles, NEW d
  PROVE  Scrolled(s, t, d) \in Nat /\ (s = t => Scrolled(s, t, d) = 0)
<1> DEFINE axis == IF d \in {"up", "down"} THEN 3 ELSE 2
<1>1. s[axis] \in Int /\ t[axis] \in Int
  BY WalkAssumption
<1>2. Scrolled(s, t, d) = IF t[axis] - s[axis] < 0 THEN -(t[axis] - s[axis]) ELSE t[axis] - s[axis]
  BY DEF Scrolled
<1> HIDE DEF axis
<1> QED BY <1>1, <1>2

(* perceive() as a whole: the cursor and the walls.                           *)
LEMMA PerceiveSees ==
  ASSUME NEW m, IsMap(m), DoorsPair(m), OnGrid(m), m.prev \in Tiles,
         NEW at \in Tiles, NEW c
  PROVE  LET n == Perceive(m, at, c)
             d == SingleDir(c.buttons)
             tiles == Scrolled(m.prev, at, d)
             walks == ~StillLost(m, at, c) /\ ~c.fade /\ ~m.resync /\ d # "none"
         IN  /\ OnGrid(n) /\ n.prev \in Tiles
             /\ \A p, q, e : Wall(n, p, q, e) =>
                  Wall(m, p, q, e) \/ (walks /\ tiles = 0 /\ e = d)
             /\ walks /\ ~m.lost =>
                  n.cursor = IF tiles = 0 THEN m.cursor ELSE Away(m.cursor, d, tiles)
             /\ ~n.lost /\ ~m.resync /\ ~n.resync /\ d # "none" => walks
<1> DEFINE n == Perceive(m, at, c)
           d == SingleDir(c.buttons)
           tiles == Scrolled(m.prev, at, d)
           walks == ~StillLost(m, at, c) /\ ~c.fade /\ ~m.resync /\ d # "none"
           found == IF m.lost THEN ReAnchor(m) ELSE m
           seen == Seen(found, at)
<1>1. CASE StillLost(m, at, c)
  <2>1. n = StayLost(m, at)
    BY <1>1 DEF Perceive
  <2>2. /\ n.places = m.places /\ n.edges = m.edges /\ n.cursor = m.cursor
        /\ n.lost = TRUE /\ n.prev = at
    BY <2>1 DEF StayLost, IsMap, Fields
  <2> HIDE DEF n
  <2>3. OnGrid(n) /\ \A p, q, e : Wall(n, p, q, e) => Wall(m, p, q, e)
    BY <2>2 DEF OnGrid, Wall
  <2> QED BY <1>1, <2>2, <2>3 DEF n
<1>2. CASE ~StillLost(m, at, c)
  <2>1. /\ IsMap(found) /\ OnGrid(found) /\ NoMore(m, found) /\ found.lost = FALSE
        /\ DoorsPair(found) /\ (~m.lost => found.cursor = m.cursor)
    <3>1. CASE m.lost
      BY <3>1, ReAnchorSees, ReAnchorIsFresh, FreshHangs
    <3>2. CASE ~m.lost
      BY <3>2 DEF IsMap, NoMore
    <3> QED BY <3>1, <3>2
  <2> HIDE DEF found
  <2>2. /\ Settled(found, seen) /\ OnGrid(seen) /\ NoMore(found, seen)
        /\ seen.lost = FALSE /\ seen.resync = FALSE /\ seen.prev = at
        /\ seen.cursor = found.cursor
    BY <2>1, SeenKeeps, SeenSees
  <2>3. IsMap(seen) /\ DoorsPair(seen)
    BY <2>1, <2>2 DEF Settled, DoorsPair
  <2>4. NoMore(m, seen)
    BY <2>1, <2>2 DEF NoMore
  <2> HIDE DEF seen
  <2>5. CASE c.fade /\ d # "none"
    <3>1. n = Transit(seen, d)
      BY <1>2, <2>5 DEF Perceive, seen, found
    <3>2. NoMore(seen, n) /\ OnGrid(n)
      <4>1. d \in Directions
        BY <2>5, OneDirection
      <4> HIDE DEF n, d
      <4> QED BY <2>2, <2>3, <3>1, <4>1, TransitSees
    <3>3. n.resync = TRUE /\ n.prev = at
      <4> HIDE DEF n, d
      <4>1. CASE DoorOf(seen) \in DOMAIN seen.edges
        <5>1. seen.edges[DoorOf(seen)].to \in 1..Len(seen.places)
          BY <2>3, <4>1 DEF DoorsPair
        <5> QED BY <2>2, <2>3, <3>1, <4>1, <5>1, TransitKnown
      <4>2. CASE DoorOf(seen) \notin DOMAIN seen.edges
        BY <2>2, <2>3, <3>1, <4>2, TransitFresh
      <4> QED BY <4>1, <4>2
    <3> HIDE DEF n, d
    <3>4. \A p, q, e : Wall(n, p, q, e) => Wall(m, p, q, e)
      BY <2>4, <3>2 DEF NoMore
    <3> QED BY <2>5, <3>2, <3>3, <3>4 DEF n, d
  <2>6. CASE ~(c.fade /\ d # "none") /\ ~m.resync /\ d # "none"
    <3>1. n = Walked(seen, d, tiles)
      BY <1>2, <2>6 DEF Perceive, seen, found
    <3>2. d \in Directions /\ tiles \in Nat
      BY <2>6, OneDirection, ScrolledIsLength
    <3>3. walks
      BY <1>2, <2>6
    <3> HIDE DEF n, d, tiles, walks
    <3>4. /\ OnGrid(n)
          /\ n.cursor = IF tiles = 0 THEN seen.cursor ELSE Away(seen.cursor, d, tiles)
          /\ \A p, q, e : Wall(n, p, q, e) => Wall(seen, p, q, e) \/ (tiles = 0 /\ e = d)
      BY <2>2, <2>3, <3>1, <3>2, WalkedSees
    <3>5. n.prev = at
      BY <2>2, <2>3, <3>1, WalkedKeeps
    <3>6. \A p, q, e : Wall(n, p, q, e) =>
                         Wall(m, p, q, e) \/ (walks /\ tiles = 0 /\ e = d)
      BY <2>4, <3>3, <3>4 DEF NoMore
    <3>7. ~m.lost => n.cursor = IF tiles = 0 THEN m.cursor ELSE Away(m.cursor, d, tiles)
      BY <2>1, <2>2, <3>4
    <3> QED BY <3>3, <3>4, <3>5, <3>6, <3>7 DEF n, d, tiles, walks
  <2>7. CASE ~(c.fade /\ d # "none") /\ ~(~m.resync /\ d # "none")
    <3>1. n = seen
      BY <1>2, <2>7 DEF Perceive, seen, found
    <3>2. ~walks /\ (m.resync \/ d = "none")
      BY <2>7
    <3> HIDE DEF n, d, walks, tiles
    <3>3. \A p, q, e : Wall(n, p, q, e) => Wall(m, p, q, e)
      BY <2>4, <3>1 DEF NoMore
    <3> QED BY <2>2, <3>1, <3>2, <3>3 DEF n, d, walks, tiles
  <2> QED BY <2>5, <2>6, <2>7
<1> QED BY <1>1, <1>2

-------------------------------------------------------------------------------
(* The last press against what the next observation will see of it.  With no  *)
(* tool at work nothing is left to observe, and what covers the overworld was *)
(* seen, so that a step is compared with the frame it began at.               *)
PressInv ==
  /\ spot \in Tiles /\ mem.prev \in Tiles /\ OnGrid(mem)
  /\ tool = "none" => ~did.advanced
  /\ text # "none" /\ ~mem.resync => did.advanced
  /\ did.advanced /\ ~mem.resync => Explains(mem.prev, spot, did.buttons, bumped)

LEMMA SpotIsTile ==
  ASSUME spot \in Tiles, NEW buttons \in Seq(Directions), Presses(buttons)
  PROVE  spot' \in Tiles
<1>1. CASE Walks(buttons)
  BY <1>1, WalkIsStraight DEF Walks
<1>2. CASE Reads(buttons)
  BY <1>2 DEF Reads
<1>3. CASE Jumps(buttons)
  BY <1>3 DEF Jumps
<1> QED BY <1>1, <1>2, <1>3 DEF Presses

LEMMA TextSees ==
  ASSUME NEW m, IsMap(m), OnGrid(m)
  PROVE  LET n == PerceiveText(m)
         IN  /\ n.places = m.places /\ n.prev = m.prev /\ n.resync = TRUE
             /\ OnGrid(n)
<1> DEFINE n == PerceiveText(m)
<1>1. /\ n.places = m.places /\ n.edges = m.edges /\ n.cursor = m.cursor
      /\ n.prev = m.prev /\ n.resync = TRUE
  BY DEF PerceiveText, IsMap, Fields
<1> HIDE DEF n
<1>2. OnGrid(n)
  BY <1>1 DEF OnGrid
<1> QED BY <1>1, <1>2 DEF n

LEMMA ObserveSees ==
  ASSUME IInv, PressInv, Observe
  PROVE  /\ mem'.prev \in Tiles /\ OnGrid(mem')
         /\ ~mem'.resync => text = "none" /\ mem'.prev = spot
<1>1. IsMap(mem) /\ DoorsPair(mem) /\ OnGrid(mem) /\ mem.prev \in Tiles /\ spot \in Tiles
  BY DEF IInv, TypeInv, PressInv
<1>2. ~mem'.resync => mem'.prev = spot
  BY ObserveKeeps
<1>3. CASE text = "none"
  <2>1. mem' = Perceive(mem, spot, did)
    BY <1>3 DEF Observe
  <2> QED BY <1>1, <1>2, <1>3, <2>1, PerceiveSees
<1>4. CASE text # "none"
  <2>1. mem' = PerceiveText(mem)
    BY <1>4 DEF Observe
  <2> QED BY <1>1, <2>1, TextSees
<1> QED BY <1>3, <1>4

(* The autopilot presses one direction or nothing.                            *)
LEMMA DecidesDirections ==
  ASSUME NEW m, OnGrid(m), NEW g, NEW d \in Decide(m, g) \ {"none"}
  PROVE  d \in Directions
<1> DEFINE local == ExploreDirs(Here(m), m.cursor, FrontierCells(m, m.place), {}, g)
           wanted == PlaceFrontiers(m)
           doors == IF m.place \in wanted THEN {} ELSE HopsInto(m, wanted)
<1>1. Decide(m, g) = IF m.lost THEN DecideBlind(m)
                     ELSE IF local # {} THEN local
                     ELSE IF doors = {} THEN {"none"}
                     ELSE UNION {OrNone(StepsToward(m, door)) : door \in doors}
  BY DEF Decide
<1>2. DecideBlind(m) \subseteq Directions /\ local \subseteq Directions
  BY UnexploredIsDirection, ExploreDirsAreDirections DEF DecideBlind
<1>3. doors \subseteq DOMAIN m.edges
  BY DEF HopsInto
<1> HIDE DEF local, doors
<1>4. ASSUME NEW door \in doors PROVE OrNone(StepsToward(m, door)) \subseteq Directions \cup {"none"}
  <2>1. m.edges[door].dir \in Directions
    BY <1>3 DEF OnGrid
  <2>2. StepsToward(m, door) \subseteq Directions
    BY <2>1, FirstStepsAreDirections DEF StepsToward
  <2> QED BY <2>2 DEF OrNone
<1> QED BY <1>1, <1>2, <1>4

LEMMA PressInit == Init => PressInv
<1> SUFFICES ASSUME Init PROVE PressInv
  OBVIOUS
<1>1. /\ mem.prev = spot /\ mem.cursor = <<0, 0>> /\ mem.edges = <<>>
      /\ mem.resync = TRUE
  BY DEF Init, NewMap
<1>2. OnGrid(mem)
  BY <1>1 DEF OnGrid, Grid
<1> QED BY <1>1, <1>2 DEF Init, PressInv

LEMMA PressKeeps == IInv /\ PressInv /\ [Next]_vars => PressInv'
<1> SUFFICES ASSUME IInv, PressInv, [Next]_vars PROVE PressInv'
  OBVIOUS
<1>1. CASE Advance
  <2>1. spot' \in Tiles
    BY <1>1 DEF Advance, Jumps, PressInv
  <2>2. mem' = PerceiveText(mem) /\ tool # "none" /\ tool' = tool
    BY <1>1 DEF Advance
  <2>3. IsMap(mem) /\ OnGrid(mem) /\ mem.prev \in Tiles
    BY DEF IInv, TypeInv, PressInv
  <2>4. mem'.prev \in Tiles /\ mem'.resync = TRUE /\ OnGrid(mem')
    BY <2>2, <2>3, TextSees
  <2> QED BY <2>1, <2>2, <2>4 DEF PressInv
<1>2. CASE Act
  <2>1. PICK buttons \in Commands : Presses(buttons)
    BY <1>2 DEF Act
  <2>2. buttons \in Seq(Directions)
    BY WalkAssumption
  <2>3. did'.advanced = TRUE
    BY <2>1, PressesTell
  <2>4. mem' = mem /\ tool = "none" /\ tool' = "render"
    BY <1>2 DEF Act, Call
  <2>5. ASSUME ~mem.resync
        PROVE  Explains(mem.prev, spot', did'.buttons, bumped')
    <3>1. text = "none" /\ mem.prev = spot
      BY <2>4, <2>5 DEF PressInv, IInv, Compared
    <3> QED BY <2>1, <2>2, <3>1, PressIsSeen DEF PressInv
  <2>6. spot' \in Tiles
    BY <2>1, <2>2, SpotIsTile DEF PressInv
  <2> QED BY <2>3, <2>4, <2>5, <2>6 DEF PressInv
<1>3. ASSUME Observe, UsedUp, WorldUntouched
      PROVE  PressInv'
  <2>1. /\ mem'.prev \in Tiles /\ OnGrid(mem')
        /\ ~mem'.resync => text = "none" /\ mem'.prev = spot
    BY <1>3, ObserveSees
  <2>2. ~did'.advanced
    BY <1>3 DEF UsedUp, IInv, TypeInv
  <2> QED BY <1>3, <2>1, <2>2 DEF WorldUntouched, PressInv
<1>4. CASE Render
  BY <1>3, <1>4 DEF Render
<1>5. CASE Look
  BY <1>3, <1>5 DEF Look
<1>6. CASE Explore
  <2>1. UNCHANGED <<spot, text, did, mem, bumped>> /\ tool' = "auto"
    BY <1>6 DEF Explore
  <2> QED BY <2>1 DEF PressInv
<1>7. CASE Arrive
  BY <1>3, <1>7 DEF Arrive
<1>8. CASE GiveUp
  BY <1>3, <1>8 DEF GiveUp
<1>9. CASE Go
  <2>1. PICK d \in Answers \ {"none"} : Presses(<<d>>)
    BY <1>9 DEF Go
  <2>2. <<d>> \in Seq(Directions)
    <3>1. OnGrid(mem')
      BY <1>9, ObserveSees DEF Go
    <3>2. d \in Directions
      BY <3>1, DecidesDirections, UnexploredIsDirection DEF Answers, DecideBlind
    <3> QED BY <3>2
  <2>3. did'.advanced = TRUE
    BY <2>1, PressesTell
  <2>4. /\ mem'.prev \in Tiles /\ OnGrid(mem')
        /\ ~mem'.resync => text = "none" /\ mem'.prev = spot
    BY <1>9, ObserveSees DEF Go
  <2>5. ASSUME ~mem'.resync
        PROVE  Explains(mem'.prev, spot', did'.buttons, bumped')
    BY <2>1, <2>2, <2>4, <2>5, PressIsSeen DEF PressInv
  <2>6. spot' \in Tiles
    BY <2>1, <2>2, SpotIsTile DEF PressInv
  <2>7. tool = "auto" /\ tool' \in {"auto", "render"}
    BY <1>9 DEF Go
  <2> QED BY <2>3, <2>4, <2>5, <2>6, <2>7 DEF PressInv
<1>10. CASE UNCHANGED vars
  BY <1>10 DEF vars, PressInv
<1> QED BY <1>1, <1>2, <1>4, <1>5, <1>6, <1>7, <1>8, <1>9, <1>10 DEF Next

(* Until it is observed, a press in one direction explains how the last frame *)
(* and the present one differ: they are so many tiles apart in its direction, *)
(* none only after a bump, or in different rooms.                             *)
THEOREM PressesSeen == Spec => []PressInv
<1> QED BY PressInit, PressKeeps, Invariance, PTL DEF Spec

(* What an observation does to the pose and the walls, by what it is told.    *)
LEMMA ObserveWalks ==
  ASSUME IInv, PressInv, Observe, ~mem.resync, ~StillLost(mem, spot, did), ~did.fade,
         SingleDir(did.buttons) # "none"
  PROVE  LET d == SingleDir(did.buttons)
         IN  \E n \in Nat : /\ spot = Onto(mem.prev, d, n)
                            /\ n = 0 => bumped \/ ~did.advanced
<1> DEFINE d == SingleDir(did.buttons)
<1>1. CASE did.advanced
  <2>1. Explains(mem.prev, spot, did.buttons, bumped)
    BY <1>1 DEF PressInv
  <2>2. mem.prev[1] = spot[1]
    BY DEF StillLost, SceneCut
  <2> QED BY <2>1, <2>2 DEF Explains
<1>2. CASE ~did.advanced
  <2>1. mem.prev = spot /\ spot \in Tiles
    BY <1>2 DEF IInv, Compared, PressInv
  <2>2. d \in Directions
    BY OneDirection
  <2>3. spot = <<spot[1], spot[2], spot[3]>> /\ spot[2] \in Int /\ spot[3] \in Int
    BY <2>1, WalkAssumption
  <2>4. /\ spot[2] + 0 * Delta[d][1] = spot[2]
        /\ spot[3] + 0 * Delta[d][2] = spot[3]
    BY <2>2, <2>3, Deltas
  <2>5. spot = Onto(spot, d, 0)
    BY <2>3, <2>4 DEF Onto
  <2> QED BY <1>2, <2>1, <2>5
<1> QED BY <1>1, <1>2

LEMMA TextWallsStay ==
  ASSUME IInv, mem' = PerceiveText(mem) \/ mem' = mem
  PROVE  NewWalls = {}
<1>1. mem'.places = mem.places
  BY DEF IInv, TypeInv, PerceiveText, IsMap, Fields
<1> QED BY <1>1 DEF NewWalls, Recorded

LEMMA ObserveWalls ==
  ASSUME IInv, PressInv, Observe, NEW w \in NewWalls
  PROVE  PressedTowards(w) /\ (did.advanced => bumped)
<1> DEFINE d == SingleDir(did.buttons)
           tiles == Scrolled(mem.prev, spot, d)
           walks == ~StillLost(mem, spot, did) /\ ~did.fade /\ ~mem.resync /\ d # "none"
<1>1. text = "none" /\ mem' = Perceive(mem, spot, did)
  BY TextWallsStay DEF Observe
<1>2. IsMap(mem) /\ DoorsPair(mem) /\ OnGrid(mem) /\ mem.prev \in Tiles /\ spot \in Tiles
  BY DEF IInv, TypeInv, PressInv
<1>3. PICK p, c, e : /\ w = <<p, c, e>>
                     /\ Wall(mem', p, c, e) /\ ~Wall(mem, p, c, e)
  BY WallsAreRecorded DEF NewWalls
<1>4. walks /\ tiles = 0 /\ e = d
  BY <1>1, <1>2, <1>3, PerceiveSees
<1>5. PICK n \in Nat : spot = Onto(mem.prev, d, n) /\ (n = 0 => bumped \/ ~did.advanced)
  BY <1>4, ObserveWalks
<1>6. d \in Directions /\ did.buttons # <<>>
      /\ \A i \in 1..Len(did.buttons) : did.buttons[i] = d
  BY <1>4, OneDirection
<1> HIDE DEF d
<1>7. n = 0
  BY <1>2, <1>4, <1>5, <1>6, OntoShift
<1> QED BY <1>3, <1>4, <1>5, <1>6, <1>7 DEF PressedTowards

LEMMA ObserveMoves ==
  ASSUME IInv, PressInv, Observe, ~mem.lost, ~mem'.lost, ~mem.resync, ~mem'.resync,
         SingleDir(did.buttons) # "none"
  PROVE  /\ mem'.cursor[1] - mem.cursor[1] = spot[2] - mem.prev[2]
         /\ mem'.cursor[2] - mem.cursor[2] = spot[3] - mem.prev[3]
<1> DEFINE d == SingleDir(did.buttons)
           tiles == Scrolled(mem.prev, spot, d)
           walks == ~StillLost(mem, spot, did) /\ ~did.fade /\ ~mem.resync /\ d # "none"
<1>1. text = "none" /\ mem' = Perceive(mem, spot, did)
  BY ObserveSees DEF Observe
<1>2. IsMap(mem) /\ DoorsPair(mem) /\ OnGrid(mem) /\ mem.prev \in Tiles /\ spot \in Tiles
  BY DEF IInv, TypeInv, PressInv
<1>3. /\ walks
      /\ mem'.cursor = IF tiles = 0 THEN mem.cursor ELSE Away(mem.cursor, d, tiles)
  BY <1>1, <1>2, PerceiveSees
<1>4. PICK n \in Nat : spot = Onto(mem.prev, d, n)
  BY <1>3, ObserveWalks
<1>5. d \in Directions
  BY OneDirection
<1> HIDE DEF d
<1> DEFINE a == n * Delta[d][1]
           b == n * Delta[d][2]
<1>6. tiles = n /\ spot[2] - mem.prev[2] = a /\ spot[3] - mem.prev[3] = b
  BY <1>2, <1>4, <1>5, OntoShift
<1>7. mem'.cursor[1] - mem.cursor[1] = a /\ mem'.cursor[2] - mem.cursor[2] = b
  <2>1. CASE n = 0
    <3>1. a = 0 /\ b = 0
      BY <1>5, <2>1, Deltas
    <3>2. mem'.cursor = mem.cursor /\ mem.cursor[1] \in Int /\ mem.cursor[2] \in Int
      BY <1>2, <1>3, <1>6, <2>1 DEF OnGrid, Grid
    <3> HIDE DEF a, b
    <3> QED BY <3>1, <3>2
  <2>2. CASE n # 0
    <3>1. mem'.cursor = Away(mem.cursor, d, n) /\ mem.cursor \in Grid
      BY <1>2, <1>3, <1>6, <2>2 DEF OnGrid
    <3> QED BY <1>5, <3>1, AwayOnGrid
  <2> QED BY <2>1, <2>2
<1> HIDE DEF a, b
<1> QED BY <1>6, <1>7

LEMMA ObservesOrNot ==
  ASSUME [Next]_vars
  PROVE  Observe \/ mem' = mem \/ mem' = PerceiveText(mem)
<1> QED BY DEF Next, Advance, Act, Render, Look, Explore, Arrive, GiveUp, Go, vars

(* Where the code keeps what WallsAreBumps asks for: a wall that the first    *)
(* look after a press records is one that this press bumped into.             *)
FreshWallsAreBumps ==
  [][\A w \in NewWalls : PressedTowards(w) /\ (did.advanced => bumped)]_vars

(* The perceiver's walls: a second look, at a frame that is compared with     *)
(* itself, is the only way in which one that nobody bumped into is recorded.  *)
(* Frames over a text, a door, a lost pose or a mixed press record none.      *)
THEOREM FreshWallsAreReal == Spec => FreshWallsAreBumps
<1>1. ASSUME IInv, PressInv, [Next]_vars, NEW w \in NewWalls
      PROVE  PressedTowards(w) /\ (did.advanced => bumped)
  BY <1>1, ObservesOrNot, ObserveWalls, TextWallsStay
<1>2. IInv /\ PressInv /\ [Next]_vars =>
        \A w \in NewWalls : PressedTowards(w) /\ (did.advanced => bumped)
  BY <1>1
<1> QED BY <1>2, Invariance, PressesSeen, PTL DEF Spec, FreshWallsAreBumps

(* The perceiver's dead reckoning: while the pose is known, what a press in   *)
(* one direction did to the cursor is what it did to the player.  Two frames  *)
(* are not compared and say nothing: the first after a door or a text, and    *)
(* one after presses in several directions, which move the player alone.      *)
THEOREM PoseIsTracked == Spec => PoseTracksMoves
<1>1. ASSUME IInv, PressInv, [Next]_vars,
             ~mem.lost, ~mem'.lost, ~mem.resync, ~mem'.resync, mem' # mem,
             SingleDir(did.buttons) # "none"
      PROVE  /\ mem'.cursor[1] - mem.cursor[1] = spot[2] - mem.prev[2]
             /\ mem'.cursor[2] - mem.cursor[2] = spot[3] - mem.prev[3]
  <2>1. mem' # PerceiveText(mem)
    BY <1>1, TextSees DEF IInv, TypeInv, PressInv
  <2> QED BY <1>1, <2>1, ObservesOrNot, ObserveMoves
<1>2. IInv /\ PressInv /\ [Next]_vars =>
        (~mem.lost /\ ~mem'.lost /\ ~mem.resync /\ ~mem'.resync /\ mem' # mem
           /\ SingleDir(did.buttons) # "none"
         => /\ mem'.cursor[1] - mem.cursor[1] = spot[2] - mem.prev[2]
            /\ mem'.cursor[2] - mem.cursor[2] = spot[3] - mem.prev[3])
  BY <1>1
<1> QED BY <1>2, Invariance, PressesSeen, PTL DEF Spec, PoseTracksMoves

-------------------------------------------------------------------------------
(* The search over the doors: when it finds no door to take towards a place   *)
(* that hangs together with this one, no such place was wanted.               *)
LEMMA NoHopNoWay ==
  ASSUME NEW m, IsMap(m), DoorsPair(m), NEW wanted \in SUBSET Reachable(m),
         m.place \notin wanted, HopsInto(m, wanted) = {}
  PROVE  wanted = {}
<1> DEFINE U == 1..Len(m.places)
           out(near) == {k \in DOMAIN m.edges : k[1] = m.place /\ m.edges[k].to \in near}
           more(near) == near \cup {k[1] : k \in {k \in DOMAIN m.edges :
                                 k[1] # m.place /\ m.edges[k].to \in near}}
           More == [near \in SUBSET U |-> more(near)]
           Stop == {near \in SUBSET U : out(near) # {} \/ more(near) = near}
           grow(g) == [near \in SUBSET U |->
                         IF out(near) # {} \/ more(near) = near THEN near
                         ELSE g[more(near)]]
           f == CHOOSE g : g = grow(g)
           Fam == {near \in SUBSET (U \ {m.place}) : wanted \subseteq near}
<1>0. /\ Len(m.places) \in Nat /\ IsFiniteSet(U) /\ m.place \in U
      /\ \A k \in DOMAIN m.edges : k[1] \in U
  <2>1. Len(m.places) \in Nat /\ m.place \in U
    BY ListDomain DEF IsMap
  <2>2. \A k \in DOMAIN m.edges : k[1] \in U
    BY DEF DoorsPair
  <2>3. IsFiniteSet(U)
    <3>1. 1 \in Int /\ Len(m.places) \in Int
      BY <2>1
    <3> HIDE DEF out, more, More, Stop, grow, f, Fam
    <3> QED BY <3>1, FS_Interval
  <2> QED BY <2>1, <2>2, <2>3
<1>1. wanted \in SUBSET U
  BY DEF Reachable
<1>2. HopsInto(m, wanted) = out(f[wanted])
  BY DEF HopsInto
<1> HIDE DEF U
<1>3. \A near \in SUBSET U : /\ more(near) \in SUBSET U
                             /\ More[near] = more(near)
                             /\ near \in Stop <=> out(near) # {} \/ more(near) = near
  <2>1. \A near \in SUBSET U : more(near) \in SUBSET U
    BY <1>0
  <2> HIDE DEF more, out
  <2> QED BY <2>1
<1>4. Grows(U, Stop, More)
  <2>1. \A near : near \subseteq more(near)
    OBVIOUS
  <2> HIDE DEF More, more, Stop, out
  <2> QED BY <1>0, <1>3, <2>1 DEF Grows
<1>5. ASSUME NEW g PROVE grow(g) = [near \in SUBSET U |->
                                      IF near \in Stop THEN near ELSE g[More[near]]]
  <2> HIDE DEF More, Stop, out, more
  <2> QED BY <1>3
<1>6. \E g : g = grow(g)
  <2>1. PICK g : Searches(g, U, Stop, More)
    <3> HIDE DEF Stop, More
    <3> QED BY <1>4, SearchExists
  <2>2. g = grow(g)
    <3> HIDE DEF grow, Stop, More
    <3> QED BY <1>5, <2>1 DEF Searches
  <2> HIDE DEF grow
  <2> QED BY <2>2
<1>7. f = grow(f)
  <2> HIDE DEF grow
  <2> QED BY <1>6
<1>8. Searches(f, U, Stop, More)
  <2> HIDE DEF f, grow, Stop, More
  <2> QED BY <1>5, <1>7 DEF Searches
<1>9. wanted \in Fam /\ \A y \in SUBSET U : y \in Fam /\ y \notin Stop => More[y] \in Fam
  <2>1. wanted \in Fam
    BY <1>1
  <2>2. ASSUME NEW y \in SUBSET U, y \in Fam PROVE More[y] \in Fam
    BY <1>0, <1>3, <2>2
  <2> QED BY <2>1, <2>2
<1>10. f[wanted] \in Stop /\ f[wanted] \in Fam
  <2> HIDE DEF f, Stop, More, Fam
  <2> QED BY <1>1, <1>4, <1>8, <1>9, SearchEnds
<1> HIDE DEF f
<1> DEFINE near == f[wanted]
           some == U \ near
<1>11. near \in SUBSET (U \ {m.place}) /\ wanted \subseteq near
       /\ out(near) = {} /\ more(near) = near
  BY <1>2, <1>10
<1> HIDE DEF near
<1>12. Closed(m, some)
  <2>1. m.place \in some
    BY <1>0, <1>11
  <2>2. ASSUME NEW k \in DOMAIN m.edges, k[1] \in some PROVE m.edges[k].to \in some
    <3>1. m.edges[k].to \in U
      BY DEF DoorsPair, U
    <3>2. ASSUME m.edges[k].to \in near PROVE FALSE
      <4>1. CASE k[1] = m.place
        BY <1>11, <3>2, <4>1
      <4>2. CASE k[1] # m.place
        <5>1. k[1] \in more(near)
          BY <3>2, <4>2
        <5> QED BY <1>11, <2>2, <5>1
      <4> QED BY <4>1, <4>2
    <3> QED BY <3>1, <3>2
  <2> QED BY <2>1, <2>2 DEF Closed
<1>13. some \in SUBSET (1..Len(m.places))
  BY DEF U
<1>14. Reachable(m) \subseteq some
  <2> HIDE DEF some
  <2> QED BY <1>12, <1>13 DEF Reachable
<1> QED BY <1>11, <1>14

-------------------------------------------------------------------------------
(* The cells of a place are finitely many.  A door and the way back are one   *)
(* bridge: the places beyond it have no other door that leads out.            *)
FiniteCells(m) == \A p \in DOMAIN m.places : IsFiniteSet(DOMAIN m.places[p])
WayBack(m, k) == <<m.edges[k].to, m.edges[k].entry>>
Beyond(m, k, side) ==
  /\ m.edges[k].to \in side /\ k[1] \notin side
  /\ \A l \in DOMAIN m.edges :
       l[1] \in side /\ m.edges[l].to \notin side => l = WayBack(m, k)
Bridges(m) ==
  \A k \in DOMAIN m.edges :
    /\ k = <<k[1], k[2]>>
    /\ WayBack(m, k) \in DOMAIN m.edges
    /\ m.edges[WayBack(m, k)].to = k[1] /\ m.edges[WayBack(m, k)].entry = k[2]
    /\ \E side \in SUBSET (1..Len(m.places)) : Beyond(m, k, side)

LEMMA VisitDomain ==
  ASSUME NEW cells, NEW new
  PROVE  /\ DOMAIN Visit(cells, new) = DOMAIN cells \cup new
         /\ IsFiniteSet(DOMAIN cells) /\ IsFiniteSet(new) =>
              IsFiniteSet(DOMAIN Visit(cells, new))
<1>1. DOMAIN Visit(cells, new) = DOMAIN cells \cup new
  BY DEF Visit
<1> QED BY <1>1, FS_Union

LEMMA FinitePut ==
  ASSUME NEW m, FiniteCells(m), NEW n, NEW i, NEW cells,
         i \in DOMAIN m.places => IsFiniteSet(DOMAIN cells),
         n.places = [m.places EXCEPT ![i] = cells]
  PROVE  FiniteCells(n)
<1>1. /\ DOMAIN n.places = DOMAIN m.places
      /\ \A p \in DOMAIN m.places : n.places[p] = IF p = i THEN cells ELSE m.places[p]
  OBVIOUS
<1> QED BY <1>1 DEF FiniteCells

LEMMA FiniteAdded ==
  ASSUME NEW m, IsMap(m), FiniteCells(m), NEW n, n.places = Append(m.places, <<>>)
  PROVE  FiniteCells(n)
<1> DEFINE R == {m.places[p] : p \in DOMAIN m.places}
           T == R \cup {<<>>}
<1>1. m.places \in Seq(T) /\ <<>> \in T
  BY SeqMonotonic DEF IsMap, Listed
<1> HIDE DEF T
<1>2. /\ DOMAIN m.places = 1..Len(m.places) /\ Len(m.places) \in Nat
      /\ DOMAIN n.places = 1..Len(m.places) + 1
      /\ \A i \in 1..Len(m.places) : n.places[i] = m.places[i]
      /\ n.places[Len(m.places) + 1] = <<>>
  BY <1>1, AppendProperties, LenProperties
<1>3. IsFiniteSet(DOMAIN <<>>)
  <2>1. DOMAIN <<>> = {}
    OBVIOUS
  <2> QED BY <2>1, FS_EmptySet
<1>4. \A p \in DOMAIN n.places : p \in DOMAIN m.places \/ p = Len(m.places) + 1
  BY <1>2
<1> QED BY <1>2, <1>3, <1>4 DEF FiniteCells

LEMMA SameBridges ==
  ASSUME NEW m, Bridges(m), NEW n, n.edges = m.edges,
         Len(m.places) \in Nat, Len(n.places) \in Nat, Len(m.places) <= Len(n.places)
  PROVE  Bridges(n)
<1>1. \A side \in SUBSET (1..Len(m.places)) : side \in SUBSET (1..Len(n.places))
  OBVIOUS
<1> QED BY <1>1 DEF Bridges, Beyond, WayBack

LEMMA FreshBridge ==
  ASSUME NEW m, IsMap(m), DoorsPair(m), Bridges(m), NEW n,
         NEW far, far = Len(m.places) + 1, NEW c, NEW entry,
         <<m.place, c>> \notin DOMAIN m.edges,
         NEW exit, exit.to = far, exit.entry = entry,
         NEW return, return.to = m.place, return.entry = c,
         Len(n.places) = far,
         n.edges = Linked(m.edges, <<m.place, c>>, exit, <<far, entry>>, return)
  PROVE  Bridges(n)
<1> DEFINE door == <<m.place, c>>
           way == <<far, entry>>
<1>1. Len(m.places) \in Nat /\ far \in Nat /\ m.place \in 1..Len(m.places)
  BY ListDomain DEF IsMap
<1>2. /\ door[1] = m.place /\ way[1] = far /\ door = <<door[1], door[2]>>
      /\ way = <<way[1], way[2]>> /\ door[2] = c /\ way[2] = entry
  OBVIOUS
<1>3. \A k \in DOMAIN m.edges : k[1] \in 1..Len(m.places) /\ m.edges[k].to \in 1..Len(m.places)
  BY DEF DoorsPair
<1>4. door # way /\ way \notin DOMAIN m.edges /\ door \notin DOMAIN m.edges
  BY <1>1, <1>2, <1>3
<1>5. /\ DOMAIN n.edges = DOMAIN m.edges \cup {door, way}
      /\ n.edges[door] = exit /\ n.edges[way] = return
      /\ \A k \in DOMAIN m.edges : n.edges[k] = m.edges[k]
  BY <1>4 DEF Linked
<1>6. WayBack(n, door) = way /\ WayBack(n, way) = door
  BY <1>5 DEF WayBack
<1> HIDE DEF door, way
<1> SUFFICES ASSUME NEW k \in DOMAIN n.edges
             PROVE  /\ k = <<k[1], k[2]>>
                    /\ WayBack(n, k) \in DOMAIN n.edges
                    /\ n.edges[WayBack(n, k)].to = k[1]
                    /\ n.edges[WayBack(n, k)].entry = k[2]
                    /\ \E side \in SUBSET (1..Len(n.places)) : Beyond(n, k, side)
  BY DEF Bridges
<1>7. CASE k = door
  <2> DEFINE side == {far}
  <2>1. \A l \in DOMAIN n.edges : l[1] \in side => l = way
    BY <1>1, <1>2, <1>3, <1>5
  <2>2. n.edges[door].to \in side /\ door[1] \notin side
    BY <1>1, <1>2, <1>5
  <2>3. side \in SUBSET (1..Len(n.places))
    BY <1>1
  <2> HIDE DEF side
  <2>4. Beyond(n, door, side)
    BY <1>6, <2>1, <2>2 DEF Beyond
  <2> QED BY <1>2, <1>5, <1>6, <1>7, <2>3, <2>4
<1>8. CASE k = way
  <2> DEFINE side == 1..Len(m.places)
  <2>1. \A l \in DOMAIN n.edges : l[1] \in side /\ n.edges[l].to \notin side => l = door
    BY <1>1, <1>2, <1>3, <1>5
  <2>2. Beyond(n, way, side)
    BY <1>1, <1>2, <1>5, <1>6, <2>1 DEF Beyond
  <2>3. side \in SUBSET (1..Len(n.places))
    BY <1>1
  <2> HIDE DEF side
  <2> QED BY <1>2, <1>5, <1>6, <1>8, <2>2, <2>3
<1>9. CASE k \in DOMAIN m.edges
  <2>1. /\ k = <<k[1], k[2]>>
        /\ WayBack(m, k) \in DOMAIN m.edges
        /\ m.edges[WayBack(m, k)].to = k[1] /\ m.edges[WayBack(m, k)].entry = k[2]
        /\ \E side \in SUBSET (1..Len(m.places)) : Beyond(m, k, side)
    BY <1>9 DEF Bridges
  <2>2. WayBack(n, k) = WayBack(m, k) /\ n.edges[k] = m.edges[k]
    BY <1>5, <1>9 DEF WayBack
  <2>3. PICK old \in SUBSET (1..Len(m.places)) : Beyond(m, k, old)
    BY <2>1
  <2> DEFINE side == IF m.place \in old THEN old \cup {far} ELSE old
  <2>4. side \in SUBSET (1..Len(n.places))
    <3>1. far \in 1..Len(n.places) /\ 1..Len(m.places) \subseteq 1..Len(n.places)
      BY <1>1
    <3> QED BY <3>1
  <2>5. n.edges[k].to \in side /\ k[1] \notin side
    BY <1>1, <1>3, <1>9, <2>2, <2>3 DEF Beyond
  <2>6. ASSUME NEW l \in DOMAIN n.edges, l[1] \in side, n.edges[l].to \notin side
        PROVE  l = WayBack(n, k)
    <3>1. l # door
      BY <1>1, <1>2, <1>5, <2>6
    <3>2. l # way
      BY <1>1, <1>2, <1>5, <2>6
    <3>3. l \in DOMAIN m.edges /\ n.edges[l] = m.edges[l]
      BY <1>5, <3>1, <3>2
    <3>4. l[1] \in old /\ m.edges[l].to \notin old
      BY <1>1, <1>3, <2>6, <3>3
    <3> QED BY <2>2, <2>3, <3>3, <3>4 DEF Beyond
  <2>7. Beyond(n, k, side)
    <3> HIDE DEF side
    <3> QED BY <2>5, <2>6 DEF Beyond
  <2> HIDE DEF side
  <2> QED BY <1>5, <2>1, <2>2, <2>4, <2>7
<1> QED BY <1>5, <1>7, <1>8, <1>9

(* What can be relied on in a memory with a known pose: a map whose cells are *)
(* finitely many, whose doors are bridges, and that has the cursor's cell.    *)
Mapped(m) == FiniteCells(m) /\ Bridges(m)
Placed(m) == m.cursor \in DOMAIN m.places[m.place]

LEMMA PairIsFinite ==
  ASSUME NEW a, NEW b
  PROVE  IsFiniteSet({a, b})
<1>1. IsFiniteSet({a}) /\ IsFiniteSet({b}) /\ {a, b} = {a} \cup {b}
  BY FS_Singleton
<1> QED BY <1>1, FS_Union

LEMMA ReAnchorMaps ==
  ASSUME NEW m, IsMap(m), Mapped(m)
  PROVE  Mapped(ReAnchor(m))
<1> DEFINE n == ReAnchor(m)
<1>1. /\ n.places = Append(m.places, <<>>) /\ n.edges = m.edges
  BY DEF ReAnchor, IsMap, Fields
<1>2. Len(n.places) = Len(m.places) + 1 /\ Len(m.places) \in Nat
  BY ReAnchorIsFresh, ListDomain DEF IsMap
<1> HIDE DEF n
<1>3. FiniteCells(n)
  BY <1>1, FiniteAdded DEF Mapped
<1>4. Bridges(n)
  BY <1>1, <1>2, SameBridges DEF Mapped
<1> QED BY <1>3, <1>4 DEF n, Mapped

LEMMA SeenMaps ==
  ASSUME NEW m, IsMap(m), Mapped(m), NEW at
  PROVE  Mapped(Seen(m, at)) /\ Placed(Seen(m, at))
<1> DEFINE n == Seen(m, at)
           cells == Visit(m.places[m.place], {m.cursor})
<1>1. /\ n.places = [m.places EXCEPT ![m.place] = cells]
      /\ n.cursor = m.cursor /\ n.edges = m.edges /\ n.place = m.place
  BY DEF Seen, IsMap, Fields
<1>2. m.place \in DOMAIN m.places /\ Len(m.places) \in Nat
  BY ListDomain DEF IsMap
<1>3. IsFiniteSet(DOMAIN cells) /\ m.cursor \in DOMAIN cells
  <2>1. IsFiniteSet(DOMAIN m.places[m.place]) /\ IsFiniteSet({m.cursor})
    BY <1>2, FS_Singleton DEF Mapped, FiniteCells
  <2> QED BY <2>1, VisitDomain
<1>4. Len(n.places) = Len(m.places)
  BY SeenKeeps DEF Settled
<1> HIDE DEF n, cells
<1>5. FiniteCells(n)
  BY <1>1, <1>3, FinitePut DEF Mapped
<1>6. Bridges(n)
  BY <1>1, <1>2, <1>4, SameBridges DEF Mapped
<1>7. Placed(n)
  BY <1>1, <1>2, <1>3 DEF Placed
<1> QED BY <1>5, <1>6, <1>7 DEF n, Mapped

LEMMA WalkedMaps ==
  ASSUME NEW m, IsMap(m), Mapped(m), Placed(m), NEW d, NEW tiles \in Nat
  PROVE  Mapped(Walked(m, d, tiles)) /\ Placed(Walked(m, d, tiles))
<1> DEFINE n == Walked(m, d, tiles)
           here == m.places[m.place]
           bump == [here EXCEPT ![m.cursor] = @ \cup {d}]
           trail == Trail(here, m.cursor, d, tiles)
           cells == IF tiles = 0 THEN bump ELSE trail
           cur == IF tiles = 0 THEN m.cursor ELSE Away(m.cursor, d, tiles)
           over == {Away(m.cursor, d, i) : i \in 1..tiles}
<1>1. /\ n.places = [m.places EXCEPT ![m.place] = cells]
      /\ n.cursor = cur /\ n.edges = m.edges /\ n.place = m.place
  <2>1. CASE tiles = 0
    BY <2>1 DEF Walked, IsMap, Fields
  <2>2. CASE tiles # 0
    BY <2>2 DEF Walked, IsMap, Fields
  <2> QED BY <2>1, <2>2
<1>2. m.place \in DOMAIN m.places /\ Len(m.places) \in Nat
  BY ListDomain DEF IsMap
<1>3. IsFiniteSet(DOMAIN here) /\ m.cursor \in DOMAIN here
  BY <1>2 DEF Mapped, FiniteCells, Placed
<1>4. DOMAIN bump = DOMAIN here
  OBVIOUS
<1>5. IsFiniteSet(DOMAIN trail) /\ DOMAIN trail = DOMAIN here \cup over
  <2>1. IsFiniteSet(over)
    <3>1. IsFiniteSet(1..tiles)
      BY FS_Interval
    <3> DEFINE f == [i \in 1..tiles |-> Away(m.cursor, d, i)]
    <3>2. over = {f[i] : i \in 1..tiles}
      OBVIOUS
    <3> HIDE DEF over, f
    <3> QED BY <3>1, <3>2, ImageIsFinite
  <2>2. DOMAIN trail = DOMAIN Visit(here, over)
    BY DEF Trail
  <2> HIDE DEF trail, over, here
  <2> QED BY <1>3, <2>1, <2>2, VisitDomain
<1>6. IsFiniteSet(DOMAIN cells) /\ cur \in DOMAIN cells
  <2>1. CASE tiles = 0
    BY <1>3, <1>4, <2>1
  <2>2. CASE tiles # 0
    <3>1. tiles \in 1..tiles
      BY <2>2
    <3>2. cur \in over
      BY <2>2, <3>1
    <3> HIDE DEF over, trail, bump
    <3> QED BY <1>5, <2>2, <3>2
  <2> QED BY <2>1, <2>2
<1>7. Len(n.places) = Len(m.places)
  BY WalkedKeeps DEF Settled
<1> HIDE DEF n, cells, cur
<1>8. FiniteCells(n)
  BY <1>1, <1>6, FinitePut DEF Mapped
<1>9. Bridges(n)
  BY <1>1, <1>2, <1>7, SameBridges DEF Mapped
<1>10. Placed(n)
  BY <1>1, <1>2, <1>6 DEF Placed
<1> QED BY <1>8, <1>9, <1>10 DEF n, Mapped

LEMMA TransitMaps ==
  ASSUME NEW m, IsMap(m), DoorsPair(m), Mapped(m), NEW d
  PROVE  Mapped(Transit(m, d)) /\ Placed(Transit(m, d))
<1> DEFINE n == Transit(m, d)
           door == DoorOf(m)
<1>0. Len(m.places) \in Nat /\ DOMAIN m.places = 1..Len(m.places)
  BY ListDomain DEF IsMap
<1>1. CASE door \in DOMAIN m.edges
  <2> DEFINE exit == m.edges[door]
             new == {exit.entry, Neighbour(exit.entry, Back[d])}
             cells == Visit(m.places[exit.to], new)
  <2>1. /\ n.places = [m.places EXCEPT ![exit.to] = cells]
        /\ n.cursor = exit.entry /\ n.edges = m.edges /\ n.place = exit.to
    BY <1>1 DEF Transit, IsMap, Fields, DoorOf
  <2>2. exit.to \in DOMAIN m.places
    BY <1>0, <1>1 DEF DoorsPair
  <2>3. IsFiniteSet(DOMAIN cells) /\ exit.entry \in DOMAIN cells
    <3>1. IsFiniteSet(new)
      BY PairIsFinite
    <3>2. IsFiniteSet(DOMAIN m.places[exit.to])
      BY <2>2 DEF Mapped, FiniteCells
    <3>3. exit.entry \in new
      OBVIOUS
    <3> HIDE DEF new, exit
    <3> QED BY <3>1, <3>2, <3>3, VisitDomain
  <2>4. Len(n.places) = Len(m.places)
    <3>1. exit.to \in 1..Len(m.places)
      BY <1>0, <2>2
    <3> QED BY <1>1, <3>1, TransitKnown
  <2> HIDE DEF n, cells, exit
  <2>5. FiniteCells(n)
    BY <2>1, <2>3, FinitePut DEF Mapped
  <2>6. Bridges(n)
    BY <1>0, <2>1, <2>4, SameBridges DEF Mapped
  <2>7. Placed(n)
    BY <2>1, <2>2, <2>3 DEF Placed
  <2> QED BY <2>5, <2>6, <2>7 DEF n, Mapped
<1>2. CASE door \notin DOMAIN m.edges
  <2> DEFINE far == Len(m.places) + 1
             exit == [to |-> far, entry |-> <<0, 0>>, dir |-> d]
             way == <<far, <<0, 0>>>>
             return == [to |-> m.place, entry |-> m.cursor, dir |-> Back[d]]
             more == Append(m.places, <<>>)
             new == {<<0, 0>>, Neighbour(<<0, 0>>, Back[d])}
             cells == Visit(more[far], new)
             k == [m EXCEPT !.places = more]
  <2>1. /\ n.places = [more EXCEPT ![far] = cells]
        /\ n.cursor = <<0, 0>> /\ n.place = far
        /\ n.edges = Linked(m.edges, door, exit, way, return)
    BY <1>2 DEF Transit, IsMap, Fields, DoorOf
  <2>2. k.places = more
    BY DEF IsMap, Fields
  <2>3. Listed(more) /\ Len(more) = far /\ far \in 1..far /\ DOMAIN more = 1..Len(more)
    BY Appended, ListDomain DEF IsMap
  <2>4. FiniteCells(k)
    <3> HIDE DEF k
    <3> QED BY <2>2, FiniteAdded DEF Mapped
  <2>5. IsFiniteSet(DOMAIN cells) /\ <<0, 0>> \in DOMAIN cells
    <3>1. IsFiniteSet(new)
      BY PairIsFinite
    <3>2. IsFiniteSet(DOMAIN more[far])
      <4> HIDE DEF more, far, k
      <4> QED BY <2>2, <2>3, <2>4 DEF FiniteCells
    <3>3. <<0, 0>> \in new
      OBVIOUS
    <3> HIDE DEF new, more, far
    <3> QED BY <3>1, <3>2, <3>3, VisitDomain
  <2>6. Len(n.places) = far
    BY <1>2, TransitFresh
  <2>7. FiniteCells(n)
    <3> HIDE DEF n, cells, k, more, far
    <3> QED BY <2>1, <2>2, <2>4, <2>5, FinitePut
  <2>8. Bridges(n)
    <3>1. /\ exit.to = far /\ exit.entry = <<0, 0>>
          /\ return.to = m.place /\ return.entry = m.cursor
          /\ door = <<m.place, m.cursor>> /\ way = <<far, <<0, 0>>>>
      BY DEF DoorOf
    <3> DEFINE entry == <<0, 0>>
    <3> HIDE DEF n, exit, return, k, cells, more, new
    <3>2. /\ <<m.place, m.cursor>> \notin DOMAIN m.edges
          /\ n.edges = Linked(m.edges, <<m.place, m.cursor>>, exit, <<far, entry>>, return)
      BY <1>2, <2>1, <3>1
    <3>3. Bridges(m) /\ exit.entry = entry /\ far = Len(m.places) + 1
      BY <3>1 DEF Mapped
    <3> HIDE DEF entry, far, door, way
    <3> QED BY <2>6, <3>1, <3>2, <3>3, FreshBridge
  <2>9. Placed(n)
    <3> HIDE DEF n, cells, more, far
    <3> QED BY <2>1, <2>3, <2>5 DEF Placed
  <2> HIDE DEF n
  <2> QED BY <2>7, <2>8, <2>9 DEF n, Mapped
<1> QED BY <1>1, <1>2

LEMMA SettledMaps ==
  ASSUME NEW m, IsMap(m), Mapped(m), NEW n, n.places = m.places, n.edges = m.edges
  PROVE  Mapped(n)
<1>1. Len(m.places) \in Nat
  BY ListDomain DEF IsMap
<1>2. Bridges(n)
  BY <1>1, SameBridges DEF Mapped
<1> QED BY <1>2 DEF Mapped, FiniteCells

LEMMA PerceiveMaps ==
  ASSUME NEW m, IsMap(m), DoorsPair(m), Mapped(m), m.prev \in Tiles,
         NEW at \in Tiles, NEW c
  PROVE  LET n == Perceive(m, at, c) IN Mapped(n) /\ (~n.lost => Placed(n))
<1> DEFINE n == Perceive(m, at, c)
           d == SingleDir(c.buttons)
           tiles == Scrolled(m.prev, at, d)
           found == IF m.lost THEN ReAnchor(m) ELSE m
           seen == Seen(found, at)
<1>1. CASE StillLost(m, at, c)
  <2>1. n = StayLost(m, at)
    BY <1>1 DEF Perceive
  <2>2. n.places = m.places /\ n.edges = m.edges /\ n.lost = TRUE
    BY <2>1 DEF StayLost, IsMap, Fields
  <2> HIDE DEF n
  <2>3. Mapped(n)
    BY <2>2, SettledMaps
  <2> QED BY <2>2, <2>3 DEF n
<1>2. CASE ~StillLost(m, at, c)
  <2>1. IsMap(found) /\ DoorsPair(found) /\ Mapped(found)
    <3>1. CASE m.lost
      BY <3>1, ReAnchorIsFresh, FreshHangs, ReAnchorMaps
    <3>2. CASE ~m.lost
      BY <3>2
    <3> QED BY <3>1, <3>2
  <2> HIDE DEF found
  <2>2. Settled(found, seen) /\ Mapped(seen) /\ Placed(seen)
    BY <2>1, SeenKeeps, SeenMaps
  <2>3. IsMap(seen) /\ DoorsPair(seen)
    BY <2>1, <2>2 DEF Settled, DoorsPair
  <2> HIDE DEF seen
  <2>4. CASE c.fade /\ d # "none"
    <3>1. n = Transit(seen, d)
      BY <1>2, <2>4 DEF Perceive, seen, found
    <3> HIDE DEF n, d
    <3>2. Mapped(n) /\ Placed(n)
      BY <2>2, <2>3, <3>1, TransitMaps
    <3> QED BY <3>2 DEF n
  <2>5. CASE ~(c.fade /\ d # "none") /\ ~m.resync /\ d # "none"
    <3>1. n = Walked(seen, d, tiles)
      BY <1>2, <2>5 DEF Perceive, seen, found
    <3>2. tiles \in Nat
      BY ScrolledIsLength
    <3> HIDE DEF n, d, tiles
    <3>3. Mapped(n) /\ Placed(n)
      BY <2>2, <2>3, <3>1, <3>2, WalkedMaps
    <3> QED BY <3>3 DEF n
  <2>6. CASE ~(c.fade /\ d # "none") /\ ~(~m.resync /\ d # "none")
    <3>1. n = seen
      BY <1>2, <2>6 DEF Perceive, seen, found
    <3> QED BY <2>2, <3>1
  <2> QED BY <2>4, <2>5, <2>6
<1> QED BY <1>1, <1>2

(* The inductive invariant about the map.                                     *)
MapInv == Mapped(mem)

LEMMA MapInit == Init => MapInv
<1> SUFFICES ASSUME Init PROVE MapInv
  OBVIOUS
<1>1. mem.places = << <<>> >> /\ mem.edges = <<>>
  BY DEF Init, NewMap
<1>2. IsFiniteSet(DOMAIN <<>>) /\ DOMAIN <<>> = {}
  <2>1. DOMAIN <<>> = {}
    OBVIOUS
  <2> QED BY <2>1, FS_EmptySet
<1>3. FiniteCells(mem)
  BY <1>1, <1>2 DEF FiniteCells
<1>4. Bridges(mem)
  BY <1>1, <1>2 DEF Bridges
<1> QED BY <1>3, <1>4 DEF MapInv, Mapped

LEMMA ObserveMaps ==
  ASSUME IInv, PressInv, MapInv, Observe
  PROVE  MapInv' /\ (text = "none" /\ ~mem'.lost => Placed(mem'))
<1>1. IsMap(mem) /\ DoorsPair(mem) /\ Mapped(mem) /\ mem.prev \in Tiles /\ spot \in Tiles
  BY DEF IInv, TypeInv, PressInv, MapInv
<1>2. CASE text = "none"
  <2>1. mem' = Perceive(mem, spot, did)
    BY <1>2 DEF Observe
  <2>2. Mapped(mem') /\ (~mem'.lost => Placed(mem'))
    BY <1>1, <2>1, PerceiveMaps
  <2> QED BY <2>2 DEF MapInv, Mapped, FiniteCells, Bridges, Beyond, WayBack
<1>3. CASE text # "none"
  <2>1. mem' = PerceiveText(mem)
    BY <1>3 DEF Observe
  <2>2. mem'.places = mem.places /\ mem'.edges = mem.edges
    BY <1>1, <2>1 DEF PerceiveText, IsMap, Fields
  <2>3. Mapped(mem')
    BY <1>1, <2>2, SettledMaps
  <2> QED BY <1>3, <2>3 DEF MapInv, Mapped, FiniteCells, Bridges, Beyond, WayBack
<1> QED BY <1>2, <1>3

LEMMA MapKeeps == IInv /\ PressInv /\ MapInv /\ [Next]_vars => MapInv'
<1> SUFFICES ASSUME IInv, PressInv, MapInv, [Next]_vars PROVE MapInv'
  OBVIOUS
<1>1. CASE Observe
  BY <1>1, ObserveMaps
<1>2. CASE mem' = mem
  BY <1>2 DEF MapInv, Mapped, FiniteCells, Bridges, Beyond, WayBack
<1>3. CASE mem' = PerceiveText(mem)
  <2>1. IsMap(mem) /\ Mapped(mem)
    BY DEF IInv, TypeInv, MapInv
  <2>2. mem'.places = mem.places /\ mem'.edges = mem.edges
    BY <1>3, <2>1 DEF PerceiveText, IsMap, Fields
  <2>3. Mapped(mem')
    BY <2>1, <2>2, SettledMaps
  <2> QED BY <2>3 DEF MapInv, Mapped, FiniteCells, Bridges, Beyond, WayBack
<1> QED BY <1>1, <1>2, <1>3, ObservesOrNot

(* The shape of the map, over any walk, cutscene and re-anchoring: places are *)
(* finite, every door has its way back, and beyond it no other door leads out *)
(* (perceiver.py's edges, in pairs, each new place behind a new door).        *)
THEOREM DoorsAreBridges == Spec => []MapInv
<1> QED BY MapInit, MapKeeps, Invariance, PressesSeen, PTL DEF Spec

-------------------------------------------------------------------------------
(* Every cell of the map, with its place.                                     *)
Spots(m) == UNION {{<<p, c>> : c \in DOMAIN m.places[p]} : p \in DOMAIN m.places}

LEMMA SpotsAreFinite ==
  ASSUME NEW m, IsMap(m), FiniteCells(m)
  PROVE  IsFiniteSet(Spots(m))
<1> DEFINE F == [p \in DOMAIN m.places |-> {<<p, c>> : c \in DOMAIN m.places[p]}]
           S == {F[p] : p \in DOMAIN m.places}
<1>1. IsFiniteSet(DOMAIN m.places)
  <2>1. DOMAIN m.places = 1..Len(m.places) /\ Len(m.places) \in Nat
    BY ListDomain DEF IsMap
  <2>2. 1 \in Int /\ Len(m.places) \in Int
    BY <2>1
  <2> QED BY <2>1, <2>2, FS_Interval
<1>2. IsFiniteSet(S)
  <2> HIDE DEF F
  <2> QED BY <1>1, ImageIsFinite
<1>3. ASSUME NEW p \in DOMAIN m.places PROVE IsFiniteSet(F[p])
  <2> DEFINE g == [c \in DOMAIN m.places[p] |-> <<p, c>>]
  <2>1. F[p] = {g[c] : c \in DOMAIN m.places[p]}
    OBVIOUS
  <2>2. IsFiniteSet(DOMAIN m.places[p])
    BY DEF FiniteCells
  <2> HIDE DEF g, F
  <2> QED BY <2>1, <2>2, ImageIsFinite
<1>4. \A x \in S : IsFiniteSet(x)
  <2> HIDE DEF F
  <2> QED BY <1>3
<1>5. Spots(m) = UNION S
  BY DEF Spots
<1> HIDE DEF S
<1> QED BY <1>2, <1>4, <1>5, FS_UNION

(* A set of cells that no step and no door of the map leads out of.           *)
ClosedIn(m, good) ==
  \A p \in DOMAIN m.places : \A c \in DOMAIN m.places[p] :
    <<p, c>> \in good =>
      /\ \A d \in Directions \ m.places[p][c] :
           Neighbour(c, d) \in DOMAIN m.places[p] => <<p, Neighbour(c, d)>> \in good
      /\ <<p, c>> \in DOMAIN m.edges /\ WayBack(m, <<p, c>>) \in Spots(m) =>
           WayBack(m, <<p, c>>) \in good

LEMMA OnwardStays ==
  ASSUME NEW m, IsMap(m), FiniteCells(m), Placed(m),
         NEW good, <<m.place, m.cursor>> \in good, ClosedIn(m, good)
  PROVE  Onward(m) \subseteq good \cap Spots(m)
<1> DEFINE U == Spots(m)
           walks(p) == {<<p[1], Neighbour(p[2], d)>> : d \in Directions \ m.places[p[1]][p[2]]}
           doors(p) == IF p \in DOMAIN m.edges
                       THEN {<<m.edges[p].to, m.edges[p].entry>>} ELSE {}
           more(at) == at \cup (U \cap UNION {walks(p) \cup doors(p) : p \in at})
           More == [at \in SUBSET U |-> more(at)]
           Stop == {at \in SUBSET U : more(at) = at}
           grow(g) == [at \in SUBSET U |-> IF more(at) = at THEN at ELSE g[more(at)]]
           f == CHOOSE g : g = grow(g)
           Fam == SUBSET (good \cap U)
           start == {<<m.place, m.cursor>>}
<1>1. Onward(m) = f[start]
  BY DEF Onward, Spots
<1>2. IsFiniteSet(U)
  BY SpotsAreFinite
<1>3. start \in SUBSET U /\ start \in Fam
  <2>1. m.place \in DOMAIN m.places
    BY ListDomain DEF IsMap
  <2> QED BY <2>1 DEF Placed, Spots
<1>4. ASSUME NEW at \in SUBSET (good \cap U)
      PROVE  more(at) \in SUBSET (good \cap U)
  <2> SUFFICES ASSUME NEW p \in at, NEW q \in U, q \in walks(p) \cup doors(p)
               PROVE  q \in good
    OBVIOUS
  <2>1. PICK i \in DOMAIN m.places : \E c \in DOMAIN m.places[i] : p = <<i, c>>
    BY DEF Spots
  <2>0. PICK c \in DOMAIN m.places[i] : p = <<i, c>>
    BY <2>1
  <2>2. PICK j \in DOMAIN m.places : \E e \in DOMAIN m.places[j] : q = <<j, e>>
    BY DEF Spots
  <2>3. p \in good
    BY <1>4
  <2>4. CASE q \in walks(p)
    <3>1. PICK d \in Directions \ m.places[i][c] : q = <<i, Neighbour(c, d)>>
      BY <2>0, <2>4
    <3>2. Neighbour(c, d) \in DOMAIN m.places[i]
      BY <2>2, <3>1
    <3> QED BY <2>0, <2>3, <3>1, <3>2 DEF ClosedIn
  <2>5. CASE q \in doors(p)
    <3>1. p \in DOMAIN m.edges /\ q = WayBack(m, p)
      BY <2>5 DEF WayBack
    <3> QED BY <2>0, <2>3, <3>1 DEF ClosedIn
  <2> QED BY <2>4, <2>5
<1>5. \A at \in SUBSET U : /\ more(at) \in SUBSET U /\ at \subseteq more(at)
                           /\ More[at] = more(at)
                           /\ at \in Stop <=> more(at) = at
  OBVIOUS
<1> HIDE DEF U, more
<1>6. Grows(U, Stop, More)
  <2> HIDE DEF More, Stop
  <2> QED BY <1>2, <1>5 DEF Grows
<1>7. ASSUME NEW g PROVE grow(g) = [at \in SUBSET U |->
                                      IF at \in Stop THEN at ELSE g[More[at]]]
  <2> HIDE DEF More, Stop
  <2> QED BY <1>5
<1>8. \E g : g = grow(g)
  <2>1. PICK g : Searches(g, U, Stop, More)
    <3> HIDE DEF Stop, More
    <3> QED BY <1>6, SearchExists
  <2>2. g = grow(g)
    <3> HIDE DEF grow, Stop, More
    <3> QED BY <1>7, <2>1 DEF Searches
  <2> HIDE DEF grow
  <2> QED BY <2>2
<1>9. f = grow(f)
  <2> HIDE DEF grow
  <2> QED BY <1>8
<1>10. Searches(f, U, Stop, More)
  <2> HIDE DEF f, grow, Stop, More
  <2> QED BY <1>7, <1>9 DEF Searches
<1>11. \A y \in SUBSET U : y \in Fam /\ y \notin Stop => More[y] \in Fam
  <2> HIDE DEF More, Stop
  <2> QED BY <1>4, <1>5
<1>12. f[start] \in Stop /\ f[start] \in Fam
  <2> HIDE DEF f, Stop, More, Fam, start, grow, walks, doors
  <2>1. start \in SUBSET U /\ start \in Fam
    BY <1>3
  <2> QED BY <1>6, <1>10, <1>11, <2>1, SearchEnds
<1> HIDE DEF f
<1> QED BY <1>1, <1>12 DEF U

LEMMA NoneIsNoDirection == "none" \notin Directions
<1> QED BY DEF Directions, Order

(* With a frontier in this place and no step towards one, what can be reached *)
(* of this place, by whatever doors, has none.                                *)
LEMMA NoWayHere ==
  ASSUME NEW m, IsMap(m), Mapped(m), Placed(m),
         UnexploredDir(Here(m), m.cursor, {}) = {},
         FirstSteps(Here(m), DOMAIN Here(m), m.cursor, FrontierCells(m, m.place)) = {}
  PROVE  \A p \in Onward(m) : p[1] = m.place => p[2] \notin FrontierCells(m, p[1])
<1> DEFINE here == DOMAIN Here(m)
           goals == FrontierCells(m, m.place)
<1>1. m.place \in DOMAIN m.places /\ Here(m) = m.places[m.place] /\ m.cursor \in here
  BY ListDomain DEF IsMap, Here, Placed
<1>2. IsFiniteSet(here)
  BY <1>1 DEF Mapped, FiniteCells
<1>3. goals \subseteq here /\ m.cursor \notin goals
  BY <1>1 DEF FrontierCells
<1>4. PICK far : Apart(Here(m), here, m.cursor, far) /\ (goals \cap here) \ {m.cursor} \subseteq far
  <2> HIDE DEF here, goals
  <2>1. FirstSteps(Here(m), here, m.cursor, goals) = {}
    BY DEF here, goals
  <2> QED BY <1>2, <2>1, NoStepNoWay
<1>5. goals \subseteq far /\ far \subseteq here \ {m.cursor}
  BY <1>3, <1>4 DEF Apart
<1> DEFINE out(k) == k \in DOMAIN m.edges /\ k[1] = m.place /\ k[2] \notin far
           behind(i) == \E k \in DOMAIN m.edges : out(k) /\
                          \E side \in SUBSET (1..Len(m.places)) :
                             Beyond(m, k, side) /\ i \in side
           good == {s \in Spots(m) : (s[1] = m.place /\ s[2] \notin far) \/ behind(s[1])}
<1>6. ASSUME NEW i \in DOMAIN m.places, NEW c \in DOMAIN m.places[i]
      PROVE  <<i, c>> \in Spots(m)
  BY DEF Spots
<1>7. ASSUME NEW i \in DOMAIN m.places, NEW c \in DOMAIN m.places[i], <<i, c>> \in good,
             NEW d \in Directions \ m.places[i][c], Neighbour(c, d) \in DOMAIN m.places[i]
      PROVE  <<i, Neighbour(c, d)>> \in good
  <2>1. <<i, Neighbour(c, d)>> \in Spots(m)
    BY <1>6, <1>7
  <2>2. CASE behind(i)
    <3> HIDE DEF behind
    <3> QED BY <2>1, <2>2
  <2>3. CASE i = m.place /\ c \notin far
    <3>1. c \in here \ far /\ d \in Open(Here(m), c)
      BY <1>1, <2>3 DEF Open
    <3>2. Neighbour(c, d) \notin far
      BY <1>4, <3>1 DEF Apart
    <3> HIDE DEF behind
    <3> QED BY <2>1, <2>3, <3>2
  <2> HIDE DEF behind
  <2> QED BY <1>7, <2>2, <2>3
<1>8. ASSUME NEW i \in DOMAIN m.places, NEW c \in DOMAIN m.places[i], <<i, c>> \in good,
             <<i, c>> \in DOMAIN m.edges, WayBack(m, <<i, c>>) \in Spots(m)
      PROVE  WayBack(m, <<i, c>>) \in good
  <2> DEFINE l == <<i, c>>
  <2>1. l[1] = i /\ l[2] = c /\ l \in DOMAIN m.edges
        /\ WayBack(m, l)[1] = m.edges[l].to /\ WayBack(m, l)[2] = m.edges[l].entry
    BY <1>8 DEF WayBack
  <2> HIDE DEF l
  <2>2. behind(i) \/ (i = m.place /\ c \notin far)
    <3> HIDE DEF behind
    <3> QED BY <1>8
  <2>3. CASE i = m.place /\ c \notin far
    <3>1. PICK side \in SUBSET (1..Len(m.places)) : Beyond(m, l, side)
      BY <2>1 DEF Mapped, Bridges
    <3>2. m.edges[l].to \in side
      BY <3>1 DEF Beyond
    <3>3. behind(m.edges[l].to)
      BY <2>1, <2>3, <3>1, <3>2
    <3> HIDE DEF behind
    <3> QED BY <1>8, <2>1, <3>3 DEF l
  <2>4. CASE behind(i)
    <3>1. PICK k \in DOMAIN m.edges : out(k) /\
                 \E side \in SUBSET (1..Len(m.places)) : Beyond(m, k, side) /\ i \in side
      BY <2>4
    <3>2. PICK side \in SUBSET (1..Len(m.places)) : Beyond(m, k, side) /\ i \in side
      BY <3>1
    <3>3. CASE m.edges[l].to \in side
      <4>1. behind(m.edges[l].to)
        BY <3>1, <3>2, <3>3
      <4> HIDE DEF behind
      <4> QED BY <1>8, <2>1, <4>1 DEF l
    <3>4. CASE m.edges[l].to \notin side
      <4>1. l = WayBack(m, k)
        BY <2>1, <3>2, <3>4 DEF Beyond
      <4>2. m.edges[l].to = k[1] /\ m.edges[l].entry = k[2]
        BY <3>1, <4>1 DEF Mapped, Bridges
      <4>3. WayBack(m, l)[1] = m.place /\ WayBack(m, l)[2] \notin far
        BY <2>1, <3>1, <4>2
      <4> HIDE DEF behind
      <4> QED BY <1>8, <4>3 DEF l
    <3> QED BY <3>3, <3>4
  <2> QED BY <2>2, <2>3, <2>4
<1>9. ClosedIn(m, good)
  <2> HIDE DEF good
  <2> QED BY <1>7, <1>8 DEF ClosedIn
<1>10. <<m.place, m.cursor>> \in good
  <2>1. <<m.place, m.cursor>> \in Spots(m)
    BY <1>1, <1>6
  <2> HIDE DEF behind
  <2> QED BY <1>5, <2>1
<1>11. Onward(m) \subseteq good
  <2> HIDE DEF good
  <2> QED BY <1>9, <1>10, OnwardStays DEF Mapped
<1>12. ~behind(m.place)
  BY DEF Beyond
<1> SUFFICES ASSUME NEW p \in Onward(m), p[1] = m.place PROVE p[2] \notin goals
  OBVIOUS
<1>13. p[2] \notin far
  <2> HIDE DEF behind
  <2> QED BY <1>11, <1>12
<1> QED BY <1>5, <1>13

(* With no frontier behind any door, no way leads to one.                     *)
LEMMA NoWayBeyond ==
  ASSUME NEW m, IsMap(m), DoorsPair(m), Mapped(m), Placed(m),
         FrontierCells(m, m.place) = {}, HopsInto(m, PlaceFrontiers(m)) = {}
  PROVE  \A p \in Onward(m) : FrontierCells(m, p[1]) = {}
<1>1. PlaceFrontiers(m) = {}
  <2>1. PlaceFrontiers(m) \in SUBSET Reachable(m) /\ m.place \notin PlaceFrontiers(m)
    BY DEF PlaceFrontiers
  <2> QED BY <2>1, NoHopNoWay
<1> DEFINE good == {s \in Spots(m) : s[1] \in Reachable(m)}
<1>2. m.place \in Reachable(m) /\ m.place \in DOMAIN m.places
  BY ListDomain DEF Reachable, Closed, IsMap
<1>3. ASSUME NEW k \in DOMAIN m.edges, k[1] \in Reachable(m)
      PROVE  m.edges[k].to \in Reachable(m)
  BY <1>3 DEF Reachable, Closed, DoorsPair
<1>4. ClosedIn(m, good)
  <2> SUFFICES ASSUME NEW i \in DOMAIN m.places, NEW c \in DOMAIN m.places[i],
                      <<i, c>> \in good
               PROVE  /\ \A d \in Directions \ m.places[i][c] :
                           Neighbour(c, d) \in DOMAIN m.places[i] =>
                             <<i, Neighbour(c, d)>> \in good
                      /\ <<i, c>> \in DOMAIN m.edges /\ WayBack(m, <<i, c>>) \in Spots(m) =>
                           WayBack(m, <<i, c>>) \in good
    BY DEF ClosedIn
  <2>1. i \in Reachable(m)
    OBVIOUS
  <2>2. \A e \in DOMAIN m.places[i] : <<i, e>> \in good
    BY <2>1 DEF Spots
  <2>3. ASSUME <<i, c>> \in DOMAIN m.edges PROVE m.edges[<<i, c>>].to \in Reachable(m)
    BY <1>3, <2>1, <2>3
  <2>4. WayBack(m, <<i, c>>)[1] = m.edges[<<i, c>>].to
    BY DEF WayBack
  <2> QED BY <2>2, <2>3, <2>4
<1>5. <<m.place, m.cursor>> \in good
  BY <1>2 DEF Spots, Placed
<1>6. Onward(m) \subseteq good
  <2> HIDE DEF good
  <2> QED BY <1>4, <1>5, OnwardStays DEF Mapped
<1> SUFFICES ASSUME NEW p \in Onward(m) PROVE FrontierCells(m, p[1]) = {}
  OBVIOUS
<1> QED BY <1>1, <1>6 DEF PlaceFrontiers

(* No answer means that no frontier can be reached over the map, except by    *)
(* the two ways that decide() does not try.                                   *)
LEMMA NothingDecided ==
  ASSUME NEW m, IsMap(m), DoorsPair(m), OnGrid(m), Mapped(m), Placed(m), ~m.lost,
         NEW g, "none" \in Decide(m, g)
  PROVE  \/ DoorBlocked(m)
         \/ \A p \in Onward(m) :
              \/ p[2] \notin FrontierCells(m, p[1])
              \/ p[1] # m.place /\ FrontierCells(m, m.place) # {}
<1> DEFINE goals == FrontierCells(m, m.place)
           local == ExploreDirs(Here(m), m.cursor, goals, {}, g)
           wanted == PlaceFrontiers(m)
           doors == IF m.place \in wanted THEN {} ELSE HopsInto(m, wanted)
<1>1. Decide(m, g) = IF local # {} THEN local
                     ELSE IF doors = {} THEN {"none"}
                     ELSE UNION {OrNone(StepsToward(m, door)) : door \in doors}
  BY DEF Decide
<1>2. local = {}
  <2>1. local \subseteq Directions
    BY ExploreDirsAreDirections
  <2> HIDE DEF local, doors
  <2> QED BY <1>1, <2>1, NoneIsNoDirection
<1>3. CASE goals # {}
  <2>1. Pass(Here(m), m.cursor, goals, {}) = {}
    BY <1>2 DEF ExploreDirs
  <2>2. goals = {f \in goals : UnexploredDir(Here(m), f, {}) # {}}
    BY DEF FrontierCells, Here
  <2>3. /\ UnexploredDir(Here(m), m.cursor, {}) = {}
        /\ FirstSteps(Here(m), DOMAIN Here(m), m.cursor, goals) = {}
    BY <2>1, <2>2 DEF Pass
  <2>4. \A p \in Onward(m) : p[1] = m.place => p[2] \notin FrontierCells(m, p[1])
    BY <2>3, NoWayHere
  <2> QED BY <1>3, <2>4
<1>4. CASE goals = {}
  <2>1. m.place \notin wanted
    BY <1>4 DEF PlaceFrontiers
  <2>2. CASE doors = {}
    <3>1. \A p \in Onward(m) : FrontierCells(m, p[1]) = {}
      BY <1>4, <2>1, <2>2, NoWayBeyond
    <3> QED BY <3>1
  <2>3. CASE doors # {}
    <3>1. PICK door \in doors : "none" \in OrNone(StepsToward(m, door))
      <4> HIDE DEF local, doors
      <4> QED BY <1>1, <1>2, <2>3
    <3>2. door \in HopsInto(m, wanted) /\ door \in DOMAIN m.edges
      BY <2>1, <3>1 DEF HopsInto
    <3>3. StepsToward(m, door) \subseteq Directions
      <4>1. m.edges[door].dir \in Directions
        BY <3>2 DEF OnGrid
      <4> QED BY <4>1, FirstStepsAreDirections DEF StepsToward
    <3>4. StepsToward(m, door) = {}
      BY <3>1, <3>3, NoneIsNoDirection DEF OrNone
    <3> QED BY <1>4, <3>2, <3>4 DEF DoorBlocked
  <2> QED BY <2>2, <2>3
<1> QED BY <1>3, <1>4

LEMMA GivingUp ==
  ASSUME IInv, PressInv, MapInv, [Next]_vars,
         tool = "auto", tool' = "render", why' = "exhausted"
  PROVE  \/ DoorBlocked(mem')
         \/ \A p \in Onward(mem') :
              \/ p[2] \notin FrontierCells(mem', p[1])
              \/ p[1] # mem'.place /\ FrontierCells(mem', mem'.place) # {}
<1>1. GiveUp
  BY DEF Next, Advance, Act, Call, Render, Look, Explore, Arrive, Go, vars
<1>2. Observe /\ "none" \in Answers
  BY <1>1 DEF GiveUp
<1>3. DecideBlind(mem') \subseteq Directions
  BY UnexploredIsDirection DEF DecideBlind
<1>4. text = "none" /\ "none" \in Decide(mem', goal)
  BY <1>2, <1>3, NoneIsNoDirection DEF Answers
<1>5. ~mem'.lost
  BY <1>3, <1>4, NoneIsNoDirection DEF Decide
<1>6. IsMap(mem') /\ DoorsPair(mem') /\ OnGrid(mem')
  BY <1>2, ObserveKeeps, ObserveSees
<1>7. Mapped(mem') /\ Placed(mem')
  BY <1>2, <1>4, <1>5, ObserveMaps DEF MapInv
<1> QED BY <1>4, <1>5, <1>6, <1>7, NothingDecided

(* The autopilot's report that the area is explored: no way over the recorded *)
(* map leads to a frontier, but for two ways that the code does not try: to   *)
(* another room's frontier while this room has one that cannot be reached,    *)
(* and past a nearest door towards a frontier that cannot be walked to.       *)
THEOREM DoneWhenItGivesUp == Spec => GivesUpOnlyWhenDone
<1>1. IInv /\ PressInv /\ MapInv /\ [Next]_vars =>
        (tool = "auto" /\ tool' = "render" /\ why' = "exhausted" =>
           \/ DoorBlocked(mem')
           \/ \A p \in Onward(mem') :
                \/ p[2] \notin FrontierCells(mem', p[1])
                \/ p[1] # mem'.place /\ FrontierCells(mem', mem'.place) # {})
  BY GivingUp
<1> QED BY <1>1, Invariance, PressesSeen, DoorsAreBridges, PTL DEF Spec, GivesUpOnlyWhenDone
=============================================================================
