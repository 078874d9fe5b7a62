----------------------------- MODULE OverlayProofs -----------------------------
(***************************************************************************)
(* Proofs about Overlay, for any paths, host, number of mappings and hide  *)
(* rules: resolution follows the commands.  The entries carry ids, the     *)
(* history of commands has places; the inductive invariant says that the   *)
(* ids of the entries, taken in the order of the commands, increase.       *)
(***************************************************************************)
EXTENDS Overlay, WellFoundedInduction, SequenceTheorems, TLAPS

USE OverlayAssumption DEF overlayVars

-----------------------------------------------------------------------------
(* Numbers, and the newest entry. *)

\* A set of numbers that is not empty has a least one.
LEMMA LeastOf ==
  ASSUME NEW S, S \subseteq Nat, S # {}
  PROVE  \E n \in S : \A m \in S : n <= m
<1>1. PICK n \in S : \A m \in S : ~(<<m, n>> \in OpToRel(<, Nat))
  BY WFMin, NatLessThanWellFounded
<1>2. \A m \in S : ~(m < n)
  BY <1>1 DEF OpToRel
<1> QED BY <1>2

\* A bounded set of numbers that is not empty has a greatest one.
LEMMA GreatestOf ==
  ASSUME NEW N \in Nat, NEW S \in SUBSET (0..N), S # {}
  PROVE  \E n \in S : \A m \in S : m <= n
<1> DEFINE D == {N - n : n \in S}
<1>1. D \subseteq Nat /\ D # {}
  <2>1. \A n \in S : N - n \in Nat
    OBVIOUS
  <2> QED BY <2>1
<1>2. PICK d \in D : \A e \in D : d <= e
  BY <1>1, LeastOf
<1>3. PICK n \in S : d = N - n
  OBVIOUS
<1>4. \A m \in S : m <= n
  <2> TAKE m \in S
  <2>1. d <= N - m
    BY <1>2
  <2> QED BY <1>3, <2>1
<1> QED BY <1>4

\* The newest entry of a set of entries is one of them, and none is newer.
LEMMA NewestIsNewest ==
  ASSUME NEW S, S # {}, \A e \in S : e.id \in 1..MaxOrder
  PROVE  newest(S) \in S /\ \A f \in S : f.id <= newest(S).id
<1> DEFINE I == {e.id : e \in S}
<1>1. I \in SUBSET (0..MaxOrder) /\ I # {}
  OBVIOUS
<1>2. PICK i \in I : \A j \in I : j <= i
  BY <1>1, GreatestOf
<1>3. \E e \in S : \A f \in S : f.id <= e.id
  BY <1>2
<1> QED BY <1>3 DEF newest

\* RemoveAt: one element less, the later ones move up.
LEMMA RemoveAtFacts ==
  ASSUME NEW T, NEW s \in Seq(T), NEW k \in DOMAIN s
  PROVE  /\ RemoveAt(s, k) \in Seq(T)
         /\ DOMAIN RemoveAt(s, k) = 1..Len(s) - 1
         /\ \A n \in 1..Len(s) - 1 : RemoveAt(s, k)[n] = IF n < k THEN s[n] ELSE s[n + 1]
<1> DEFINE a == SubSeq(s, 1, k - 1)
           b == SubSeq(s, k + 1, Len(s))
<1>1. k \in 1..Len(s) /\ Len(s) \in Nat
  OBVIOUS
<1>2. a \in Seq(T) /\ Len(a) = k - 1 /\ \A n \in 1..k - 1 : a[n] = s[n]
  BY <1>1
<1>3. b \in Seq(T) /\ Len(b) = Len(s) - k /\ \A n \in 1..Len(s) - k : b[n] = s[n + k]
  BY <1>1
<1> HIDE DEF a, b
<1>4. a \o b \in Seq(T) /\ Len(a \o b) = Len(s) - 1
  BY <1>1, <1>2, <1>3
<1>5. ASSUME NEW n \in 1..Len(s) - 1
      PROVE  (a \o b)[n] = IF n < k THEN s[n] ELSE s[n + 1]
  <2>1. (a \o b)[n] = IF n <= Len(a) THEN a[n] ELSE b[n - Len(a)]
    BY <1>1, <1>2, <1>3, SMTT(60)
  <2>2. CASE n < k
    BY <1>1, <1>2, <2>1, <2>2
  <2>3. CASE n >= k
    <3>1. n - Len(a) \in 1..Len(s) - k /\ (n - Len(a)) + k = n + 1 /\ ~(n <= Len(a))
      BY <1>1, <1>2, <2>3
    <3>2. b[n - Len(a)] = s[n + 1]
      BY <1>3, <3>1
    <3> QED BY <2>1, <2>3, <3>1, <3>2
  <2>4. n < k \/ n >= k
    BY <1>1
  <2> QED BY <2>2, <2>3, <2>4
<1>6. RemoveAt(s, k) = a \o b
  BY DEF RemoveAt, a, b
<1> QED BY <1>4, <1>5, <1>6

-----------------------------------------------------------------------------
(* The commands keep the invariant. *)

\* What the invariant says of the counters, the entries and the stack.
LEMMA IndFacts ==
  ASSUME OverlayIndInv
  PROVE  /\ layers \subseteq Layer /\ hides \subseteq Hide
         /\ next_hide_id = next_layer_id /\ next_overlay_order = next_layer_id
         /\ next_layer_id \in 1..MaxOrder + 1
         /\ \A e \in layers \cup hides : e.id \in 1..MaxOrder /\ e.id < next_layer_id
         /\ \A e, f \in layers \cup hides : e.id = f.id => e = f
         /\ \A l \in layers : l.on_fs \in MountPoints
         /\ stack \in Seq(Mounted \cup Hiding)
         /\ DOMAIN stack = 1..Len(stack) /\ Len(stack) \in Nat
         /\ \A n \in DOMAIN stack : stack[n].mount \in BOOLEAN /\ stack[n].path \in Paths
<1>1. \A c \in Mounted \cup Hiding : c.mount \in BOOLEAN /\ c.path \in Paths
  BY DEF Mounted, Hiding
<1>2. stack \in Seq(Mounted \cup Hiding)
  BY DEF OverlayIndInv
<1> QED
  BY <1>1, <1>2 DEF OverlayIndInv, OverlayTypeOK, EntriesBounded, next_overlay_order

\* Each id of the stack is the id of an entry.
LEMMA IdsOfEntries ==
  ASSUME OverlayIndInv, NEW ids \in [DOMAIN stack -> 1..MaxOrder], StackIds(ids),
         NEW n \in DOMAIN stack
  PROVE  ids[n] \in 1..MaxOrder /\ ids[n] < next_layer_id
<1>1. CASE stack[n].mount
  <2>1. layer_of(stack[n], ids[n]) \in layers
    BY <1>1 DEF StackIds
  <2> QED BY <2>1, IndFacts DEF layer_of
<1>2. CASE ~stack[n].mount
  <2>1. hide_of(stack[n], ids[n]) \in hides
    BY <1>2 DEF StackIds
  <2> QED BY <2>1, IndFacts DEF hide_of
<1> QED BY <1>1, <1>2

\* The last mount at a path is the one whose layer is the newest there.
LEMMA LastMountIsNewest ==
  ASSUME OverlayIndInv, NEW on_fs, layers_at(on_fs) # {},
         NEW ids \in [DOMAIN stack -> 1..MaxOrder], StackIds(ids)
  PROVE  /\ last_mount_at(on_fs) \in DOMAIN stack
         /\ stack[last_mount_at(on_fs)].mount
         /\ newest(layers_at(on_fs))
              = layer_of(stack[last_mount_at(on_fs)], ids[last_mount_at(on_fs)])
<1> DEFINE k == last_mount_at(on_fs)
           M == mounts_at(on_fs)
           new == newest(layers_at(on_fs))
<1>1. layers \subseteq Layer /\ DOMAIN stack = 1..Len(stack) /\ Len(stack) \in Nat
      /\ (\A e \in layers : e.id \in 1..MaxOrder) /\ \A e, f \in layers : e.id = f.id => e = f
  BY IndFacts
<1>2. new \in layers_at(on_fs) /\ \A f \in layers_at(on_fs) : f.id <= new.id
  BY <1>1, NewestIsNewest DEF layers_at
<1>3. ASSUME NEW l \in layers_at(on_fs)
      PROVE  \E n \in M : layer_of(stack[n], ids[n]) = l
  BY DEF StackIds, layers_at, mounts_at, layer_of
<1>4. k \in M /\ \A m \in M : m <= k
  <2>0. M # {}
    BY <1>2, <1>3
  <2>1. M \subseteq 1..Len(stack)
    BY <1>1 DEF mounts_at
  <2>2. \E n \in M : \A m \in M : m <= n
    <3>1. M \in SUBSET (0..Len(stack))
      BY <1>1, <2>1
    <3>2. QED
      BY <1>1, <2>0, <3>1, GreatestOf
  <2> QED BY <2>2 DEF last_mount_at
<1>5. k \in DOMAIN stack /\ stack[k].mount /\ stack[k].path = on_fs
  BY <1>4 DEF mounts_at
<1> DEFINE top == layer_of(stack[k], ids[k])
<1>6. top \in layers_at(on_fs) /\ top.id = ids[k]
  BY <1>5 DEF StackIds, layers_at, layer_of
<1>7. PICK n \in M : layer_of(stack[n], ids[n]) = new
  BY <1>2, <1>3
<1>8. new.id = ids[n] /\ n <= k /\ n \in DOMAIN stack
  BY <1>4, <1>7 DEF layer_of, mounts_at
<1>9. ids[n] <= ids[k]
  <2>1. n < k => ids[n] < ids[k]
    BY <1>5, <1>8 DEF StackIds
  <2>2. n < k \/ n = k
    BY <1>1, <1>5, <1>8
  <2> QED BY <1>5, <1>8, <2>1, <2>2
<1>10. new.id = top.id
  BY <1>1, <1>2, <1>5, <1>6, <1>8, <1>9
<1> QED BY <1>1, <1>2, <1>5, <1>6, <1>10 DEF layers_at

\* A new entry has the highest id and the last place.
LEMMA NewEntryIds ==
  ASSUME OverlayIndInv, next_layer_id \in 1..MaxOrder, NEW c \in Mounted \cup Hiding,
         stack' = Append(stack, c),
         layers' = IF c.mount THEN layers \cup {layer_of(c, next_layer_id)} ELSE layers,
         hides' = IF c.mount THEN hides ELSE hides \cup {hide_of(c, next_layer_id)}
  PROVE  \E ids \in [DOMAIN stack' -> 1..MaxOrder] : StackIds(ids)'
<1> DEFINE L == Len(stack)
<1>1. PICK ids \in [DOMAIN stack -> 1..MaxOrder] : StackIds(ids)
  BY DEF OverlayIndInv
<1>2. /\ DOMAIN stack' = 1..L + 1 /\ stack'[L + 1] = c
      /\ \A n \in 1..L : stack'[n] = stack[n] /\ n # L + 1
      /\ L \in Nat /\ DOMAIN stack = 1..L
  BY IndFacts
<1>3. PICK more \in [1..L + 1 -> 1..MaxOrder] :
         more[L + 1] = next_layer_id /\ \A n \in 1..L : more[n] = ids[n]
  <2> DEFINE g == [n \in 1..L + 1 |-> IF n = L + 1 THEN next_layer_id ELSE ids[n]]
  <2>1. g \in [1..L + 1 -> 1..MaxOrder]
    BY <1>2
  <2>2. g[L + 1] = next_layer_id /\ \A n \in 1..L : g[n] = ids[n]
    BY <1>2
  <2> QED BY <2>1, <2>2
<1>4. more \in [DOMAIN stack' -> 1..MaxOrder]
  BY <1>2
<1>5. \A n \in 1..L : ids[n] < next_layer_id
  BY <1>1, <1>2, IdsOfEntries
<1>6. ASSUME NEW m \in DOMAIN stack', NEW n \in DOMAIN stack', m < n
      PROVE  more[m] < more[n]
  <2>1. m \in 1..L /\ more[m] = ids[m]
    BY <1>2, <1>3, <1>6
  <2>2. CASE n = L + 1
    BY <1>3, <1>5, <2>1, <2>2
  <2>3. CASE n \in 1..L
    BY <1>1, <1>2, <1>3, <1>6, <2>1, <2>3 DEF StackIds
  <2> QED BY <1>2, <2>2, <2>3
<1>7. c.mount \in BOOLEAN
  BY DEF Mounted, Hiding
<1>8. ASSUME NEW n \in DOMAIN stack'
      PROVE  IF stack'[n].mount THEN layer_of(stack'[n], more[n]) \in layers'
                                ELSE hide_of(stack'[n], more[n]) \in hides'
  BY <1>1, <1>2, <1>3, <1>7 DEF StackIds
<1>9. ASSUME NEW l \in layers'
      PROVE  \E n \in DOMAIN stack' : stack'[n].mount /\ layer_of(stack'[n], more[n]) = l
  <2>1. CASE l \in layers
    <3>1. PICK m \in 1..L : stack[m].mount /\ layer_of(stack[m], ids[m]) = l
      BY <1>1, <1>2, <2>1 DEF StackIds
    <3>2. m \in DOMAIN stack' /\ stack'[m] = stack[m] /\ more[m] = ids[m]
      BY <1>2, <1>3
    <3> QED BY <3>1, <3>2
  <2>2. CASE c.mount /\ l = layer_of(c, next_layer_id)
    <3>1. L + 1 \in DOMAIN stack' /\ stack'[L + 1] = c /\ more[L + 1] = next_layer_id
      BY <1>2, <1>3
    <3> QED BY <2>2, <3>1
  <2> QED BY <1>7, <2>1, <2>2
<1>10. ASSUME NEW h \in hides'
       PROVE  \E n \in DOMAIN stack' : ~stack'[n].mount /\ hide_of(stack'[n], more[n]) = h
  <2>1. CASE h \in hides
    <3>1. PICK m \in 1..L : ~stack[m].mount /\ hide_of(stack[m], ids[m]) = h
      BY <1>1, <1>2, <2>1 DEF StackIds
    <3>2. m \in DOMAIN stack' /\ stack'[m] = stack[m] /\ more[m] = ids[m]
      BY <1>2, <1>3
    <3> QED BY <3>1, <3>2
  <2>2. CASE ~c.mount /\ h = hide_of(c, next_layer_id)
    <3>1. L + 1 \in DOMAIN stack' /\ stack'[L + 1] = c /\ more[L + 1] = next_layer_id
      BY <1>2, <1>3
    <3> QED BY <2>2, <3>1
  <2> QED BY <1>7, <2>1, <2>2
<1>11. StackIds(more)'
  BY <1>6, <1>8, <1>9, <1>10 DEF StackIds, layer_of, hide_of
<1> QED BY <1>4, <1>11

\* mount adds a layer above everything.
LEMMA MountPreserves ==
  ASSUME OverlayIndInv, NEW local \in Locals, NEW on_fs \in MountPoints,
         mount_layer(local, on_fs)
  PROVE  OverlayIndInv'
<1> DEFINE c == [mount |-> TRUE, local |-> local, path |-> on_fs]
           new == layer_of(c, next_layer_id)
<1>0. next_layer_id \in 1..MaxOrder /\ on_fs \in Paths
  BY IndFacts DEF mount_layer
<1>1. /\ layers' = layers \cup {new} /\ hides' = hides
      /\ next_layer_id' = next_layer_id + 1 /\ next_hide_id' = next_layer_id + 1
      /\ stack' = Append(stack, c) /\ c \in Mounted
  BY <1>0, IndFacts DEF mount_layer, layer_of, Mounted
<1>2. new \in Layer /\ new.id = next_layer_id /\ new.on_fs = on_fs
  BY <1>0 DEF Layer, layer_of
<1>3. /\ \A e \in layers \cup hides : e.id \in 1..MaxOrder /\ e.id < next_layer_id
      /\ \A e, f \in layers \cup hides : e.id = f.id => e = f
      /\ layers \subseteq Layer /\ hides \subseteq Hide
      /\ \A l \in layers : l.on_fs \in MountPoints
  BY IndFacts
<1>4. /\ \A e \in (layers \cup hides)' : e.id \in 1..MaxOrder /\ e.id < next_layer_id'
      /\ \A e, f \in (layers \cup hides)' : e.id = f.id => e = f
  <2>1. (layers \cup hides)' = (layers \cup hides) \cup {new}
    BY <1>1
  <2>2. \A e \in layers \cup hides : e.id # new.id
    BY <1>0, <1>2, <1>3
  <2>3. \A e \in layers \cup hides : e.id < next_layer_id + 1
    BY <1>0, <1>3
  <2>4. new.id < next_layer_id + 1 /\ new.id \in 1..MaxOrder
    BY <1>0, <1>2
  <2>5. \A e \in (layers \cup hides)' : e.id \in 1..MaxOrder /\ e.id < next_layer_id'
    BY <1>1, <1>3, <2>1, <2>3, <2>4
  <2>6. \A e, f \in (layers \cup hides)' : e.id = f.id => e = f
    BY <1>3, <2>1, <2>2
  <2> HIDE DEF new
  <2> QED BY <2>5, <2>6
<1>5. stack' \in Seq(Mounted \cup Hiding)
  BY <1>1, IndFacts
<1>6. \E ids \in [DOMAIN stack' -> 1..MaxOrder] : StackIds(ids)'
  BY <1>0, <1>1, NewEntryIds
<1>7. OverlayTypeOK'
  BY <1>1, <1>2, <1>3, <1>4 DEF OverlayTypeOK
<1>8. EntriesBounded'
  <2>1. next_layer_id' \in 1..MaxOrder + 1
    BY <1>0, <1>1
  <2>2. \A l \in layers' : l.on_fs \in MountPoints
    BY <1>1, <1>2, <1>3
  <2> QED BY <1>4, <2>1, <2>2 DEF EntriesBounded
<1> QED BY <1>5, <1>6, <1>7, <1>8 DEF OverlayIndInv

\* hide adds a rule above everything.
LEMMA HidePreserves ==
  ASSUME OverlayIndInv, NEW on_fs \in HidePoints, hide(on_fs)
  PROVE  OverlayIndInv'
<1> DEFINE c == [mount |-> FALSE, path |-> on_fs]
           new == hide_of(c, next_layer_id)
<1>0. next_layer_id \in 1..MaxOrder /\ on_fs \in Paths
  BY IndFacts DEF hide
<1>1. /\ hides' = hides \cup {new} /\ layers' = layers
      /\ next_layer_id' = next_layer_id + 1 /\ next_hide_id' = next_layer_id + 1
      /\ stack' = Append(stack, c) /\ c \in Hiding
  BY <1>0, IndFacts DEF hide, hide_of, Hiding
<1>2. new \in Hide /\ new.id = next_layer_id
  BY <1>0 DEF Hide, hide_of
<1>3. /\ \A e \in layers \cup hides : e.id \in 1..MaxOrder /\ e.id < next_layer_id
      /\ \A e, f \in layers \cup hides : e.id = f.id => e = f
      /\ layers \subseteq Layer /\ hides \subseteq Hide
      /\ \A l \in layers : l.on_fs \in MountPoints
  BY IndFacts
<1>4. /\ \A e \in (layers \cup hides)' : e.id \in 1..MaxOrder /\ e.id < next_layer_id'
      /\ \A e, f \in (layers \cup hides)' : e.id = f.id => e = f
  <2>1. (layers \cup hides)' = (layers \cup hides) \cup {new}
    BY <1>1
  <2>2. \A e \in layers \cup hides : e.id # new.id
    BY <1>0, <1>2, <1>3
  <2>3. \A e \in layers \cup hides : e.id < next_layer_id + 1
    BY <1>0, <1>3
  <2>4. new.id < next_layer_id + 1 /\ new.id \in 1..MaxOrder
    BY <1>0, <1>2
  <2>5. \A e \in (layers \cup hides)' : e.id \in 1..MaxOrder /\ e.id < next_layer_id'
    BY <1>1, <1>3, <2>1, <2>3, <2>4
  <2>6. \A e, f \in (layers \cup hides)' : e.id = f.id => e = f
    BY <1>3, <2>1, <2>2
  <2> HIDE DEF new
  <2> QED BY <2>5, <2>6
<1>5. stack' \in Seq(Mounted \cup Hiding)
  BY <1>1, IndFacts
<1>6. \E ids \in [DOMAIN stack' -> 1..MaxOrder] : StackIds(ids)'
  BY <1>0, <1>1, NewEntryIds
<1>7. OverlayTypeOK'
  BY <1>1, <1>2, <1>3, <1>4 DEF OverlayTypeOK
<1>8. EntriesBounded'
  <2>1. next_layer_id' \in 1..MaxOrder + 1
    BY <1>0, <1>1
  <2>2. \A l \in layers' : l.on_fs \in MountPoints
    BY <1>1, <1>2, <1>3
  <2> QED BY <1>4, <2>1, <2>2 DEF EntriesBounded
<1> QED BY <1>5, <1>6, <1>7, <1>8 DEF OverlayIndInv

\* A step that changes none of these variables keeps the invariant.
LEMMA UnchangedPreserves ==
  ASSUME OverlayIndInv, UNCHANGED overlayVars
  PROVE  OverlayIndInv'
<1>1. PICK ids \in [DOMAIN stack -> 1..MaxOrder] : StackIds(ids)
  BY DEF OverlayIndInv
<1>2. StackIds(ids)'
  BY <1>1 DEF StackIds, layer_of, hide_of
<1>3. OverlayTypeOK' /\ EntriesBounded'
  BY DEF OverlayIndInv, OverlayTypeOK, EntriesBounded
<1>4. stack' \in Seq(Mounted \cup Hiding) /\ ids \in [DOMAIN stack' -> 1..MaxOrder]
  BY DEF OverlayIndInv
<1> QED BY <1>2, <1>3, <1>4 DEF OverlayIndInv

\* umount removes the newest layer at the path, which is the one of the last mount
\* there: the others keep their order.
LEMMA UmountPreserves ==
  ASSUME OverlayIndInv, NEW on_fs \in MountPoints, umount_layer(on_fs)
  PROVE  OverlayIndInv'
<1>1. CASE UNCHANGED overlayVars
  BY <1>1, UnchangedPreserves
<1>2. CASE layers_at(on_fs) # {} /\ ~UNCHANGED overlayVars
  <2> DEFINE L == Len(stack)
             old == newest(layers_at(on_fs))
  <2>1. PICK ids \in [DOMAIN stack -> 1..MaxOrder] : StackIds(ids)
    BY DEF OverlayIndInv
  <2>2. PICK k : k = last_mount_at(on_fs)
    OBVIOUS
  <2>3. k \in DOMAIN stack /\ stack[k].mount /\ old = layer_of(stack[k], ids[k])
    BY <1>2, <2>1, <2>2, LastMountIsNewest
  <2>4. /\ layers' = layers \ {old} /\ hides' = hides /\ stack' = RemoveAt(stack, k)
        /\ next_layer_id' = next_layer_id /\ next_hide_id' = next_hide_id
    BY <1>2, <2>2 DEF umount_layer
  <2>5. L \in Nat /\ DOMAIN stack = 1..L /\ k \in 1..L
    BY <2>3, IndFacts
  <2>6. /\ stack' \in Seq(Mounted \cup Hiding) /\ DOMAIN stack' = 1..L - 1
        /\ \A n \in 1..L - 1 : stack'[n] = IF n < k THEN stack[n] ELSE stack[n + 1]
    <3>1. PICK T : T = Mounted \cup Hiding
      OBVIOUS
    <3>2. stack \in Seq(T) /\ k \in DOMAIN stack
      BY <2>3, <3>1, IndFacts
    <3>3. /\ RemoveAt(stack, k) \in Seq(T)
          /\ DOMAIN RemoveAt(stack, k) = 1..L - 1
          /\ \A n \in 1..L - 1 : RemoveAt(stack, k)[n] = IF n < k THEN stack[n] ELSE stack[n + 1]
      BY <3>2, RemoveAtFacts, ZenonT(60)
    <3> QED BY <2>4, <3>1, <3>3
  <2>7. OverlayTypeOK' /\ EntriesBounded'
    BY <2>4, IndFacts DEF OverlayTypeOK, EntriesBounded
  <2>8. PICK rest \in [1..L - 1 -> 1..MaxOrder] :
           \A n \in 1..L - 1 : rest[n] = IF n < k THEN ids[n] ELSE ids[n + 1]
    <3> DEFINE g == [n \in 1..L - 1 |-> IF n < k THEN ids[n] ELSE ids[n + 1]]
    <3>1. g \in [1..L - 1 -> 1..MaxOrder]
      BY <2>5
    <3> QED BY <3>1
  <2> DEFINE at(n) == IF n < k THEN n ELSE n + 1
  <2>9. ASSUME NEW n \in 1..L - 1
        PROVE  at(n) \in 1..L /\ at(n) # k /\ stack'[n] = stack[at(n)] /\ rest[n] = ids[at(n)]
    BY <2>5, <2>6, <2>8
  <2>10. ASSUME NEW m \in 1..L - 1, NEW n \in 1..L - 1, m < n
         PROVE  at(m) < at(n)
    BY <2>5, <2>10
  <2>11. ASSUME NEW m \in 1..L, m # k
         PROVE  \E n \in 1..L - 1 : at(n) = m
    <3>1. CASE m < k
      <4>1. m \in 1..L - 1 /\ at(m) = m
        BY <2>5, <3>1
      <4> QED BY <4>1
    <3>2. CASE m > k
      <4>1. m - 1 \in 1..L - 1 /\ at(m - 1) = m
        BY <2>5, <3>2
      <4> QED BY <4>1
    <3> QED BY <2>5, <2>11, <3>1, <3>2
  <2> HIDE DEF at
  <2>12. \A m, n \in DOMAIN stack' : m < n => rest[m] < rest[n]
    <3>1. SUFFICES ASSUME NEW m \in 1..L - 1, NEW n \in 1..L - 1, m < n
                   PROVE  rest[m] < rest[n]
      BY <2>6
    <3>2. at(m) \in DOMAIN stack /\ at(n) \in DOMAIN stack /\ at(m) < at(n)
          /\ rest[m] = ids[at(m)] /\ rest[n] = ids[at(n)]
      BY <2>5, <2>9, <2>10, <3>1
    <3> QED BY <2>1, <3>2 DEF StackIds
  <2>13. ASSUME NEW n \in DOMAIN stack'
         PROVE  IF stack'[n].mount THEN layer_of(stack'[n], rest[n]) \in layers'
                                   ELSE hide_of(stack'[n], rest[n]) \in hides'
    <3>0. PICK q \in 1..L : q # k /\ stack'[n] = stack[q] /\ rest[n] = ids[q]
      BY <2>6, <2>9
    <3>1. ids[q] # ids[k]
      <4>1. q < k \/ k < q
        BY <2>5, <3>0
      <4>2. ids[q] < ids[k] \/ ids[k] < ids[q]
        BY <2>1, <2>5, <4>1 DEF StackIds
      <4>3. ids[q] \in 1..MaxOrder /\ ids[k] \in 1..MaxOrder
        BY <2>1, <2>5
      <4> QED BY <4>2, <4>3
    <3>2. layer_of(stack[q], ids[q]) # old
      BY <2>3, <3>1 DEF layer_of
    <3>3. IF stack[q].mount THEN layer_of(stack[q], ids[q]) \in layers
                            ELSE hide_of(stack[q], ids[q]) \in hides
      BY <2>1, <2>5 DEF StackIds
    <3> QED BY <2>4, <3>0, <3>2, <3>3
  <2>14. ASSUME NEW l \in layers'
         PROVE  \E n \in DOMAIN stack' : stack'[n].mount /\ layer_of(stack'[n], rest[n]) = l
    <3>1. PICK m \in DOMAIN stack : stack[m].mount /\ layer_of(stack[m], ids[m]) = l
      BY <2>1, <2>4 DEF StackIds
    <3>2. m # k
      BY <2>3, <2>4, <3>1
    <3>3. PICK n \in 1..L - 1 : at(n) = m
      BY <2>5, <2>11, <3>2
    <3>4. stack'[n] = stack[m] /\ rest[n] = ids[m] /\ n \in DOMAIN stack'
      BY <2>6, <2>9, <3>3
    <3> QED BY <3>1, <3>4
  <2>15. ASSUME NEW h \in hides'
         PROVE  \E n \in DOMAIN stack' : ~stack'[n].mount /\ hide_of(stack'[n], rest[n]) = h
    <3>1. PICK m \in DOMAIN stack : ~stack[m].mount /\ hide_of(stack[m], ids[m]) = h
      BY <2>1, <2>4 DEF StackIds
    <3>2. m # k
      BY <2>3, <3>1
    <3>3. PICK n \in 1..L - 1 : at(n) = m
      BY <2>5, <2>11, <3>2
    <3>4. stack'[n] = stack[m] /\ rest[n] = ids[m] /\ n \in DOMAIN stack'
      BY <2>6, <2>9, <3>3
    <3> QED BY <3>1, <3>4
  <2>16. StackIds(rest)'
    BY <2>12, <2>13, <2>14, <2>15 DEF StackIds, layer_of, hide_of
  <2>17. rest \in [DOMAIN stack' -> 1..MaxOrder]
    BY <2>6
  <2> QED BY <2>6, <2>7, <2>16, <2>17 DEF OverlayIndInv
<1> QED BY <1>1, <1>2 DEF umount_layer

\* At the start there is no entry and no command.
LEMMA OverlayInitHolds ==
  ASSUME OverlayInit
  PROVE  OverlayIndInv
<1>1. layers = {} /\ hides = {} /\ next_layer_id = 1 /\ next_hide_id = 1 /\ stack = <<>>
  BY DEF OverlayInit
<1>2. OverlayTypeOK /\ EntriesBounded
  BY <1>1 DEF OverlayTypeOK, EntriesBounded
<1>3. stack \in Seq(Mounted \cup Hiding) /\ DOMAIN stack = {}
  BY <1>1
<1>4. PICK ids \in [DOMAIN stack -> 1..MaxOrder] : TRUE
  BY <1>3
<1>5. StackIds(ids)
  BY <1>1, <1>3 DEF StackIds
<1> QED BY <1>2, <1>3, <1>4, <1>5 DEF OverlayIndInv

\* Every command, and every step that leaves the namespace alone, keeps the
\* invariant.
LEMMA OverlayNextPreserves ==
  ASSUME OverlayIndInv, [OverlayNext]_overlayVars
  PROVE  OverlayIndInv'
<1>1. CASE OverlayNext
  BY <1>1, MountPreserves, UmountPreserves, HidePreserves DEF OverlayNext
<1>2. CASE UNCHANGED overlayVars
  BY <1>2, UnchangedPreserves
<1> QED BY <1>1, <1>2

\* Whatever the commands are, the entries are those of the commands in force, in
\* their order (Sandbox::next_overlay_order, mount_layer, umount_layer, hide).
THEOREM OverlayInvariance == OverlaySpec => []OverlayIndInv
<1>1. OverlayInit => OverlayIndInv
  BY OverlayInitHolds
<1>2. OverlayIndInv /\ [OverlayNext]_overlayVars => OverlayIndInv'
  BY OverlayNextPreserves
<1> QED BY <1>1, <1>2, PTL DEF OverlaySpec

\* Layers and hide rules carry distinct ids below the counters.
THEOREM OverlayTypeCorrect == OverlaySpec => []OverlayTypeOK
<1>1. OverlayIndInv => OverlayTypeOK
  BY DEF OverlayIndInv
<1> QED BY <1>1, OverlayInvariance, PTL

-----------------------------------------------------------------------------
(* Resolution. *)

\* What lies under a mapping is the mapping's path followed by the rest.
LEMMA PrefixFacts ==
  ASSUME NEW p \in Paths, NEW b \in Paths, starts_with(p, b)
  PROVE  p = b \o strip_prefix(p, b)
<1>1. p \in Seq(STRING) /\ b \in Seq(STRING)
  OBVIOUS
<1>2. Len(b) \in Nat /\ Len(p) \in Nat /\ Len(b) <= Len(p)
      /\ SubSeq(b, 1, Len(b)) = SubSeq(p, 1, Len(b))
  BY <1>1 DEF starts_with, IsPrefix
<1>3. ASSUME NEW n \in 1..Len(b)
      PROVE  b[n] = p[n]
  <2>1. SubSeq(b, 1, Len(b))[n] = b[n] /\ SubSeq(p, 1, Len(b))[n] = p[n]
    BY <1>1, <1>2
  <2> QED BY <1>2, <2>1
<1> DEFINE r == strip_prefix(p, b)
<1>4. r \in Seq(STRING) /\ Len(r) = Len(p) - Len(b)
      /\ \A n \in 1..Len(p) - Len(b) : r[n] = p[Len(b) + n]
  BY <1>1, <1>2 DEF strip_prefix
<1> HIDE DEF r
<1>5. b \o r \in Seq(STRING) /\ Len(b \o r) = Len(p)
  BY <1>1, <1>2, <1>4
<1>6. ASSUME NEW n \in 1..Len(p)
      PROVE  (b \o r)[n] = p[n]
  <2>1. (b \o r)[n] = IF n <= Len(b) THEN b[n] ELSE r[n - Len(b)]
    BY <1>1, <1>2, <1>4
  <2>2. CASE n <= Len(b)
    BY <1>2, <1>3, <2>1, <2>2
  <2>3. CASE ~(n <= Len(b))
    <3>1. n - Len(b) \in 1..Len(p) - Len(b) /\ Len(b) + (n - Len(b)) = n
      BY <1>2, <2>3
    <3> QED BY <1>4, <2>1, <2>3, <3>1
  <2> QED BY <2>2, <2>3
<1>7. b \o r = p
  BY <1>1, <1>5, <1>6, SeqEqual
<1> QED BY <1>7 DEF r

\* A path starts with itself.
LEMMA StartsWithItself ==
  ASSUME NEW p \in Paths
  PROVE  starts_with(p, p)
BY DEF starts_with, IsPrefix

\* The ids are in the order of the commands.
LEMMA IdsOrder ==
  ASSUME OverlayIndInv, NEW ids \in [DOMAIN stack -> 1..MaxOrder], StackIds(ids),
         NEW m \in DOMAIN stack, NEW n \in DOMAIN stack
  PROVE  (ids[m] < ids[n] <=> m < n) /\ (ids[m] = ids[n] => m = n)
<1>1. m \in Nat /\ n \in Nat
  BY IndFacts
<1>2. ids[m] \in Nat /\ ids[n] \in Nat
  OBVIOUS
<1>3. (m < n => ids[m] < ids[n]) /\ (n < m => ids[n] < ids[m])
  BY DEF StackIds
<1> QED BY <1>1, <1>2, <1>3

\* The layers and hide rules that cover a path are those of the commands that do.
LEMMA CoveringEntries ==
  ASSUME OverlayIndInv, NEW ids \in [DOMAIN stack -> 1..MaxOrder], StackIds(ids),
         NEW p \in Paths
  PROVE  /\ \A n \in DOMAIN stack : starts_with(p, stack[n].path) =>
              /\ stack[n].mount => layer_of(stack[n], ids[n]) \in covering_layers(p)
              /\ ~stack[n].mount => hide_of(stack[n], ids[n]) \in covering_hides(p)
         /\ \A l \in covering_layers(p) : \E n \in DOMAIN stack :
              starts_with(p, stack[n].path) /\ stack[n].mount /\ layer_of(stack[n], ids[n]) = l
         /\ \A h \in covering_hides(p) : \E n \in DOMAIN stack :
              starts_with(p, stack[n].path) /\ ~stack[n].mount /\ hide_of(stack[n], ids[n]) = h
         /\ \A l \in covering_layers(p) : l.id \in 1..MaxOrder
         /\ \A h \in covering_hides(p) : h.id \in 1..MaxOrder
<1>1. \A n \in DOMAIN stack : stack[n].mount \in BOOLEAN
  BY IndFacts
<1>2. ASSUME NEW n \in DOMAIN stack
      PROVE  /\ layer_of(stack[n], ids[n]).on_fs = stack[n].path
             /\ hide_of(stack[n], ids[n]).path = stack[n].path
  BY DEF layer_of, hide_of
<1>3. \A n \in DOMAIN stack : starts_with(p, stack[n].path) =>
              /\ stack[n].mount => layer_of(stack[n], ids[n]) \in covering_layers(p)
              /\ ~stack[n].mount => hide_of(stack[n], ids[n]) \in covering_hides(p)
  BY <1>1, <1>2 DEF StackIds, covering_layers, covering_hides
<1>4. ASSUME NEW l \in covering_layers(p)
      PROVE  \E n \in DOMAIN stack :
               starts_with(p, stack[n].path) /\ stack[n].mount /\ layer_of(stack[n], ids[n]) = l
  <2>1. l \in layers /\ starts_with(p, l.on_fs)
    BY DEF covering_layers
  <2>2. PICK n \in DOMAIN stack : stack[n].mount /\ layer_of(stack[n], ids[n]) = l
    BY <2>1 DEF StackIds
  <2> QED BY <1>2, <2>1, <2>2
<1>5. ASSUME NEW h \in covering_hides(p)
      PROVE  \E n \in DOMAIN stack :
               starts_with(p, stack[n].path) /\ ~stack[n].mount /\ hide_of(stack[n], ids[n]) = h
  <2>1. h \in hides /\ starts_with(p, h.path)
    BY DEF covering_hides
  <2>2. PICK n \in DOMAIN stack : ~stack[n].mount /\ hide_of(stack[n], ids[n]) = h
    BY <2>1 DEF StackIds
  <2> QED BY <1>2, <2>1, <2>2
<1>6. (\A l \in covering_layers(p) : l.id \in 1..MaxOrder)
      /\ \A h \in covering_hides(p) : h.id \in 1..MaxOrder
  BY IndFacts DEF covering_layers, covering_hides
<1> QED BY <1>3, <1>4, <1>5, <1>6

\* No command covers the path: it is a directory on the way to a mapping or missing.
LEMMA UncoveredResolves ==
  ASSUME OverlayIndInv, NEW p \in Paths \ {<<>>},
         \A n \in DOMAIN stack : ~starts_with(p, stack[n].path)
  PROVE  resolve_overlay(p).tag =
           IF \E m \in DOMAIN stack : m > 0 /\ stack[m].mount /\ starts_with(stack[m].path, p)
           THEN "virtual" ELSE "missing"
<1>1. PICK ids \in [DOMAIN stack -> 1..MaxOrder] : StackIds(ids)
  BY DEF OverlayIndInv
<1>2. covering_layers(p) = {} /\ covering_hides(p) = {}
  BY <1>1, CoveringEntries
<1>3. \A m \in DOMAIN stack : m > 0
  BY IndFacts
<1>4. ASSUME NEW m \in DOMAIN stack, stack[m].mount, starts_with(stack[m].path, p)
      PROVE  descendant_layers(p) # {}
  <2>1. layer_of(stack[m], ids[m]) \in layers /\ layer_of(stack[m], ids[m]).on_fs = stack[m].path
    BY <1>1, <1>4 DEF StackIds, layer_of
  <2>2. stack[m].path # p
    BY StartsWithItself
  <2> QED BY <1>4, <2>1, <2>2 DEF descendant_layers
<1>5. ASSUME NEW l \in descendant_layers(p)
      PROVE  \E m \in DOMAIN stack : stack[m].mount /\ starts_with(stack[m].path, p)
  <2>1. l \in layers /\ starts_with(l.on_fs, p)
    BY DEF descendant_layers
  <2>2. PICK m \in DOMAIN stack : stack[m].mount /\ layer_of(stack[m], ids[m]) = l
    BY <1>1, <2>1 DEF StackIds
  <2>3. l.on_fs = stack[m].path
    BY <2>2 DEF layer_of
  <2> QED BY <2>1, <2>2, <2>3
<1>6. resolve_overlay(p) = IF descendant_layers(p) # {} THEN VirtualDir ELSE Missing
  BY <1>2 DEF resolve_overlay, covered_by_hide
<1> QED BY <1>3, <1>4, <1>5, <1>6 DEF VirtualDir, Missing

\* The last command that covers the path is a mount: its host path shows.
LEMMA MountedResolves ==
  ASSUME OverlayIndInv, NEW p \in Paths \ {<<>>}, NEW k \in DOMAIN stack,
         starts_with(p, stack[k].path), stack[k].mount,
         \A n \in DOMAIN stack : starts_with(p, stack[n].path) => n <= k
  PROVE  /\ resolve_overlay(p).tag = "real"
         /\ resolve_overlay(p).local = stack[k].local
         /\ p = stack[k].path \o resolve_overlay(p).rest
<1>1. PICK ids \in [DOMAIN stack -> 1..MaxOrder] : StackIds(ids)
  BY DEF OverlayIndInv
<1> DEFINE top == layer_of(stack[k], ids[k])
<1>2. top \in covering_layers(p) /\ top.id = ids[k] /\ top.on_fs = stack[k].path
      /\ top.local = stack[k].local
  BY <1>1, CoveringEntries DEF layer_of
<1>3. k \in Nat /\ DOMAIN stack \subseteq Nat
  BY IndFacts
<1>4. newest(covering_layers(p)) = top
  <2> DEFINE new == newest(covering_layers(p))
  <2>1. new \in covering_layers(p) /\ \A f \in covering_layers(p) : f.id <= new.id
    <3>1. \A l \in covering_layers(p) : l.id \in 1..MaxOrder
      BY <1>1, CoveringEntries
    <3>2. covering_layers(p) # {}
      BY <1>2
    <3> QED BY <3>1, <3>2, NewestIsNewest
  <2>2. PICK n \in DOMAIN stack : starts_with(p, stack[n].path) /\ stack[n].mount
                                  /\ layer_of(stack[n], ids[n]) = new
    BY <1>1, <2>1, CoveringEntries
  <2>3. new.id = ids[n] /\ n <= k
    BY <2>2 DEF layer_of
  <2>4. ids[k] <= ids[n] /\ ids[k] \in Nat /\ ids[n] \in Nat
    BY <1>2, <2>1, <2>3
  <2>5. ~(n < k)
    <3>1. n < k <=> ids[n] < ids[k]
      BY <1>1, IdsOrder
    <3> QED BY <2>4, <3>1
  <2>6. n = k
    BY <1>3, <2>3, <2>5
  <2> QED BY <2>2, <2>6
<1>5. ~covered_by_hide(p)
  <2>1. SUFFICES ASSUME covering_hides(p) # {} PROVE ~(top.id <= newest(covering_hides(p)).id)
    BY <1>2 DEF covered_by_hide
  <2> DEFINE new == newest(covering_hides(p))
  <2>2. new \in covering_hides(p)
    <3>1. \A h \in covering_hides(p) : h.id \in 1..MaxOrder
      BY <1>1, CoveringEntries
    <3> QED BY <2>1, <3>1, NewestIsNewest
  <2>3. PICK n \in DOMAIN stack : starts_with(p, stack[n].path) /\ ~stack[n].mount
                                  /\ hide_of(stack[n], ids[n]) = new
    BY <1>1, <2>2, CoveringEntries
  <2>4. new.id = ids[n] /\ n <= k /\ n # k
    BY <2>3 DEF hide_of
  <2>5. n < k
    BY <1>3, <2>4
  <2>6. ids[n] < ids[k] /\ ids[n] \in Nat /\ ids[k] \in Nat
    BY <1>1, <2>5, IdsOrder
  <2> QED BY <1>2, <2>4, <2>6
<1>6. resolve_overlay(p) = Real(p, top)
  BY <1>2, <1>4, <1>5 DEF resolve_overlay
<1>7. stack[k].path \in Paths
  BY IndFacts
<1>8. p = stack[k].path \o strip_prefix(p, stack[k].path)
  BY <1>7, PrefixFacts
<1> HIDE DEF top
<1>9. /\ resolve_overlay(p).tag = "real" /\ resolve_overlay(p).local = top.local
      /\ resolve_overlay(p).rest = strip_prefix(p, top.on_fs)
  BY <1>6 DEF Real
<1> QED BY <1>2, <1>8, <1>9

\* The last command that covers the path is a hide: it is hidden, unless a later
\* mount lies below it.
LEMMA HiddenResolves ==
  ASSUME OverlayIndInv, NEW p \in Paths \ {<<>>}, NEW k \in DOMAIN stack,
         starts_with(p, stack[k].path), ~stack[k].mount,
         \A n \in DOMAIN stack : starts_with(p, stack[n].path) => n <= k
  PROVE  resolve_overlay(p).tag =
           IF \E m \in DOMAIN stack : m > k /\ stack[m].mount /\ starts_with(stack[m].path, p)
           THEN "virtual" ELSE "hidden"
<1>1. PICK ids \in [DOMAIN stack -> 1..MaxOrder] : StackIds(ids)
  BY DEF OverlayIndInv
<1> DEFINE top == hide_of(stack[k], ids[k])
<1>2. top \in covering_hides(p) /\ top.id = ids[k]
  BY <1>1, CoveringEntries DEF hide_of
<1>3. k \in Nat /\ DOMAIN stack \subseteq Nat
  BY IndFacts
<1>4. newest(covering_hides(p)).id = ids[k]
  <2> DEFINE new == newest(covering_hides(p))
  <2>1. new \in covering_hides(p) /\ \A f \in covering_hides(p) : f.id <= new.id
    <3>1. \A l \in covering_hides(p) : l.id \in 1..MaxOrder
      BY <1>1, CoveringEntries
    <3>2. covering_hides(p) # {}
      BY <1>2
    <3> QED BY <3>1, <3>2, NewestIsNewest
  <2>2. PICK n \in DOMAIN stack : starts_with(p, stack[n].path) /\ ~stack[n].mount
                                  /\ hide_of(stack[n], ids[n]) = new
    BY <1>1, <2>1, CoveringEntries
  <2>3. new.id = ids[n] /\ n <= k
    BY <2>2 DEF hide_of
  <2>4. ids[k] <= ids[n] /\ ids[k] \in Nat /\ ids[n] \in Nat
    BY <1>2, <2>1, <2>3
  <2>5. ~(n < k)
    <3>1. n < k <=> ids[n] < ids[k]
      BY <1>1, IdsOrder
    <3> QED BY <2>4, <3>1
  <2>6. n = k
    BY <1>3, <2>3, <2>5
  <2> QED BY <2>3, <2>6
<1>5. covered_by_hide(p)
  <2>1. SUFFICES ASSUME NEW l \in covering_layers(p) PROVE l.id <= ids[k]
    BY <1>2, <1>4 DEF covered_by_hide
  <2>2. PICK n \in DOMAIN stack : starts_with(p, stack[n].path) /\ stack[n].mount
                                  /\ layer_of(stack[n], ids[n]) = l
    BY <1>1, CoveringEntries
  <2>3. l.id = ids[n] /\ n <= k /\ n # k
    BY <2>2 DEF layer_of
  <2>4. n < k
    BY <1>3, <2>3
  <2>5. ids[n] < ids[k] /\ ids[n] \in Nat /\ ids[k] \in Nat
    BY <1>1, <2>4, IdsOrder
  <2> QED BY <2>3, <2>5
<1>6. ASSUME NEW m \in DOMAIN stack, m > k, stack[m].mount, starts_with(stack[m].path, p)
      PROVE  \E l \in descendant_layers(p) : l.id > newest(covering_hides(p)).id
  <2> DEFINE l == layer_of(stack[m], ids[m])
  <2>1. l \in layers /\ l.on_fs = stack[m].path /\ l.id = ids[m]
    BY <1>1, <1>6 DEF StackIds, layer_of
  <2>2. stack[m].path # p
    BY <1>3, <1>6, StartsWithItself
  <2>3. ids[k] < ids[m]
    BY <1>1, <1>3, <1>6, IdsOrder
  <2>4. l \in descendant_layers(p)
    BY <1>6, <2>1, <2>2 DEF descendant_layers
  <2> QED BY <1>4, <2>1, <2>3, <2>4
<1>7. ASSUME NEW l \in descendant_layers(p), l.id > newest(covering_hides(p)).id
      PROVE  \E m \in DOMAIN stack : m > k /\ stack[m].mount /\ starts_with(stack[m].path, p)
  <2>1. l \in layers /\ starts_with(l.on_fs, p)
    BY DEF descendant_layers
  <2>2. PICK m \in DOMAIN stack : stack[m].mount /\ layer_of(stack[m], ids[m]) = l
    BY <1>1, <2>1 DEF StackIds
  <2>3. l.on_fs = stack[m].path /\ l.id = ids[m]
    BY <2>2 DEF layer_of
  <2>4. ids[k] < ids[m]
    BY <1>4, <1>7, <2>3
  <2>5. m > k
    BY <1>1, <1>3, <2>4, IdsOrder
  <2> QED BY <2>1, <2>2, <2>3, <2>5
<1>8. resolve_overlay(p) = IF \E l \in descendant_layers(p) : l.id > newest(covering_hides(p)).id
                          THEN VirtualDir ELSE Hidden
  BY <1>5 DEF resolve_overlay
<1> QED BY <1>6, <1>7, <1>8 DEF VirtualDir, Hidden

\* ADR 0005: whatever the commands, a path resolves to what the last command in
\* force that covers it says (newest_covering_entry and resolve_overlay).
THEOREM ResolutionCorrect == OverlaySpec => []ResolutionFollowsStack
<1>1. ASSUME OverlayIndInv PROVE ResolutionFollowsStack
  <2> SUFFICES ASSUME NEW p \in Paths \ {<<>>}
               PROVE  LET covering == {n \in DOMAIN stack : starts_with(p, stack[n].path)}
                          last == CHOOSE n \in covering : \A m \in covering : m <= n
                          below(n) == \E m \in DOMAIN stack :
                                         /\ m > n
                                         /\ stack[m].mount
                                         /\ starts_with(stack[m].path, p)
                          r == resolve_overlay(p)
                      IN  IF covering = {}
                          THEN r.tag = IF below(0) THEN "virtual" ELSE "missing"
                          ELSE IF stack[last].mount
                               THEN /\ r.tag = "real"
                                    /\ r.local = stack[last].local
                                    /\ p = stack[last].path \o r.rest
                               ELSE r.tag = IF below(last) THEN "virtual" ELSE "hidden"
    BY DEF ResolutionFollowsStack
  <2> DEFINE covering == {n \in DOMAIN stack : starts_with(p, stack[n].path)}
             last == CHOOSE n \in covering : \A m \in covering : m <= n
  <2>1. CASE covering = {}
    <3>1. \A n \in DOMAIN stack : ~starts_with(p, stack[n].path)
      BY <2>1
    <3> QED BY <1>1, <2>1, <3>1, UncoveredResolves
  <2>2. CASE covering # {}
    <3>1. last \in covering /\ \A m \in covering : m <= last
      <4>1. Len(stack) \in Nat /\ covering \in SUBSET (0..Len(stack))
        BY <1>1, IndFacts
      <4>2. \E n \in covering : \A m \in covering : m <= n
        BY <2>2, <4>1, GreatestOf
      <4> QED BY <4>2
    <3> HIDE DEF last
    <3>2. last \in DOMAIN stack /\ starts_with(p, stack[last].path)
          /\ \A n \in DOMAIN stack : starts_with(p, stack[n].path) => n <= last
      BY <3>1
    <3>3. CASE stack[last].mount
      BY <1>1, <2>2, <3>2, <3>3, MountedResolves DEF last
    <3>4. CASE ~stack[last].mount
      BY <1>1, <2>2, <3>2, <3>4, HiddenResolves DEF last
    <3> QED BY <3>3, <3>4
  <2> QED BY <2>1, <2>2
<1> QED BY <1>1, OverlayInvariance, PTL
-----------------------------------------------------------------------------
(* Listing. *)

\* The part of a sequence after its place a and up to its place e.
LEMMA PartOf ==
  ASSUME NEW s \in Seq(STRING), NEW a \in Nat, NEW e \in Nat, a <= e, e <= Len(s)
  PROVE  /\ SubSeq(s, a + 1, e) \in Seq(STRING) /\ Len(SubSeq(s, a + 1, e)) = e - a
         /\ \A n \in 1..e - a : SubSeq(s, a + 1, e)[n] = s[a + n]
<1>1. Len(s) \in Nat /\ \A n \in 1..Len(s) : s[n] \in STRING
  OBVIOUS
<1>2. \A n \in a + 1..e : s[n] \in STRING
  BY <1>1
<1>3. a + 1 \in Int /\ e \in Int
  OBVIOUS
<1> DEFINE t == SubSeq(s, a + 1, e)
<1>4. /\ t \in Seq(STRING) /\ Len(t) = IF a + 1 <= e THEN e - (a + 1) + 1 ELSE 0
      /\ \A n \in 1..e - (a + 1) + 1 : t[n] = s[a + 1 + n - 1]
  BY <1>2, <1>3, SubSeqProperties
<1> HIDE DEF t
<1>5. Len(t) = e - a
  BY <1>4
<1>6. ASSUME NEW n \in 1..e - a PROVE t[n] = s[a + n]
  <2>1. n \in 1..e - (a + 1) + 1 /\ a + 1 + n - 1 = a + n
    OBVIOUS
  <2>2. t[n] = s[a + 1 + n - 1]
    BY <1>4, <2>1
  <2> QED BY <2>1, <2>2
<1> QED BY <1>4, <1>5, <1>6, Zenon DEF t

\* starts_with, component by component.
LEMMA StartsWithIff ==
  ASSUME NEW p \in Seq(STRING), NEW b \in Seq(STRING)
  PROVE  starts_with(p, b) <=> Len(b) <= Len(p) /\ \A n \in 1..Len(b) : b[n] = p[n]
<1>1. Len(b) \in Nat /\ Len(p) \in Nat
  OBVIOUS
<1>2. CASE Len(b) <= Len(p)
  <2> DEFINE s == SubSeq(b, 1, Len(b))
             t == SubSeq(p, 1, Len(b))
  <2>1. s \in Seq(STRING) /\ Len(s) = Len(b) /\ \A n \in 1..Len(b) : s[n] = b[n]
    BY <1>1
  <2>2. t \in Seq(STRING) /\ Len(t) = Len(b) /\ \A n \in 1..Len(b) : t[n] = p[n]
    BY <1>1, <1>2
  <2> HIDE DEF s, t
  <2>3. s = t <=> \A n \in 1..Len(b) : b[n] = p[n]
    <3>1. ASSUME s = t PROVE \A n \in 1..Len(b) : b[n] = p[n]
      BY <2>1, <2>2, <3>1
    <3>2. ASSUME \A n \in 1..Len(b) : b[n] = p[n] PROVE s = t
      BY <2>1, <2>2, <3>2, SeqEqual
    <3> QED BY <3>1, <3>2
  <2>4. starts_with(p, b) <=> s = t
    BY <1>2 DEF starts_with, IsPrefix, s, t
  <2> QED BY <1>2, <2>3, <2>4
<1>3. CASE ~(Len(b) <= Len(p))
  BY <1>3 DEF starts_with, IsPrefix
<1> QED BY <1>2, <1>3

\* parent drops the last component, and join puts it back.
LEMMA ParentFacts ==
  ASSUME NEW p \in Seq(STRING), p # <<>>
  PROVE  /\ Len(p) \in Nat /\ Len(p) >= 1
         /\ parent(p) \in Seq(STRING) /\ Len(parent(p)) = Len(p) - 1
         /\ \A n \in 1..Len(p) - 1 : parent(p)[n] = p[n]
         /\ join(parent(p), p[Len(p)]) = p
<1>1. Len(p) \in Nat /\ Len(p) >= 1
  <2>1. Len(p) # 0
    BY EmptySeq
  <2> QED BY <2>1
<1> DEFINE d == parent(p)
           j == join(d, p[Len(p)])
<1>2. d \in Seq(STRING) /\ Len(d) = Len(p) - 1 /\ \A n \in 1..Len(p) - 1 : d[n] = p[n]
  <2>1. PICK a, e : a = 0 /\ e = Len(p) - 1
    OBVIOUS
  <2>2. a \in Nat /\ e \in Nat /\ a <= e /\ e <= Len(p)
    BY <1>1, <2>1
  <2>3. /\ SubSeq(p, a + 1, e) \in Seq(STRING) /\ Len(SubSeq(p, a + 1, e)) = e - a
        /\ \A n \in 1..e - a : SubSeq(p, a + 1, e)[n] = p[a + n]
    BY <2>2, PartOf
  <2>4. a + 1 = 1 /\ e - a = Len(p) - 1 /\ \A n \in 1..Len(p) - 1 : a + n = n
    BY <1>1, <2>1
  <2> QED BY <2>1, <2>3, <2>4 DEF parent
<1> HIDE DEF d
<1>3. p[Len(p)] \in STRING
  BY <1>1
<1>4. j \in Seq(STRING) /\ Len(j) = Len(p) /\ j[Len(p)] = p[Len(p)]
      /\ \A n \in 1..Len(p) - 1 : j[n] = d[n]
  BY <1>1, <1>2, <1>3 DEF join
<1> HIDE DEF j
<1>5. \A n \in 1..Len(p) : j[n] = p[n]
  <2> TAKE n \in 1..Len(p)
  <2>1. n = Len(p) \/ n \in 1..Len(p) - 1
    BY <1>1
  <2> QED BY <1>2, <1>4, <2>1
<1>6. j = p
  BY <1>4, <1>5, SeqEqual
<1> QED BY <1>1, <1>2, <1>6 DEF d, j

\* The first component of a path below dir leads towards it.
LEMMA ChildFacts ==
  ASSUME NEW dir \in Seq(STRING), NEW q \in Seq(STRING), starts_with(q, dir), q # dir
  PROVE  /\ join(dir, q[Len(dir) + 1]) \in Seq(STRING)
         /\ join(dir, q[Len(dir) + 1]) # <<>>
         /\ starts_with(q, join(dir, q[Len(dir) + 1]))
<1>1. Len(dir) \in Nat /\ Len(q) \in Nat /\ Len(dir) <= Len(q)
      /\ \A n \in 1..Len(dir) : dir[n] = q[n]
  BY StartsWithIff
<1>2. Len(dir) < Len(q)
  <2>1. Len(dir) # Len(q)
    BY <1>1, SeqEqual
  <2> QED BY <1>1, <2>1
<1> DEFINE j == join(dir, q[Len(dir) + 1])
<1>3. q[Len(dir) + 1] \in STRING
  BY <1>1, <1>2
<1>4. j \in Seq(STRING) /\ Len(j) = Len(dir) + 1 /\ j[Len(dir) + 1] = q[Len(dir) + 1]
      /\ \A n \in 1..Len(dir) : j[n] = dir[n]
  BY <1>1, <1>3 DEF join
<1> HIDE DEF j
<1>5. \A n \in 1..Len(j) : j[n] = q[n]
  <2> TAKE n \in 1..Len(j)
  <2>1. n = Len(dir) + 1 \/ n \in 1..Len(dir)
    BY <1>1, <1>4
  <2> QED BY <1>1, <1>4, <2>1
<1>6. starts_with(q, j)
  <2>1. Len(j) <= Len(q)
    BY <1>1, <1>2, <1>4
  <2> QED BY <1>4, <1>5, <2>1, StartsWithIff
<1>7. j # <<>>
  BY <1>1, <1>4
<1> QED BY <1>4, <1>6, <1>7 DEF j

\* What covers a directory covers what is in it; what covers a path and is not the
\* path covers its parent; what is below a path is below its parent.
LEMMA ParentCovers ==
  ASSUME NEW p \in Seq(STRING), p # <<>>, NEW b \in Seq(STRING)
  PROVE  /\ starts_with(parent(p), b) => starts_with(p, b) /\ b # p
         /\ starts_with(p, b) /\ b # p => starts_with(parent(p), b)
         /\ starts_with(b, p) => /\ starts_with(b, parent(p)) /\ b # parent(p)
                                 /\ b[Len(parent(p)) + 1] = p[Len(p)]
<1> DEFINE d == parent(p)
<1>1. /\ Len(p) \in Nat /\ Len(p) >= 1 /\ Len(b) \in Nat
      /\ d \in Seq(STRING) /\ Len(d) = Len(p) - 1
      /\ \A n \in 1..Len(p) - 1 : d[n] = p[n]
  BY ParentFacts
<1> HIDE DEF d
<1>2. ASSUME starts_with(d, b) PROVE starts_with(p, b) /\ b # p
  <2>1. Len(b) <= Len(d) /\ \A n \in 1..Len(b) : b[n] = d[n]
    BY <1>1, <1>2, StartsWithIff
  <2>2. Len(b) < Len(p) /\ Len(b) <= Len(p)
    BY <1>1, <2>1
  <2>3. \A n \in 1..Len(b) : b[n] = p[n]
    <3> TAKE n \in 1..Len(b)
    <3>1. n \in 1..Len(p) - 1
      BY <1>1, <2>1
    <3> QED BY <1>1, <2>1, <3>1
  <2>4. b # p
    BY <1>1, <2>2
  <2> QED BY <2>2, <2>3, <2>4, StartsWithIff
<1>3. ASSUME starts_with(p, b), b # p PROVE starts_with(d, b)
  <2>1. Len(b) <= Len(p) /\ \A n \in 1..Len(b) : b[n] = p[n]
    BY <1>3, StartsWithIff
  <2>2. Len(b) # Len(p)
    BY <1>3, <2>1, SeqEqual
  <2>3. Len(b) <= Len(d) /\ \A n \in 1..Len(b) : b[n] = d[n]
    BY <1>1, <2>1, <2>2
  <2> QED BY <1>1, <2>3, StartsWithIff
<1>4. ASSUME starts_with(b, p)
      PROVE  starts_with(b, d) /\ b # d /\ b[Len(d) + 1] = p[Len(p)]
  <2>1. Len(p) <= Len(b) /\ \A n \in 1..Len(p) : p[n] = b[n]
    BY <1>4, StartsWithIff
  <2>2. Len(d) < Len(b) /\ Len(d) <= Len(b)
    BY <1>1, <2>1
  <2>3. (\A n \in 1..Len(d) : d[n] = b[n]) /\ b[Len(d) + 1] = p[Len(p)]
    BY <1>1, <2>1
  <2>4. b # d
    BY <1>1, <2>2
  <2> QED BY <1>1, <2>2, <2>3, <2>4, StartsWithIff
<1> QED BY <1>2, <1>3, <1>4 DEF d

\* The entries of a state of the invariant: paths, and ids to compare.
LEMMA EntryFacts ==
  ASSUME OverlayIndInv
  PROVE  /\ \A l \in layers : l.on_fs \in Seq(STRING) /\ l.id \in 1..MaxOrder /\ l.local \in Locals
         /\ \A h \in hides : h.path \in Seq(STRING) /\ h.id \in 1..MaxOrder
         /\ \A l, m \in layers : l.id = m.id => l = m
<1>1. \A l \in Layer : l.on_fs \in Paths /\ l.local \in Locals
  BY DEF Layer
<1>2. \A h \in Hide : h.path \in Paths
  BY DEF Hide
<1> QED BY <1>1, <1>2, IndFacts

\* A path with a mapping at or below it that is newer than every hide over it: its
\* parent resolves and lists it.
LEMMA WayToMappingListed ==
  ASSUME OverlayIndInv, NEW p \in Seq(STRING), p # <<>>, resolves(p),
         NEW l \in layers, starts_with(l.on_fs, p),
         \A h \in covering_hides(p) : h.id < l.id
  PROVE  resolves(parent(p)) /\ p[Len(p)] \in children(parent(p))
<1>1. PICK d : d = parent(p)
  OBVIOUS
<1>2. d \in Seq(STRING) /\ join(d, p[Len(p)]) = p
  BY <1>1, ParentFacts
<1>3. l \in descendant_layers(d) /\ l.on_fs[Len(d) + 1] = p[Len(p)]
  BY <1>1, EntryFacts, ParentCovers DEF descendant_layers
<1>4. \A h \in covering_hides(d) : h.id < l.id
  BY <1>1, EntryFacts, ParentCovers DEF covering_hides
<1>5. covering_hides(d) # {} => newest(covering_hides(d)).id < l.id
  <2>1. \A h \in covering_hides(d) : h.id \in 1..MaxOrder
    BY EntryFacts DEF covering_hides
  <2> QED BY <1>4, <2>1, NewestIsNewest
<1>6. l.id \in Nat /\ \A h \in covering_hides(d) : h.id \in Nat
  BY EntryFacts DEF covering_hides
<1>7. covered_by_hide(d) => \E m \in descendant_layers(d) : m.id > newest(covering_hides(d)).id
  <2>1. covering_hides(d) # {} => newest(covering_hides(d)).id \in Nat
    <3>1. \A h \in covering_hides(d) : h.id \in 1..MaxOrder
      BY EntryFacts DEF covering_hides
    <3> QED BY <3>1, NewestIsNewest
  <2> QED BY <1>3, <1>5, <1>6, <2>1 DEF covered_by_hide
<1>8. resolves(d)
  <2>1. resolve_overlay(d) = VirtualDir \/ resolve_overlay(d) = Real(d, newest(covering_layers(d)))
    BY <1>3, <1>7 DEF resolve_overlay
  <2> QED BY <2>1 DEF resolves, VirtualDir, Real
<1>9. ~is_hidden(join(d, p[Len(p)]))
  BY <1>2 DEF is_hidden, resolves
<1>10. p[Len(p)] \in children(d)
  BY <1>3, <1>9 DEF children
<1> QED BY <1>1, <1>8, <1>10

\* A path in the host directory of a mapping over its parent: the parent shows the
\* same mapping, and lists what the host directory holds.
LEMMA HostNameListed ==
  ASSUME OverlayIndInv, NEW p \in Seq(STRING), p # <<>>,
         NEW l \in covering_layers(p), l.on_fs # p,
         \A m \in covering_layers(p) : m.id <= l.id,
         ~covered_by_hide(p), resolves(p),
         strip_prefix(p, l.on_fs) \in HostPaths[l.local]
  PROVE  resolves(parent(p)) /\ p[Len(p)] \in children(parent(p))
<1>1. PICK d : d = parent(p)
  OBVIOUS
<1>2. /\ d \in Seq(STRING) /\ join(d, p[Len(p)]) = p /\ Len(p) \in Nat /\ Len(d) = Len(p) - 1
      /\ \A n \in 1..Len(p) - 1 : d[n] = p[n]
  BY <1>1, ParentFacts
<1>3. l \in layers /\ starts_with(p, l.on_fs) /\ l.on_fs \in Seq(STRING) /\ l.local \in Locals
  BY EntryFacts DEF covering_layers
<1>4. starts_with(d, l.on_fs) /\ l \in covering_layers(d)
  BY <1>1, <1>3, ParentCovers DEF covering_layers
<1>5. covering_layers(d) \subseteq covering_layers(p) /\ covering_hides(d) \subseteq covering_hides(p)
  BY <1>1, EntryFacts, ParentCovers DEF covering_layers, covering_hides
<1>6. newest(covering_layers(d)) = l
  <2>1. \A m \in covering_layers(d) : m.id \in 1..MaxOrder /\ m \in layers
    BY EntryFacts DEF covering_layers
  <2> DEFINE n == newest(covering_layers(d))
  <2>2. n \in covering_layers(d) /\ l.id <= n.id
    BY <1>4, <2>1, NewestIsNewest
  <2> HIDE DEF n
  <2>3. n.id <= l.id /\ n.id \in Nat /\ l.id \in Nat
    BY <1>4, <1>5, <2>1, <2>2
  <2>4. n.id = l.id /\ n \in layers
    BY <2>1, <2>2, <2>3
  <2> QED BY <1>3, <2>4, EntryFacts DEF n
<1>7. ~covered_by_hide(d)
  <2>1. SUFFICES ASSUME covering_hides(d) # {} PROVE ~(l.id <= newest(covering_hides(d)).id)
    BY <1>4 DEF covered_by_hide
  <2>2. \A h \in covering_hides(p) : h.id \in 1..MaxOrder
    BY EntryFacts DEF covering_hides
  <2> DEFINE g == newest(covering_hides(d))
             h == newest(covering_hides(p))
  <2>3. g \in covering_hides(d)
    BY <1>5, <2>1, <2>2, NewestIsNewest
  <2>4. h \in covering_hides(p) /\ \A e \in covering_hides(p) : e.id <= h.id
    BY <1>5, <2>1, <2>2, NewestIsNewest
  <2>5. PICK m \in covering_layers(p) : ~(m.id <= h.id)
    BY <2>4 DEF covered_by_hide
  <2> HIDE DEF g, h
  <2>6. g.id <= h.id /\ m.id <= l.id
    BY <1>5, <2>3, <2>4
  <2>7. g.id \in Nat /\ h.id \in Nat /\ m.id \in Nat /\ l.id \in Nat
    BY <1>5, <2>2, <2>3, <2>4, EntryFacts DEF covering_layers
  <2>8. ~(l.id <= g.id)
    BY <2>5, <2>6, <2>7
  <2> QED BY <2>8 DEF g
<1>8. resolve_overlay(d) = Real(d, l)
  BY <1>4, <1>6, <1>7 DEF resolve_overlay
<1>9. PICK b, q, r : b = l.on_fs /\ q = strip_prefix(p, b) /\ r = strip_prefix(d, b)
  OBVIOUS
<1>10. Len(b) \in Nat /\ Len(b) <= Len(d) /\ Len(d) \in Nat /\ Len(b) <= Len(p)
  <2>1. b \in Seq(STRING) /\ Len(b) <= Len(d)
    BY <1>2, <1>3, <1>4, <1>9, StartsWithIff
  <2> QED BY <1>2, <2>1
<1>11. /\ q \in Seq(STRING) /\ Len(q) = Len(p) - Len(b)
       /\ \A n \in 1..Len(p) - Len(b) : q[n] = p[Len(b) + n]
  <2>1. p \in Seq(STRING) /\ Len(p) \in Nat /\ Len(p) <= Len(p)
    BY <1>2, <1>10
  <2>2. q = SubSeq(p, Len(b) + 1, Len(p))
    BY <1>9 DEF strip_prefix
  <2> QED BY <1>10, <2>1, <2>2, PartOf
<1>12. /\ r \in Seq(STRING) /\ Len(r) = Len(d) - Len(b)
       /\ \A n \in 1..Len(d) - Len(b) : r[n] = d[Len(b) + n]
  <2>1. d \in Seq(STRING) /\ Len(d) \in Nat /\ Len(d) <= Len(d)
    BY <1>2, <1>10
  <2>2. r = SubSeq(d, Len(b) + 1, Len(d))
    BY <1>9 DEF strip_prefix
  <2> QED BY <1>10, <2>1, <2>2, PartOf
<1>13. Len(q) = Len(r) + 1 /\ q # <<>> /\ q[Len(r) + 1] = p[Len(p)]
  <2>1. Len(q) = Len(r) + 1 /\ Len(q) >= 1
    BY <1>2, <1>10, <1>11, <1>12
  <2>2. Len(r) + 1 \in 1..Len(p) - Len(b) /\ Len(b) + (Len(r) + 1) = Len(p)
    BY <1>2, <1>10, <1>12
  <2>3. q[Len(r) + 1] = p[Len(b) + (Len(r) + 1)]
    BY <1>11, <2>2
  <2>4. q # <<>>
    BY <2>1
  <2> QED BY <2>1, <2>2, <2>3, <2>4
<1>14. \A n \in 1..Len(r) : r[n] = q[n]
  <2> TAKE n \in 1..Len(r)
  <2>1. Len(b) + n \in 1..Len(p) - 1 /\ n \in 1..Len(p) - Len(b) /\ n \in 1..Len(d) - Len(b)
    BY <1>2, <1>10, <1>12
  <2> QED BY <1>2, <1>11, <1>12, <2>1
<1>15. starts_with(q, r)
  <2>1. Len(r) <= Len(q)
    BY <1>12, <1>13
  <2> QED BY <1>11, <1>12, <1>14, <2>1, StartsWithIff
<1>16. r \in HostDirs[l.local]
  <2>1. q \in HostPaths[l.local] \ {<<>>}
    BY <1>9, <1>13
  <2>2. Front(q) \in HostDirs[l.local]
    BY <1>3, <2>1, HostAssumption
  <2> DEFINE f == Front(q)
  <2>3. f \in Seq(STRING) /\ Len(f) = Len(r) /\ \A n \in 1..Len(r) : f[n] = q[n]
    <3>1. parent(q) \in Seq(STRING) /\ Len(parent(q)) = Len(q) - 1
          /\ \A n \in 1..Len(q) - 1 : parent(q)[n] = q[n]
      BY <1>11, <1>13, ParentFacts
    <3>2. f = parent(q)
      BY DEF Front, parent
    <3>3. Len(q) - 1 = Len(r)
      BY <1>12, <1>13
    <3> QED BY <3>1, <3>2, <3>3
  <2> HIDE DEF f
  <2>4. \A n \in 1..Len(f) : f[n] = r[n]
    BY <1>14, <2>3
  <2>5. r \in Seq(STRING) /\ f \in Seq(STRING) /\ Len(f) = Len(r)
    BY <1>12, <2>3
  <2>6. f = r
    BY <2>4, <2>5, SeqEqual, SMTT(60)
  <2> QED BY <2>2, <2>6 DEF f
<1>17. /\ resolve_overlay(d).tag = "real" /\ resolve_overlay(d).rest = r
       /\ resolve_overlay(d).local = l.local
  BY <1>8, <1>9 DEF Real
<1>18. p[Len(p)] \in {s[Len(r) + 1] : s \in {s \in HostPaths[l.local] :
                         starts_with(s, r) /\ Len(s) = Len(r) + 1}}
  BY <1>9, <1>13, <1>15
<1>19. p[Len(p)] \in children(d)
  BY <1>2, <1>16, <1>17, <1>18 DEF children
<1>20. resolves(d)
  BY <1>17 DEF resolves
<1> QED BY <1>1, <1>19, <1>20

\* Whatever lookup finds is listed by its parent, which resolves.
LEMMA FoundIsListed ==
  ASSUME OverlayIndInv, NEW p \in Seq(STRING), p # <<>>, attr_for_path(p)
  PROVE  resolves(parent(p)) /\ p[Len(p)] \in children(parent(p))
<1> DEFINE CL == covering_layers(p)
           CH == covering_hides(p)
<1>1. (\A m \in CL : m.id \in 1..MaxOrder /\ m \in layers) /\ \A h \in CH : h.id \in 1..MaxOrder
  BY EntryFacts DEF covering_layers, covering_hides
<1>2. CH # {} => newest(CH) \in CH /\ \A h \in CH : h.id <= newest(CH).id
  BY <1>1, NewestIsNewest
<1>3. CL # {} => newest(CL) \in CL /\ \A m \in CL : m.id <= newest(CL).id
  BY <1>1, NewestIsNewest
<1>4. resolves(p)
  BY DEF resolves, attr_for_path
<1>5. CASE covered_by_hide(p)
  <2>1. PICK l \in descendant_layers(p) : l.id > newest(CH).id
    BY <1>5 DEF attr_for_path, resolve_overlay, Hidden
  <2>2. l \in layers /\ starts_with(l.on_fs, p) /\ l.id \in Nat
    BY EntryFacts DEF descendant_layers
  <2>3. \A h \in CH : h.id < l.id
    BY <1>1, <1>2, <2>1, <2>2
  <2> QED BY <1>4, <2>2, <2>3, WayToMappingListed
<1>6. CASE ~covered_by_hide(p) /\ CL = {}
  <2>1. CH = {}
    BY <1>6 DEF covered_by_hide
  <2>2. PICK l \in descendant_layers(p) : TRUE
    BY <1>6 DEF attr_for_path, resolve_overlay, Missing
  <2>3. l \in layers /\ starts_with(l.on_fs, p)
    BY DEF descendant_layers
  <2> QED BY <1>4, <2>1, <2>3, WayToMappingListed
<1>7. CASE ~covered_by_hide(p) /\ CL # {}
  <2>1. PICK l \in CL : l = newest(CL)
    BY <1>3, <1>7
  <2>2. resolve_overlay(p) = Real(p, l)
    BY <1>7, <2>1 DEF resolve_overlay
  <2>3. strip_prefix(p, l.on_fs) \in HostPaths[l.local]
    BY <2>2 DEF attr_for_path, Real
  <2>4. l \in layers /\ \A m \in CL : m.id <= l.id
    BY <1>1, <1>3, <1>7, <2>1
  <2>5. CASE l.on_fs = p
    <3>1. starts_with(l.on_fs, p)
      BY <2>5, StartsWithIff
    <3>2. \A h \in CH : h.id < l.id
      <4> TAKE h \in CH
      <4>1. PICK m \in CL : ~(m.id <= newest(CH).id)
        BY <1>7 DEF covered_by_hide
      <4>2. h.id <= newest(CH).id /\ m.id <= l.id
        BY <1>2, <2>4
      <4>3. newest(CH).id \in Nat /\ h.id \in Nat /\ m.id \in Nat /\ l.id \in Nat
        <5>1. newest(CH) \in CH
          BY <1>2
        <5>2. \A i \in 1..MaxOrder : i \in Nat
          OBVIOUS
        <5> QED BY <1>1, <5>1, <5>2
      <4> QED BY <4>1, <4>2, <4>3
    <3> QED BY <1>4, <2>4, <3>1, <3>2, WayToMappingListed
  <2>6. CASE l.on_fs # p
    BY <1>4, <1>7, <2>3, <2>4, <2>6, HostNameListed
  <2> QED BY <2>5, <2>6
<1> QED BY <1>5, <1>6, <1>7

\* What a directory lists resolves: a name on the way to a mapping is a directory
\* at least, unless it is hidden, and then it is left out.
LEMMA ListedResolves ==
  ASSUME OverlayIndInv, NEW dir \in Seq(STRING), NEW name \in children(dir)
  PROVE  resolves(join(dir, name))
<1>1. CASE \E l \in descendant_layers(dir) : name = l.on_fs[Len(dir) + 1]
  <2>1. PICK l \in descendant_layers(dir) : name = l.on_fs[Len(dir) + 1]
    BY <1>1
  <2>2. l \in layers /\ l.on_fs \in Seq(STRING) /\ starts_with(l.on_fs, dir) /\ l.on_fs # dir
    BY EntryFacts DEF descendant_layers
  <2>3. PICK j : j = join(dir, name)
    OBVIOUS
  <2>4. j \in Seq(STRING) /\ j # <<>> /\ starts_with(l.on_fs, j)
    BY <2>1, <2>2, <2>3, ChildFacts
  <2>5. l \in covering_layers(j) \/ l \in descendant_layers(j)
    BY <2>2, <2>4, StartsWithIff DEF covering_layers, descendant_layers
  <2>6. resolve_overlay(j) # Missing
    BY <2>4, <2>5 DEF resolve_overlay, VirtualDir, Hidden, Missing, Real
  <2>7. resolve_overlay(j).tag # "hidden"
    BY <2>3 DEF children, is_hidden, resolves
  <2>8. \/ resolve_overlay(j) \in {VirtualDir, Hidden, Missing}
        \/ resolve_overlay(j) = Real(j, newest(covering_layers(j)))
    BY DEF resolve_overlay
  <2> QED BY <2>3, <2>6, <2>7, <2>8 DEF resolves, VirtualDir, Hidden, Real
<1>2. CASE ~\E l \in descendant_layers(dir) : name = l.on_fs[Len(dir) + 1]
  BY <1>2 DEF children
<1> QED BY <1>1, <1>2

\* Whatever the commands and the host, readdir and lookup agree
\* (Sandbox::children, attr_for_path in fs.rs).
THEOREM ListingCorrect == OverlaySpec => []ListingAgrees
<1>1. ASSUME OverlayIndInv PROVE ListingAgrees
  <2>1. Paths \subseteq Seq(STRING)
    OBVIOUS
  <2>2. \A dir \in Paths : \A name \in children(dir) : resolves(join(dir, name))
    BY <1>1, <2>1, ListedResolves
  <2>3. \A p \in Paths \ {<<>>} : attr_for_path(p) =>
          resolves(parent(p)) /\ p[Len(p)] \in children(parent(p))
    BY <1>1, <2>1, FoundIsListed
  <2> QED BY <2>2, <2>3 DEF ListingAgrees
<1> QED BY <1>1, OverlayInvariance, PTL
=============================================================================
