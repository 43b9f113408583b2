------------------------ MODULE DeviceSession_proofs ------------------------
(***************************************************************************)
(* That a message key is used once, that each log takes each message of    *)
(* the other device once, that the two devices end on one session, and     *)
(* that no message is lost or stranded: for any number of messages and     *)
(* faults, and any limits of the ratchet.                                  *)
(*                                                                         *)
(* A sending chain is named by its root.  The last output mixed into it    *)
(* has a key pair that was fresh when the chain was made, so no device     *)
(* makes a chain twice, and an earlier copy of a session that a restart    *)
(* brings back is never behind what left the device.  The two devices never *)
(* have a chain in common either: the one that chose the secret sends on   *)
(* the roots of even length, the other one on those of odd length.         *)
(*                                                                         *)
(* The second half places every frame of a device in the line of its       *)
(* sending chains, and against the session that is to open it: in the next *)
(* chain, further on in this one, or gone by, and then it was read, or its *)
(* key is in the cache, or a full cache gave the key up.                   *)
(***************************************************************************)
EXTENDS DeviceSession, SequenceTheorems, TLAPS

-----------------------------------------------------------------------------
(* The inductive invariant.                                                *)

\* What a device has given out of its hands, and may yet.
Released(d) == sealed[d] \union {f \in sent : f.from = d}
\* The sessions a device has, or has the next moment.
Kept(d) == ({mem[d], disk[d]} \ {None})
           \union (IF receiving[d] = None THEN {} ELSE {receiving[d].cand})

Types ==
    /\ mem \in [Dev -> Session \union {None}] /\ disk \in [Dev -> Session \union {None}]
    /\ log \in [Dev -> Seq(Dev \X Nat)]
    /\ sending \in [Dev -> Frame \union {None}]
    /\ receiving \in [Dev -> Receipt \union {None}]
    /\ fenced \in [Dev -> Nat \union {None}]
    /\ sealed \in [Dev -> SUBSET Frame] /\ rows \in [Dev -> SUBSET Row]
    /\ minted \in [Dev -> Nat] /\ said \in [Dev -> Nat]
    /\ sent \subseteq Frame
    /\ nextId \in Nat \ {0}
    /\ \A d \in Dev : sending[d] = None \/ receiving[d] = None
    /\ DOMAIN seen = Dev /\ \A d \in Dev : seen[d] \subseteq 1 .. nextId - 1
    /\ \A d \in Dev : \A row \in rows[d] : row.id \in 1 .. nextId - 1
    /\ \A d \in Dev : receiving[d] # None => receiving[d].row.id \in 1 .. nextId - 1

Even(n) == n % 2 = 0
Last(root) == root[Len(root)]

\* A root that device d makes a sending chain of, with m key pairs so far.
OwnRoot(d, m, root) ==
    /\ Len(root) > 1
    /\ root[1] \in Key
    /\ root[1][1] = d <=> Even(Len(root))
    /\ \A k \in Nat : <<d, k>> \in Last(root) => k <= m

\* The receiving chain is where its counter says, and the cache is bounded.
Orderly(s) == /\ s.CKr # None => s.CKr.i = s.Nr
              /\ Len(s.skipped) <= MaxSkipSession

\* A session of device d.
Fit(d, m, s) ==
    /\ s.pending => s.secret[1] = d
    /\ s.ratchet.DHs \in {d} \X Nat
    /\ s.ratchet.CKs # None /\ s.ratchet.CKs.root = s.ratchet.RK
    /\ s.ratchet.CKs.i = s.ratchet.Ns
    /\ Orderly(s.ratchet)
    /\ OwnRoot(d, m, s.ratchet.RK)

\* A frame that device d made.
Own(d, m, f) ==
    /\ f.from = d /\ f.dh \in {d} \X Nat
    /\ f.x3dh # None => f.x3dh \in {d} \X Nat
    /\ f.key # Junk /\ OwnRoot(d, m, f.key.root)

\* The chain of key s is past key k, or another one.
Past(s, key) == s.ratchet.CKs.root = key.root => key.i < s.ratchet.CKs.i

Sessions == \A d \in Dev : \A s \in Kept(d) : Fit(d, minted[d], s)
Frames ==
    /\ \A d \in Dev : \A f \in Released(d) : Own(d, minted[d], f)
    /\ \A d \in Dev : sending[d] # None => Own(d, minted[d], sending[d])
\* What a relay row holds is a frame it was given, or not genuine.
Queues ==
    /\ \A d \in Dev : \A row \in rows[d] :
          row.frame.from = Peer(d) /\ (row.frame.key = Junk \/ row.frame \in sent)
    /\ \A d \in Dev : receiving[d] # None =>
          receiving[d].row.frame.from = Peer(d) /\ receiving[d].row.frame \in sent
Ahead ==
    /\ \A d \in Dev : \A f \in Released(d), s \in Kept(d) : Past(s, f.key)
    /\ \A d \in Dev : sending[d] # None =>
          /\ mem[d] # None /\ Past(mem[d], sending[d].key)
          /\ \A f \in Released(d) : f.key # sending[d].key
Apart == \A d \in Dev : \A f, g \in Released(d) : f.key = g.key => f = g

Logs ==
    \A d \in Dev : /\ log[d] \in Seq({f.mid : f \in {g \in sent : g.from = Peer(d)}})
                   /\ \A j, k \in DOMAIN log[d] : log[d][j] = log[d][k] => j = k

Inv == Types /\ Sessions /\ Frames /\ Queues /\ Ahead /\ Apart /\ Logs

-----------------------------------------------------------------------------
(* The ratchet: what its operators return.                                 *)

LEMMA Symbols ==
    /\ None \notin Nat /\ None \notin Part /\ None \notin ChainKey
    /\ None \notin Session /\ None \notin Frame /\ None \notin Receipt
    /\ Junk \notin Key /\ Junk \notin ChainKey /\ Key \subseteq Part /\ Junk \in Part
    /\ MaxSkip \in Nat /\ MaxSkipSession \in Nat \ {0}
BY SymbolAssumption, RatchetAssumption DEF Part

LEMMA Peers ==
    ASSUME NEW d \in Dev
    PROVE  Peer(d) \in Dev /\ Peer(d) # d /\ Peer(Peer(d)) = d
BY DeviceSessionAssumption DEF Peer, Dev

LEMMA Mixed ==
    ASSUME NEW r \in Root, NEW own \in Part, NEW their \in Part
    PROVE  LET q == MixRoot(r, own, their)
           IN  /\ q \in Root /\ Len(q) = Len(r) + 1
               /\ Last(q) = {own, their}
               /\ Len(r) > 0 => q[1] = r[1]
<1>1. {own, their} \in Part \union SUBSET Part
  OBVIOUS
<1> DEFINE Elem == Part \union SUBSET Part
<1>2. r \in Seq(Elem) /\ {own, their} \in Elem
  BY <1>1 DEF Root
<1> HIDE DEF Elem
<1>3. /\ Append(r, {own, their}) \in Seq(Elem)
      /\ Len(Append(r, {own, their})) = Len(r) + 1
      /\ Append(r, {own, their})[Len(r) + 1] = {own, their}
      /\ \A i \in 1 .. Len(r) : Append(r, {own, their})[i] = r[i]
  BY <1>2, AppendProperties
<1>4. Len(r) \in Nat
  BY <1>2
<1> QED
  BY <1>3, <1>4 DEF MixRoot, Last, Root, Elem

\* The cache: it holds entries, and no more than its limit.
LEMMA SkippedTyped ==
    ASSUME NEW s \in RatchetState, s.CKr # None, s.CKr.i = s.Nr,
           NEW until \in Nat, until > s.Nr
    PROVE  SkippedKeys(s, until) \in Seq(Entry)
<1>1. until - s.Nr \in Nat /\ s.CKr \in ChainKey /\ s.DHr \in Part \union {None} /\ s.Nr \in Nat
  BY DEF RatchetState
<1>2. ASSUME NEW k \in 1 .. (until - s.Nr)
      PROVE  [dh |-> s.DHr, n |-> s.Nr + k - 1, key |-> [s.CKr EXCEPT !.i = @ + k - 1]] \in Entry
  <2>1. s.Nr + k - 1 \in Nat /\ s.CKr.i \in Nat /\ s.CKr.i + k - 1 \in Nat
    BY <1>1 DEF ChainKey
  <2>2. [s.CKr EXCEPT !.i = @ + k - 1] \in ChainKey
    BY <1>1, <2>1 DEF ChainKey
  <2> QED
    BY <1>1, <2>1, <2>2 DEF Entry
<1>3. SkippedKeys(s, until) \in [1 .. (until - s.Nr) -> Entry]
  BY <1>2 DEF SkippedKeys
<1> QED
  BY <1>1, <1>3

LEMMA NewestTyped ==
    ASSUME NEW cache \in Seq(Entry)
    PROVE  NewestOf(cache) \in Seq(Entry) /\ Len(NewestOf(cache)) <= MaxSkipSession
<1>1. Len(cache) \in Nat /\ MaxSkipSession \in Nat \ {0}
  BY Symbols
<1>2. CASE Len(cache) <= MaxSkipSession
  BY <1>2 DEF NewestOf
<1>3. CASE ~(Len(cache) <= MaxSkipSession)
  <2> DEFINE m == Len(cache) - MaxSkipSession + 1
  <2>1. m \in 1 .. Len(cache) + 1 /\ Len(cache) - m + 1 = MaxSkipSession
    BY <1>1, <1>3
  <2>2. m - 1 <= Len(cache) /\ m \in Int /\ m <= Len(cache)
    BY <1>1, <1>3
  <2>3. /\ SubSeq(cache, m, Len(cache)) \in Seq(Entry)
        /\ Len(SubSeq(cache, m, Len(cache))) = MaxSkipSession
    BY <1>1, <2>1, <2>2, SubSeqProperties
  <2> QED
    BY <1>1, <1>3, <2>3 DEF NewestOf
<1> QED
  BY <1>2, <1>3

\* Skipping moves the receiving chain, and touches nothing else but the cache.
LEMMA Skipping ==
    ASSUME NEW s \in RatchetState, Orderly(s), NEW until \in Nat
    PROVE  LET t == Skip(s, until)
           IN  /\ t \in RatchetState /\ Orderly(t)
               /\ t.DHs = s.DHs /\ t.DHr = s.DHr /\ t.RK = s.RK
               /\ t.CKs = s.CKs /\ t.Ns = s.Ns /\ t.PN = s.PN
<1>1. CASE s.CKr = None \/ until <= s.Nr
  BY <1>1 DEF Skip
<1>2. CASE s.CKr # None /\ until > s.Nr
  <2> DEFINE cache == NewestOf(s.skipped \o SkippedKeys(s, until))
             ck    == [s.CKr EXCEPT !.i = @ + (until - s.Nr)]
  <2>1. s.CKr \in ChainKey /\ s.Nr \in Nat /\ s.CKr.i = s.Nr /\ s.skipped \in Seq(Entry)
    BY <1>2 DEF RatchetState, Orderly
  <2>2. cache \in Seq(Entry) /\ Len(cache) <= MaxSkipSession
    <3>1. s.skipped \o SkippedKeys(s, until) \in Seq(Entry)
      BY <1>2, <2>1, SkippedTyped, ConcatProperties
    <3> QED
      BY <3>1, NewestTyped
  <2>3. ck \in ChainKey /\ ck.i = until
    BY <1>2, <2>1 DEF ChainKey
  <2>4. Skip(s, until) = [s EXCEPT !.skipped = cache, !.CKr = ck, !.Nr = until]
    <3>1. ~(s.CKr = None \/ until <= s.Nr)
      BY <1>2, <2>1
    <3> QED
      BY <3>1 DEF Skip
  <2> HIDE DEF cache, ck
  <2> QED
    BY <2>2, <2>3, <2>4 DEF RatchetState, Orderly
<1>3. s.Nr \in Nat
  BY DEF RatchetState
<1> QED
  BY <1>1, <1>2, <1>3

\* Where it ends does not depend on what it touches not.
LEMMA SkippingAlike ==
    ASSUME NEW s \in RatchetState, NEW t \in RatchetState, NEW until \in Nat,
           s.CKr = t.CKr, s.Nr = t.Nr
    PROVE  Skip(s, until).CKr = Skip(t, until).CKr
BY DEF Skip, RatchetState

Turn(s, f, fresh) == MixRoot(MixRoot(s.RK, s.DHs, f.dh), fresh, f.dh)

LEMMA Turning ==
    ASSUME NEW s \in RatchetState, Orderly(s), NEW f \in Frame, NEW fresh \in Part
    PROVE  LET t == Turned(s, f, fresh)
           IN  /\ t \in RatchetState /\ Orderly(t)
               /\ f.dh = s.DHr => t = s
               /\ f.dh # s.DHr =>
                     /\ t.RK = Turn(s, f, fresh) /\ t.CKs = ChainOf(t.RK) /\ t.Ns = 0
                     /\ t.DHs = fresh
                     /\ t.CKr = ChainOf(MixRoot(s.RK, s.DHs, f.dh)) /\ t.Nr = 0
<1>1. f.dh \in Part /\ f.pn \in Nat
  BY DEF Frame
<1>2. CASE f.dh = s.DHr
  BY <1>2 DEF Turned
<1>3. CASE f.dh # s.DHr
  <2> DEFINE u == Skip(s, f.pn)
             r == MixRoot(u.RK, u.DHs, f.dh)
             q == MixRoot(r, fresh, f.dh)
  <2>1. u \in RatchetState /\ Orderly(u) /\ u.DHs = s.DHs /\ u.RK = s.RK
    BY <1>1, Skipping
  <2>2. u.RK \in Root /\ u.DHs \in Part
    BY <2>1 DEF RatchetState
  <2>3. r \in Root
    BY <1>1, <2>2, Mixed
  <2>4. q \in Root
    BY <1>1, <2>3, Mixed
  <2>5. ChainOf(r) \in ChainKey /\ ChainOf(q) \in ChainKey /\ ChainOf(r).i = 0
    BY <2>3, <2>4 DEF ChainOf, ChainKey
  <2>6. Turned(s, f, fresh) =
          [u EXCEPT !.PN = u.Ns, !.Ns = 0, !.Nr = 0, !.DHr = f.dh, !.DHs = fresh,
                    !.RK = q, !.CKr = ChainOf(r), !.CKs = ChainOf(q)]
    BY <1>3 DEF Turned, DHRatchet
  <2>7. q = Turn(s, f, fresh) /\ r = MixRoot(s.RK, s.DHs, f.dh)
    BY <2>1 DEF Turn
  <2> HIDE DEF u, r, q
  <2>8. Turned(s, f, fresh) \in RatchetState
    <3>1. u.Ns \in Nat /\ u.skipped \in Seq(Entry) /\ u.Ns \in Nat /\ fresh \in Part
      BY <2>1 DEF RatchetState
    <3>2. Turned(s, f, fresh) =
            [DHs |-> fresh, DHr |-> f.dh, RK |-> q, CKs |-> ChainOf(q), CKr |-> ChainOf(r),
             Ns |-> 0, Nr |-> 0, PN |-> u.Ns, skipped |-> u.skipped]
      BY <2>1, <2>6 DEF RatchetState
    <3> QED
      BY <1>1, <2>4, <2>5, <3>1, <3>2 DEF RatchetState
  <2>9. Turned(s, f, fresh).skipped = u.skipped /\ Len(u.skipped) <= MaxSkipSession
    BY <2>1, <2>6 DEF RatchetState, Orderly
  <2> QED
    BY <1>3, <2>1, <2>5, <2>6, <2>7, <2>8, <2>9 DEF RatchetState, Orderly
<1> QED
  BY <1>2, <1>3

\* The draft a frame is opened in, and the one that is kept.
LEMMA Reaching ==
    ASSUME NEW s \in RatchetState, Orderly(s), NEW f \in Frame, NEW fresh \in Part
    PROVE  LET t == Reached(s, f, fresh)
           IN  /\ t \in RatchetState /\ Orderly(t)
               /\ f.dh = s.DHr => /\ t.RK = s.RK /\ t.CKs = s.CKs /\ t.Ns = s.Ns
                                  /\ t.DHs = s.DHs
               /\ f.dh # s.DHr => /\ t.RK = Turn(s, f, fresh) /\ t.CKs = ChainOf(t.RK)
                                  /\ t.Ns = 0 /\ t.DHs = fresh
               /\ t.CKr = Reached(s, f, f.dh).CKr
<1> DEFINE u == Turned(s, f, fresh)
           v == Turned(s, f, f.dh)
<1>1. f.dh \in Part /\ f.n \in Nat
  BY DEF Frame
<1>2. /\ u \in RatchetState /\ Orderly(u)
      /\ f.dh = s.DHr => u = s
      /\ f.dh # s.DHr => /\ u.RK = Turn(s, f, fresh) /\ u.CKs = ChainOf(u.RK) /\ u.Ns = 0
                         /\ u.DHs = fresh
  BY Turning
<1>3. v \in RatchetState /\ v.CKr = u.CKr /\ v.Nr = u.Nr
  BY <1>1, Turning
<1> HIDE DEF u, v
<1>4. /\ Skip(u, f.n) \in RatchetState /\ Orderly(Skip(u, f.n))
      /\ Skip(u, f.n).DHs = u.DHs /\ Skip(u, f.n).RK = u.RK
      /\ Skip(u, f.n).CKs = u.CKs /\ Skip(u, f.n).Ns = u.Ns
  BY <1>1, <1>2, Skipping
<1>5. Skip(u, f.n).CKr = Skip(v, f.n).CKr
  BY <1>1, <1>2, <1>3, SkippingAlike
<1>6. Reached(s, f, fresh) = Skip(u, f.n) /\ Reached(s, f, f.dh) = Skip(v, f.n)
  BY DEF Reached, u, v
<1> QED
  BY <1>2, <1>4, <1>5, <1>6

\* A frame that opens was made with a key of a chain.
LEMMA OpensGenuine ==
    ASSUME NEW s \in RatchetState, Orderly(s), NEW f \in Frame, Opens(s, f)
    PROVE  f.key \in ChainKey /\ f.dh \in Part
<1>1. f.dh \in Part /\ f.key \in ChainKey \union {Junk}
  BY DEF Frame
<1>2. CASE FromCache(s, f)
  <2>1. PICK k \in DOMAIN s.skipped : s.skipped[k].key = f.key
    BY <1>2 DEF Opens, CachedAt
  <2>2. s.skipped \in Seq(Entry)
    BY DEF RatchetState
  <2>3. s.skipped[k] \in Entry
    BY <2>1, <2>2
  <2> QED
    BY <1>1, <2>1, <2>3 DEF Entry
<1>3. CASE ~FromCache(s, f)
  <2>1. Reached(s, f, f.dh).CKr = f.key
    BY <1>3 DEF Opens
  <2>2. f.key \in ChainKey \union {None}
    BY <1>1, <2>1, Reaching DEF RatchetState
  <2>3. Junk \notin ChainKey \union {None}
    BY Symbols
  <2> QED
    BY <1>1, <2>2, <2>3
<1> QED
  BY <1>2, <1>3

LEMMA WithoutTyped ==
    ASSUME NEW seq \in Seq(Entry), NEW k \in DOMAIN seq
    PROVE  Without(seq, k) \in Seq(Entry) /\ Len(Without(seq, k)) = Len(seq) - 1
<1>1. Len(seq) \in Nat /\ k \in 1 .. Len(seq) /\ Len(seq) - 1 \in Nat
  OBVIOUS
<1>2. ASSUME NEW j \in 1 .. (Len(seq) - 1)
      PROVE  (IF j < k THEN seq[j] ELSE seq[j + 1]) \in Entry
  <2>1. j \in 1 .. Len(seq) /\ j + 1 \in 1 .. Len(seq)
    BY <1>1
  <2> QED
    BY <2>1
<1>3. Without(seq, k) \in [1 .. (Len(seq) - 1) -> Entry]
  BY <1>2 DEF Without
<1> QED
  BY <1>1, <1>3

\* What a frame that opens leaves.
LEMMA Decrypting ==
    ASSUME NEW s \in RatchetState, Orderly(s), NEW f \in Frame, Opens(s, f),
           NEW fresh \in Part
    PROVE  LET t == AfterDecrypt(s, f, fresh)
           IN  /\ t \in RatchetState /\ Orderly(t)
               /\ \/ /\ t.RK = s.RK /\ t.CKs = s.CKs /\ t.Ns = s.Ns /\ t.DHs = s.DHs
                     /\ s.DHr = f.dh \/ s.skipped # <<>>
                  \/ /\ t.RK = Turn(s, f, fresh) /\ t.CKs = ChainOf(t.RK) /\ t.Ns = 0
                     /\ t.DHs = fresh
<1>1. CASE FromCache(s, f)
  <2> DEFINE k == CHOOSE k \in CachedAt(s, f) : TRUE
             cache == Without(s.skipped, k)
  <2>1. k \in CachedAt(s, f)
    BY <1>1 DEF FromCache
  <2>2. k \in DOMAIN s.skipped
    BY <2>1 DEF CachedAt
  <2>3. s.skipped \in Seq(Entry)
    BY DEF RatchetState
  <2>4. cache \in Seq(Entry) /\ Len(cache) = Len(s.skipped) - 1 /\ s.skipped # <<>>
    BY <2>2, <2>3, WithoutTyped
  <2>5. AfterDecrypt(s, f, fresh) = [s EXCEPT !.skipped = cache]
    BY <1>1 DEF AfterDecrypt
  <2> HIDE DEF cache
  <2>6. Len(cache) <= MaxSkipSession
    <3>1. Len(s.skipped) \in Nat /\ Len(s.skipped) <= MaxSkipSession /\ MaxSkipSession \in Nat
      BY <2>3, Symbols DEF Orderly
    <3> QED
      BY <2>4, <3>1
  <2>7. [s EXCEPT !.skipped = cache] \in RatchetState
    BY <2>4 DEF RatchetState
  <2> QED
    BY <2>4, <2>5, <2>6, <2>7 DEF RatchetState, Orderly
<1>2. CASE ~FromCache(s, f)
  <2> DEFINE u == Reached(s, f, fresh)
             ck == NextCk(u.CKr)
  <2>1. /\ u \in RatchetState /\ Orderly(u)
        /\ f.dh = s.DHr => /\ u.RK = s.RK /\ u.CKs = s.CKs /\ u.Ns = s.Ns
                           /\ u.DHs = s.DHs
        /\ f.dh # s.DHr => /\ u.RK = Turn(s, f, fresh) /\ u.CKs = ChainOf(u.RK)
                           /\ u.Ns = 0 /\ u.DHs = fresh
        /\ u.CKr = Reached(s, f, f.dh).CKr
    BY Reaching
  <2>2. u.CKr = f.key /\ f.key \in ChainKey
    BY <1>2, <2>1, OpensGenuine DEF Opens
  <2>3. u.CKr.i = u.Nr /\ u.Nr \in Nat
    BY <2>1, <2>2, Symbols DEF Orderly, RatchetState
  <2>4. ck \in ChainKey /\ ck.i = u.Nr + 1
    BY <2>2, <2>3 DEF NextCk, ChainKey
  <2>5. AfterDecrypt(s, f, fresh) = [u EXCEPT !.CKr = ck, !.Nr = u.Nr + 1]
    BY <1>2 DEF AfterDecrypt
  <2> HIDE DEF u, ck
  <2>6. [u EXCEPT !.CKr = ck, !.Nr = u.Nr + 1] \in RatchetState
    <3>1. u.Nr + 1 \in Nat
      BY <2>3
    <3> QED
      BY <2>1, <2>4, <3>1 DEF RatchetState
  <2> QED
    BY <2>1, <2>3, <2>4, <2>5, <2>6 DEF RatchetState, Orderly
<1> QED
  BY <1>1, <1>2

-----------------------------------------------------------------------------
(* Sessions: the three ways to a new one.                                  *)

LEMMA Parity == \A n \in Nat : /\ Even(n + 2) <=> Even(n)
                               /\ Even(2) /\ ~Even(3)
BY DEF Even

\* A device that has made more key pairs may have a root it could have before.
LEMMA OwnRootLater ==
    ASSUME NEW d, NEW m \in Nat, NEW n \in Nat, m <= n, NEW root, OwnRoot(d, m, root)
    PROVE  OwnRoot(d, n, root)
BY DEF OwnRoot

\* A root whose last output has a key pair that is new is a new root.
LEMMA NewRoot ==
    ASSUME NEW d, NEW m \in Nat, NEW root, <<d, m + 1>> \in Last(root),
           NEW other, OwnRoot(d, m, other)
    PROVE  root # other
BY DEF OwnRoot

LEMMA Facts ==
    ASSUME Inv, NEW d \in Dev
    PROVE  /\ mem[d] \in Session \union {None} /\ disk[d] \in Session \union {None}
           /\ mem[d] # None => mem[d] \in Session /\ mem[d] \in Kept(d) /\ Fit(d, minted[d], mem[d])
           /\ disk[d] # None => disk[d] \in Session /\ disk[d] \in Kept(d) /\ Fit(d, minted[d], disk[d])
           /\ minted[d] \in Nat /\ KeyOf(d) = <<d, minted[d] + 1>> /\ KeyOf(d) \in Key
           /\ \A f \in Released(d) : f \in Frame /\ Own(d, minted[d], f)
           /\ rows[d] \subseteq Row
<1>1. mem[d] \in Session \union {None} /\ disk[d] \in Session \union {None}
      /\ minted[d] \in Nat /\ rows[d] \subseteq Row /\ sealed[d] \subseteq Frame
      /\ sent \subseteq Frame
  BY DEF Inv, Types
<1>2. KeyOf(d) = <<d, minted[d] + 1>> /\ KeyOf(d) \in Key
  BY <1>1 DEF KeyOf, Key
<1>3. mem[d] # None => mem[d] \in Kept(d)
  BY DEF Kept
<1>4. disk[d] # None => disk[d] \in Kept(d)
  BY DEF Kept
<1>5. \A f \in Released(d) : f \in Frame
  BY <1>1 DEF Released
<1> QED
  BY <1>1, <1>2, <1>3, <1>4, <1>5 DEF Inv, Sessions, Frames

\* A session that is begun.
LEMMA Beginning ==
    ASSUME Inv, NEW d \in Dev
    PROVE  LET s == Initiated(d)
           IN  /\ s \in Session /\ Fit(d, minted[d] + 1, s)
               /\ \A f \in Released(d) : s.ratchet.CKs.root # f.key.root
<1> DEFINE rk == MixRoot(<<KeyOf(d)>>, KeyOf(d), SPK(Peer(d)))
           s  == Initiated(d)
<1>1. KeyOf(d) = <<d, minted[d] + 1>> /\ KeyOf(d) \in Key /\ minted[d] \in Nat
  BY Facts
<1>2. SPK(Peer(d)) = <<Peer(d), 0>> /\ SPK(Peer(d)) \in Key /\ Peer(d) # d
  BY Peers DEF SPK, Key
<1>3. <<KeyOf(d)>> \in Root /\ Len(<<KeyOf(d)>>) = 1 /\ <<KeyOf(d)>>[1] = KeyOf(d)
  BY <1>1 DEF Root, Part
<1>4. /\ rk \in Root /\ Len(rk) = 2 /\ rk[1] = KeyOf(d)
      /\ Last(rk) = {KeyOf(d), SPK(Peer(d))}
  <2> DEFINE r == <<KeyOf(d)>>
  <2>1. KeyOf(d) \in Part /\ SPK(Peer(d)) \in Part /\ r \in Root
    BY <1>1, <1>2, <1>3, Symbols
  <2>2. Len(r) = 1 /\ r[1] = KeyOf(d) /\ rk = MixRoot(r, KeyOf(d), SPK(Peer(d)))
    BY <1>3
  <2> HIDE DEF r, rk
  <2>3. rk \in Root /\ Len(rk) = Len(r) + 1 /\ Last(rk) = {KeyOf(d), SPK(Peer(d))}
        /\ (Len(r) > 0 => rk[1] = r[1])
    BY <2>1, <2>2, Mixed
  <2> QED
    BY <2>2, <2>3
<1> HIDE DEF rk
<1>5. OwnRoot(d, minted[d] + 1, rk)
  <2>1. \A k \in Nat : <<d, k>> \in Last(rk) => k <= minted[d] + 1
    BY <1>1, <1>2, <1>4
  <2>2. rk[1][1] = d
    BY <1>1, <1>4
  <2> QED
    BY <1>1, <1>4, <2>1, <2>2, Parity DEF OwnRoot
<1>6. s = [secret |-> KeyOf(d), pending |-> TRUE,
           ratchet |-> [DHs |-> KeyOf(d), DHr |-> SPK(Peer(d)), RK |-> rk,
                        CKs |-> ChainOf(rk), CKr |-> None,
                        Ns |-> 0, Nr |-> 0, PN |-> 0, skipped |-> <<>>]]
  BY DEF Initiated, InitInitiator, rk
<1> HIDE DEF s
<1>7. ChainOf(rk) \in ChainKey /\ ChainOf(rk).root = rk /\ ChainOf(rk).i = 0
  BY <1>4 DEF ChainOf, ChainKey
<1>8. s.ratchet \in RatchetState /\ s \in Session
  <2>1. <<>> \in Seq(Entry) /\ KeyOf(d) \in Part /\ SPK(Peer(d)) \in Part
    BY <1>1, <1>2, Symbols
  <2>2. s.ratchet \in RatchetState
    BY <1>4, <1>6, <1>7, <2>1 DEF RatchetState
  <2> QED
    BY <1>1, <1>6, <2>2 DEF Session
<1>9. Orderly(s.ratchet)
  BY <1>6, Symbols DEF Orderly
<1>10. Fit(d, minted[d] + 1, s)
  <2>1. s.secret[1] = d /\ s.ratchet.DHs \in {d} \X Nat
    BY <1>1, <1>6
  <2>2. s.ratchet.CKs # None /\ s.ratchet.CKs.root = s.ratchet.RK
        /\ s.ratchet.CKs.i = s.ratchet.Ns /\ s.ratchet.RK = rk
    BY <1>6, <1>7, Symbols
  <2> QED
    BY <1>5, <1>9, <2>1, <2>2 DEF Fit
<1>11. ASSUME NEW f \in Released(d) PROVE s.ratchet.CKs.root # f.key.root
  <2>1. <<d, minted[d] + 1>> \in Last(rk)
    BY <1>1, <1>4
  <2>2. OwnRoot(d, minted[d], f.key.root)
    BY Facts DEF Own
  <2>3. s.ratchet.CKs.root = rk
    BY <1>6, <1>7
  <2> QED
    BY <1>1, <2>1, <2>2, <2>3, NewRoot
<1> QED
  BY <1>8, <1>10, <1>11 DEF s

\* A session that has sealed a message.
LEMMA Sealing ==
    ASSUME NEW d \in Dev, NEW m \in Nat, NEW s \in Session, Fit(d, m, s)
    PROVE  LET t == [s EXCEPT !.ratchet = AfterEncrypt(s.ratchet)]
           IN  /\ t \in Session /\ Fit(d, m, t)
               /\ t.ratchet.CKs.root = s.ratchet.CKs.root
               /\ t.ratchet.CKs.i = s.ratchet.CKs.i + 1
<1> DEFINE r == s.ratchet
           q == AfterEncrypt(r)
<1>1. r \in RatchetState /\ r.CKs \in ChainKey /\ r.CKs.i \in Nat /\ r.Ns \in Nat
  BY DEF Session, RatchetState, Fit, ChainKey
<1>2. NextCk(r.CKs) \in ChainKey /\ NextCk(r.CKs).root = r.CKs.root
      /\ NextCk(r.CKs).i = r.CKs.i + 1
  BY <1>1 DEF NextCk, ChainKey
<1>3. q = [r EXCEPT !.CKs = NextCk(r.CKs), !.Ns = r.Ns + 1]
  BY DEF AfterEncrypt
<1>4. q \in RatchetState /\ q.CKs = NextCk(r.CKs) /\ q.Ns = r.Ns + 1
      /\ q.RK = r.RK /\ q.DHs = r.DHs /\ q.CKr = r.CKr /\ q.Nr = r.Nr /\ q.skipped = r.skipped
  <2>1. r.Ns + 1 \in Nat
    BY <1>1
  <2> HIDE DEF r, q
  <2> QED
    BY <1>1, <1>2, <1>3, <2>1 DEF RatchetState
<1> DEFINE t == [s EXCEPT !.ratchet = q]
<1>5. t \in Session /\ t.ratchet = q /\ t.secret = s.secret /\ t.pending = s.pending
  BY <1>4 DEF Session
<1> HIDE DEF q
<1>6. Orderly(q)
  BY <1>4 DEF Fit, Orderly
<1>7. Fit(d, m, t)
  BY <1>2, <1>4, <1>5, <1>6, Symbols DEF Fit
<1> QED
  BY <1>2, <1>4, <1>5, <1>7 DEF q

\* A step of the DH ratchet mixes in two outputs, the last one under the new key pair.
LEMMA TurnRoot ==
    ASSUME NEW s \in RatchetState, Len(s.RK) > 0, NEW f \in Frame, NEW fresh \in Part
    PROVE  LET q == Turn(s, f, fresh)
           IN  q \in Root /\ Len(q) = Len(s.RK) + 2 /\ q[1] = s.RK[1] /\ Last(q) = {fresh, f.dh}
<1> DEFINE r == MixRoot(s.RK, s.DHs, f.dh)
<1>1. s.RK \in Root /\ s.DHs \in Part /\ f.dh \in Part /\ Len(s.RK) \in Nat
  BY DEF RatchetState, Frame, Root
<1>2. r \in Root /\ Len(r) = Len(s.RK) + 1 /\ r[1] = s.RK[1]
  BY <1>1, Mixed
<1>3. Turn(s, f, fresh) = MixRoot(r, fresh, f.dh)
  BY DEF Turn
<1> HIDE DEF r
<1>4. LET q == MixRoot(r, fresh, f.dh)
      IN  /\ q \in Root /\ Len(q) = Len(r) + 1 /\ Last(q) = {fresh, f.dh}
          /\ (Len(r) > 0 => q[1] = r[1])
  BY <1>1, <1>2, Mixed
<1> QED
  BY <1>1, <1>2, <1>3, <1>4

\* A device that turned its ratchet has a sending chain of its own, and a new one.
LEMMA TurnedOwn ==
    ASSUME NEW d \in Dev, NEW m \in Nat, NEW s \in RatchetState, NEW f \in Frame,
           f.dh \in {Peer(d)} \X Nat, Len(s.RK) > 0, s.RK[1] \in Key,
           s.RK[1][1] = d <=> Even(Len(s.RK))
    PROVE  LET q == Turn(s, f, <<d, m + 1>>)
           IN  /\ q \in Root /\ OwnRoot(d, m + 1, q)
               /\ \A other : OwnRoot(d, m, other) => q # other
<1> DEFINE q == Turn(s, f, <<d, m + 1>>)
<1>1. <<d, m + 1>> \in Part /\ Len(s.RK) \in Nat
  BY Symbols DEF Key, RatchetState, Root
<1>2. q \in Root /\ Len(q) = Len(s.RK) + 2 /\ q[1] = s.RK[1] /\ Last(q) = {<<d, m + 1>>, f.dh}
  BY <1>1, TurnRoot
<1> HIDE DEF q
<1>3. Even(Len(q)) <=> Even(Len(s.RK))
  BY <1>1, <1>2, Parity DEF Even
<1>4. \A k \in Nat : <<d, k>> \in Last(q) => k <= m + 1
  <2>1. Peer(d) # d
    BY Peers
  <2> QED
    BY <1>2, <2>1
<1>5. OwnRoot(d, m + 1, q)
  BY <1>1, <1>2, <1>3, <1>4 DEF OwnRoot
<1>6. ASSUME NEW other, OwnRoot(d, m, other) PROVE q # other
  BY <1>2, <1>6, NewRoot
<1> QED
  BY <1>2, <1>5, <1>6 DEF q

\* A session that has opened a frame.
LEMMA Opening ==
    ASSUME Inv, NEW d \in Dev, NEW row \in rows[d], Accepts(d, mem[d], row.frame)
    PROVE  LET c == Candidate(d, mem[d], row.frame)
           IN  /\ c \in Session /\ Fit(d, minted[d] + 1, c)
               /\ \A f \in Released(d) : Past(c, f.key)
               /\ row.frame \in sent /\ row.frame.from = Peer(d)
<1> DEFINE f == row.frame
           s == OpeningRatchet(d, mem[d], f)
           m == minted[d]
           t == AfterDecrypt(s, f, KeyOf(d))
           secret == IF BuildsFresh(mem[d], f) THEN f.x3dh ELSE mem[d].secret
<1>1. row \in Row /\ f \in Frame /\ f.from = Peer(d) /\ (f.key = Junk \/ f \in sent)
  BY Facts DEF Row, Inv, Queues
<1>2. KeyOf(d) = <<d, m + 1>> /\ KeyOf(d) \in Key /\ m \in Nat /\ KeyOf(d) \in Part
  BY Facts, Symbols
<1>3. mem[d] = None => BuildsFresh(mem[d], f)
  BY DEF Accepts
<1>4. Opens(s, f)
  BY DEF Accepts
<1>5. BuildsFresh(mem[d], f) =>
        /\ s = [DHs |-> SPK(d), DHr |-> None, RK |-> <<f.x3dh>>, CKs |-> None, CKr |-> None,
                Ns |-> 0, Nr |-> 0, PN |-> 0, skipped |-> <<>>]
        /\ s \in RatchetState /\ Orderly(s)
  <2> SUFFICES ASSUME BuildsFresh(mem[d], f)
               PROVE  LET i == [DHs |-> SPK(d), DHr |-> None, RK |-> <<f.x3dh>>,
                                CKs |-> None, CKr |-> None,
                                Ns |-> 0, Nr |-> 0, PN |-> 0, skipped |-> <<>>]
                      IN  s = i /\ i \in RatchetState /\ Orderly(i)
    OBVIOUS
  <2>1. f.x3dh # None /\ f.x3dh \in Part /\ SPK(d) \in Part
    BY <1>1, Symbols DEF BuildsFresh, Frame, SPK, Key
  <2>2. s = [DHs |-> SPK(d), DHr |-> None, RK |-> <<f.x3dh>>, CKs |-> None, CKr |-> None,
             Ns |-> 0, Nr |-> 0, PN |-> 0, skipped |-> <<>>]
    BY DEF OpeningRatchet, InitResponder
  <2>3. <<f.x3dh>> \in Root /\ <<>> \in Seq(Entry)
    BY <2>1 DEF Root
  <2> QED
    BY <2>1, <2>2, <2>3, Symbols DEF RatchetState, Orderly
<1>6. ~BuildsFresh(mem[d], f) =>
        /\ s = mem[d].ratchet /\ mem[d] \in Session /\ s \in RatchetState /\ Orderly(s)
        /\ mem[d] \in Kept(d) /\ Fit(d, m, mem[d])
  BY <1>3, Facts DEF OpeningRatchet, Session, Fit
<1>7. s \in RatchetState /\ Orderly(s)
  BY <1>5, <1>6
<1>8. f.key \in ChainKey /\ f \in sent
  <2>1. f.key \in ChainKey
    BY <1>1, <1>4, <1>7, OpensGenuine
  <2> QED
    BY <1>1, <2>1, Symbols
<1>9. /\ f.dh \in {Peer(d)} \X Nat
      /\ f.x3dh # None => f.x3dh \in {Peer(d)} \X Nat
  <2>1. f \in Released(Peer(d)) /\ Peer(d) \in Dev
    BY <1>1, <1>8, Peers DEF Released
  <2> QED
    BY <2>1 DEF Inv, Frames, Own
<1>10. Len(s.RK) > 0 /\ s.RK[1] \in Key /\ (s.RK[1][1] = d <=> Even(Len(s.RK)))
  <2>1. CASE BuildsFresh(mem[d], f)
    <3>1. f.x3dh \in {Peer(d)} \X Nat /\ s.RK = <<f.x3dh>>
      BY <1>5, <1>9, <2>1 DEF BuildsFresh
    <3>2. Len(s.RK) = 1 /\ s.RK[1] = f.x3dh /\ f.x3dh[1] = Peer(d) /\ f.x3dh \in Key
      BY <3>1, Peers DEF Key
    <3>3. Peer(d) # d /\ ~Even(1)
      BY Peers DEF Even
    <3> QED
      BY <3>2, <3>3
  <2>2. CASE ~BuildsFresh(mem[d], f)
    <3>1. OwnRoot(d, m, s.RK) /\ Len(s.RK) \in Nat
      BY <1>6, <2>2 DEF Fit, RatchetState, Root
    <3> QED
      BY <3>1 DEF OwnRoot
  <2> QED
    BY <2>1, <2>2
<1> HIDE DEF s
<1>11. /\ t \in RatchetState /\ Orderly(t)
       /\ \/ /\ t.RK = s.RK /\ t.CKs = s.CKs /\ t.Ns = s.Ns /\ t.DHs = s.DHs
             /\ s.DHr = f.dh \/ s.skipped # <<>>
          \/ /\ t.RK = Turn(s, f, KeyOf(d)) /\ t.CKs = ChainOf(t.RK) /\ t.Ns = 0
             /\ t.DHs = KeyOf(d)
  BY <1>1, <1>2, <1>4, <1>7, Decrypting
<1>12. Candidate(d, mem[d], f) = [secret |-> secret, pending |-> FALSE, ratchet |-> t]
  BY DEF Candidate, s
<1>13. secret \in Key
  <2>1. CASE BuildsFresh(mem[d], f)
    BY <1>9, <2>1, Peers DEF BuildsFresh, Key
  <2>2. CASE ~BuildsFresh(mem[d], f)
    BY <1>6, <2>2 DEF Session
  <2> QED
    BY <2>1, <2>2
<1> DEFINE c == [secret |-> secret, pending |-> FALSE, ratchet |-> t]
<1> HIDE DEF secret, t, f, m
<1>14. c \in Session
  BY <1>11, <1>13 DEF Session
<1>15. ASSUME t.RK = s.RK, t.CKs = s.CKs, t.Ns = s.Ns, t.DHs = s.DHs,
              s.DHr = f.dh \/ s.skipped # <<>>
       PROVE  Fit(d, m + 1, c) /\ \A g \in Released(d) : Past(c, g.key)
  <2>1. ~BuildsFresh(mem[d], f)
    <3>1. f.dh # None
      BY <1>1, Symbols DEF Frame
    <3> QED
      BY <1>5, <1>15, <3>1
  <2>2. s = mem[d].ratchet /\ mem[d] \in Kept(d) /\ Fit(d, m, mem[d])
    BY <1>6, <2>1
  <2>3. OwnRoot(d, m + 1, t.RK)
    BY <1>2, <1>15, <2>2, OwnRootLater DEF Fit
  <2>4. Fit(d, m + 1, c)
    BY <1>11, <1>15, <2>2, <2>3 DEF Fit
  <2>5. \A g \in Released(d) : Past(mem[d], g.key)
    BY <2>2 DEF Inv, Ahead
  <2>6. \A g \in Released(d) : Past(c, g.key)
    BY <1>15, <2>2, <2>5 DEF Past
  <2> QED
    BY <2>4, <2>6
<1>16. ASSUME t.RK = Turn(s, f, KeyOf(d)), t.CKs = ChainOf(t.RK), t.Ns = 0, t.DHs = KeyOf(d)
       PROVE  Fit(d, m + 1, c) /\ \A g \in Released(d) : Past(c, g.key)
  <2>1. /\ t.RK \in Root /\ OwnRoot(d, m + 1, t.RK)
        /\ \A other : OwnRoot(d, m, other) => t.RK # other
    <3>1. t.RK = Turn(s, f, <<d, m + 1>>)
      BY <1>2, <1>16
    <3>2. LET q == Turn(s, f, <<d, m + 1>>)
          IN  /\ q \in Root /\ OwnRoot(d, m + 1, q)
              /\ \A other : OwnRoot(d, m, other) => q # other
      BY <1>1, <1>2, <1>7, <1>9, <1>10, TurnedOwn
    <3> QED
      BY <3>1, <3>2
  <2>2. t.CKs \in ChainKey /\ t.CKs.root = t.RK /\ t.CKs.i = 0
    BY <1>16, <2>1 DEF ChainOf, ChainKey
  <2>3. t.DHs \in {d} \X Nat
    BY <1>2, <1>16
  <2>4. Fit(d, m + 1, c)
    BY <1>11, <1>16, <2>1, <2>2, <2>3, Symbols DEF Fit
  <2>5. ASSUME NEW g \in Released(d) PROVE Past(c, g.key)
    <3>1. OwnRoot(d, m, g.key.root)
      BY Facts DEF Own, m
    <3> QED
      BY <2>1, <2>2, <3>1 DEF Past
  <2> QED
    BY <2>4, <2>5
<1>17. Fit(d, m + 1, c) /\ \A g \in Released(d) : Past(c, g.key)
  BY <1>11, <1>15, <1>16
<1> QED
  BY <1>1, <1>8, <1>12, <1>14, <1>17 DEF f, m

-----------------------------------------------------------------------------
(* What steps have in common.                                              *)

LEMMA FitLater ==
    ASSUME NEW d, NEW m \in Nat, NEW n \in Nat, m <= n, NEW s, Fit(d, m, s)
    PROVE  Fit(d, n, s)
BY OwnRootLater DEF Fit

LEMMA OwnLater ==
    ASSUME NEW d, NEW m \in Nat, NEW n \in Nat, m <= n, NEW f, Own(d, m, f)
    PROVE  Own(d, n, f)
BY OwnRootLater DEF Own

LEMMA SeqLarger ==
    ASSUME NEW S, NEW T, S \subseteq T, NEW seq \in Seq(S)
    PROVE  seq \in Seq(T)
<1>1. Len(seq) \in Nat /\ seq \in [1 .. Len(seq) -> T]
  OBVIOUS
<1> QED
  BY <1>1

\* A step that makes no key, no session and no frame.
LEMMA NothingMade ==
    ASSUME Inv, minted' = minted,
           \A d \in Dev : Kept(d)' \subseteq Kept(d),
           \A d \in Dev : Released(d)' \subseteq Released(d),
           \A d \in Dev : sending'[d] # None => sending'[d] = sending[d] /\ mem'[d] = mem[d]
    PROVE  Sessions' /\ Frames' /\ Ahead' /\ Apart'
<1>1. Sessions'
  BY DEF Inv, Sessions
<1>2. Frames'
  BY DEF Inv, Frames
<1>3. Ahead'
  BY DEF Inv, Ahead
<1>4. Apart'
  BY DEF Inv, Apart
<1> QED
  BY <1>1, <1>2, <1>3, <1>4

\* A step that gives the relay nothing and receives nothing new.
LEMMA NothingQueued ==
    ASSUME Inv, sent \subseteq sent',
           \A d \in Dev : rows'[d] \subseteq rows[d],
           \A d \in Dev : receiving'[d] # None =>
               receiving[d] # None /\ receiving'[d].row = receiving[d].row
    PROVE  Queues'
BY DEF Inv, Queues

LEMMA NothingLogged ==
    ASSUME Inv, sent \subseteq sent', log' = log
    PROVE  Logs'
<1> SUFFICES ASSUME NEW d \in Dev
             PROVE  /\ log[d] \in Seq({f.mid : f \in {g \in sent' : g.from = Peer(d)}})
                    /\ \A j, k \in DOMAIN log[d] : log[d][j] = log[d][k] => j = k
  BY DEF Logs
<1> DEFINE S == {f.mid : f \in {g \in sent : g.from = Peer(d)}}
           T == {f.mid : f \in {g \in sent' : g.from = Peer(d)}}
<1>1. S \subseteq T
  OBVIOUS
<1>2. log[d] \in Seq(S) /\ \A j, k \in DOMAIN log[d] : log[d][j] = log[d][k] => j = k
  BY DEF Inv, Logs
<1> HIDE DEF S, T
<1>3. log[d] \in Seq(T)
  BY <1>1, <1>2, SeqLarger
<1> QED
  BY <1>2, <1>3 DEF T

LEMMA Acknowledging ==
    ASSUME Inv, NEW d \in Dev, NEW row, row.id \in 1 .. nextId - 1, Acknowledge(d, row)
    PROVE  /\ rows' \in [Dev -> SUBSET Row] /\ \A e \in Dev : rows'[e] \subseteq rows[e]
           /\ DOMAIN seen' = Dev /\ \A e \in Dev : seen'[e] \subseteq 1 .. nextId - 1
           /\ \A e \in Dev : \A r \in rows'[e] : r.id \in 1 .. nextId - 1
<1>1. rows \in [Dev -> SUBSET Row] /\ DOMAIN seen = Dev
      /\ (\A e \in Dev : seen[e] \subseteq 1 .. nextId - 1)
      /\ (\A e \in Dev : \A r \in rows[e] : r.id \in 1 .. nextId - 1)
  BY DEF Inv, Types
<1>2. rows' = rows \/ rows' = [rows EXCEPT ![d] = @ \ {row}]
  BY DEF Acknowledge
<1>3. rows' \in [Dev -> SUBSET Row] /\ \A e \in Dev : rows'[e] \subseteq rows[e]
  BY <1>1, <1>2
<1>4. seen' = [seen EXCEPT ![d] = @ \union {row.id}]
  BY DEF Acknowledge
<1>5. DOMAIN seen' = Dev /\ \A e \in Dev : seen'[e] \subseteq 1 .. nextId - 1
  BY <1>1, <1>4
<1> QED
  BY <1>1, <1>3, <1>5

-----------------------------------------------------------------------------
(* Each action keeps the invariant.                                        *)

LEMMA InitInv == Init => Inv
<1> SUFFICES ASSUME Init PROVE Inv
  OBVIOUS
<1>1. Types
  BY DEF Init, Types
<1>2. \A d \in Dev : Released(d) = {} /\ Kept(d) = {} /\ sending[d] = None
  BY DEF Init, Released, Kept
<1>3. Sessions /\ Frames /\ Ahead /\ Apart
  BY <1>2 DEF Sessions, Frames, Ahead, Apart
<1>4. Queues
  BY DEF Init, Queues
<1>5. Logs
  BY DEF Init, Logs
<1> QED
  BY <1>1, <1>3, <1>4, <1>5 DEF Inv

\* The session a device seals with, and the frame it seals.
LEMMA Sealed ==
    ASSUME Inv, NEW d \in Dev,
           NEW n \in Nat, n = (IF mem[d] = None THEN minted[d] + 1 ELSE minted[d])
    PROVE  LET s == SendingSession(d)
           IN  /\ s \in Session /\ Fit(d, n, s)
               /\ \A f \in Released(d) : Past(s, f.key)
               /\ FrameOf(d, s) \in Frame /\ Own(d, n, FrameOf(d, s))
               /\ FrameOf(d, s).key = s.ratchet.CKs
<1> DEFINE s == SendingSession(d)
           f == FrameOf(d, s)
<1>1. s \in Session /\ Fit(d, n, s) /\ \A g \in Released(d) : Past(s, g.key)
  <2>1. CASE mem[d] = None
    <3>1. s = Initiated(d) /\ n = minted[d] + 1
      BY <2>1 DEF SendingSession
    <3> QED
      BY <3>1, Beginning DEF Past
  <2>2. CASE mem[d] # None
    <3>1. s = mem[d] /\ n = minted[d]
      BY <2>2 DEF SendingSession
    <3>2. mem[d] \in Session /\ mem[d] \in Kept(d) /\ Fit(d, minted[d], mem[d])
      BY <2>2, Facts
    <3> QED
      BY <3>1, <3>2 DEF Inv, Ahead
  <2> QED
    BY <2>1, <2>2
<1> HIDE DEF s
<1>2. s.ratchet \in RatchetState /\ s.secret \in Key /\ s.pending \in BOOLEAN
  BY <1>1 DEF Session
<1>3. /\ s.ratchet.DHs \in Part /\ s.ratchet.PN \in Nat /\ s.ratchet.Ns \in Nat
      /\ s.ratchet.CKs \in ChainKey
  BY <1>1, <1>2 DEF RatchetState, Fit
<1>4. said[d] + 1 \in Nat
  BY DEF Inv, Types
<1>5. f = [from |-> d, mid |-> <<d, said[d] + 1>>,
           x3dh |-> IF s.pending THEN s.secret ELSE None,
           dh   |-> s.ratchet.DHs, pn |-> s.ratchet.PN, n |-> s.ratchet.Ns,
           key  |-> s.ratchet.CKs]
  BY DEF FrameOf
<1> HIDE DEF f
<1>6. f \in Frame
  <2>1. (IF s.pending THEN s.secret ELSE None) \in Part \union {None}
    BY <1>2, Symbols
  <2>2. <<d, said[d] + 1>> \in Dev \X Nat
    BY <1>4
  <2> QED
    BY <1>3, <1>5, <2>1, <2>2 DEF Frame
<1>7. Own(d, n, f)
  <2>1. f.from = d /\ f.dh \in {d} \X Nat
    BY <1>1, <1>5 DEF Fit
  <2>2. f.x3dh # None => f.x3dh \in {d} \X Nat
    BY <1>1, <1>2, <1>5 DEF Fit, Key
  <2>3. f.key # Junk /\ OwnRoot(d, n, f.key.root)
    BY <1>1, <1>3, <1>5, Symbols DEF Fit
  <2> QED
    BY <2>1, <2>2, <2>3 DEF Own
<1>8. f.key = s.ratchet.CKs
  BY <1>5
<1> QED
  BY <1>1, <1>6, <1>7, <1>8 DEF s, f

LEMMA EncryptInv == ASSUME Inv, NEW d \in Dev, Encrypt(d) PROVE Inv'
<1> DEFINE s0 == SendingSession(d)
           n0 == IF mem[d] = None THEN minted[d] + 1 ELSE minted[d]
<1> PICK s : s = s0
  OBVIOUS
<1> PICK n : n = n0
  OBVIOUS
<1> PICK f : f = FrameOf(d, s)
  OBVIOUS
<1> PICK t : t = [s EXCEPT !.ratchet = AfterEncrypt(s.ratchet)]
  OBVIOUS
<1>1. /\ mem' = [mem EXCEPT ![d] = t] /\ sending' = [sending EXCEPT ![d] = f]
      /\ minted' = [minted EXCEPT ![d] = n] /\ said' = [said EXCEPT ![d] = @ + 1]
      /\ sending[d] = None /\ receiving[d] = None
      /\ UNCHANGED <<disk, log, receiving, sealed, rows, seen, nextId, faults, fenced, history>>
  BY DEF Encrypt, QueueFree
<1>2. /\ mem \in [Dev -> Session \union {None}] /\ minted \in [Dev -> Nat] /\ said \in [Dev -> Nat]
      /\ sending \in [Dev -> Frame \union {None}]
  BY DEF Inv, Types
<1>3. n \in Nat /\ minted[d] \in Nat /\ minted[d] <= n
  BY <1>2
<1>4. /\ s \in Session /\ Fit(d, n, s) /\ \A g \in Released(d) : Past(s, g.key)
      /\ f \in Frame /\ Own(d, n, f) /\ f.key = s.ratchet.CKs
  BY <1>3, Sealed
<1>5. /\ t \in Session /\ Fit(d, n, t) /\ t.ratchet.CKs.root = s.ratchet.CKs.root
      /\ t.ratchet.CKs.i = s.ratchet.CKs.i + 1 /\ s.ratchet.CKs.i \in Nat
  <2>1. s.ratchet.CKs.i \in Nat
    BY <1>4 DEF Fit, Session, RatchetState, ChainKey
  <2> QED
    BY <1>3, <1>4, <2>1, Sealing
<1>6. t # None /\ f # None
  BY <1>4, <1>5, Symbols
<1>7. Types'
  <2>1. mem' \in [Dev -> Session \union {None}] /\ sending' \in [Dev -> Frame \union {None}]
        /\ minted' \in [Dev -> Nat] /\ said' \in [Dev -> Nat]
    BY <1>1, <1>2, <1>3, <1>4, <1>5
  <2>2. \A e \in Dev : sending'[e] = None \/ receiving'[e] = None
    BY <1>1, <1>2 DEF Inv, Types
  <2> QED
    BY <1>1, <2>1, <2>2 DEF Inv, Types, history
<1>8. \A e \in Dev : Released(e)' = Released(e)
  BY <1>1 DEF Released, history
<1>9. /\ \A e \in Dev \ {d} : Kept(e)' = Kept(e) /\ minted'[e] = minted[e] /\ mem'[e] = mem[e]
                              /\ sending'[e] = sending[e]
      /\ Kept(d)' \subseteq {t} \union Kept(d)
      /\ minted'[d] = n /\ mem'[d] = t /\ sending'[d] = f
  BY <1>1, <1>2 DEF Kept
<1>10. Sessions'
  <2>1. ASSUME NEW x \in Kept(d)' PROVE Fit(d, n, x)
    <3>1. CASE x = t
      BY <1>5, <3>1
    <3>2. CASE x \in Kept(d)
      BY <1>3, <3>2, FitLater DEF Inv, Sessions
    <3> QED
      BY <1>9, <3>1, <3>2
  <2> QED
    BY <1>9, <2>1 DEF Inv, Sessions
<1>11. Frames'
  <2>1. \A g \in Released(d) : Own(d, n, g)
    BY <1>3, OwnLater DEF Inv, Frames
  <2> QED
    BY <1>4, <1>8, <1>9, <2>1 DEF Inv, Frames
<1>12. Queues'
  BY <1>1, NothingQueued DEF history
<1>13. Ahead'
  <2>1. ASSUME NEW g \in Released(d), NEW x \in Kept(d)' PROVE Past(x, g.key)
    <3>1. CASE x = t
      <4>1. Past(s, g.key)
        BY <1>4
      <4>2. g.key.root = s.ratchet.CKs.root => g.key.i \in Nat
        <5>1. g \in Frame /\ g.key # Junk
          BY Facts DEF Own
        <5> QED
          BY <5>1 DEF Frame, ChainKey
      <4> QED
        BY <1>5, <3>1, <4>1, <4>2 DEF Past
    <3>2. CASE x \in Kept(d)
      BY <3>2 DEF Inv, Ahead
    <3> QED
      BY <1>9, <3>1, <3>2
  <2>2. Past(t, f.key)
    BY <1>4, <1>5 DEF Past
  <2>3. \A g \in Released(d) : g.key # f.key
    BY <1>4, <1>5 DEF Past
  <2> QED
    BY <1>6, <1>8, <1>9, <2>1, <2>2, <2>3 DEF Inv, Ahead
<1>14. Apart'
  BY <1>8 DEF Inv, Apart
<1>15. Logs'
  BY <1>1, NothingLogged DEF history
<1> QED
  BY <1>7, <1>10, <1>11, <1>12, <1>13, <1>14, <1>15 DEF Inv

LEMMA SendSavedInv == ASSUME Inv, NEW d \in Dev, SendSaved(d) PROVE Inv'
<1> DEFINE f == sending[d]
<1>1. /\ f # None /\ receiving[d] = None /\ f \in Frame /\ Own(d, minted[d], f)
      /\ mem[d] # None /\ Past(mem[d], f.key)
      /\ \A g \in Released(d) : g.key # f.key
  BY DEF SendSaved, Inv, Types, Frames, Ahead
<1>2. /\ disk' = [disk EXCEPT ![d] = mem[d]]
      /\ sealed' = [sealed EXCEPT ![d] = IF fenced[d] = None THEN @ \union {f} ELSE @]
      /\ sending' = [sending EXCEPT ![d] = None]
      /\ UNCHANGED <<mem, log, receiving, rows, seen, minted, said, nextId, faults, fenced, history>>
  BY DEF SendSaved
<1>3. /\ mem \in [Dev -> Session \union {None}] /\ disk \in [Dev -> Session \union {None}]
      /\ sealed \in [Dev -> SUBSET Frame] /\ sending \in [Dev -> Frame \union {None}]
  BY DEF Inv, Types
<1>4. Types'
  <2>1. /\ disk' \in [Dev -> Session \union {None}] /\ sealed' \in [Dev -> SUBSET Frame]
        /\ sending' \in [Dev -> Frame \union {None}]
    BY <1>1, <1>2, <1>3
  <2>2. \A e \in Dev : sending'[e] = None \/ receiving'[e] = None
    BY <1>2, <1>3 DEF Inv, Types
  <2> QED
    BY <1>2, <2>1, <2>2 DEF Inv, Types, history
<1>5. /\ \A e \in Dev \ {d} : Released(e)' = Released(e) /\ Kept(e)' = Kept(e)
                              /\ sending'[e] = sending[e]
      /\ Released(d)' \subseteq Released(d) \union {f}
      /\ Kept(d)' \subseteq {mem[d]} /\ Kept(d)' \subseteq Kept(d) /\ sending'[d] = None
  BY <1>1, <1>2, <1>3 DEF Released, Kept, history
<1>6. Sessions'
  BY <1>2, <1>5 DEF Inv, Sessions
<1>7. Frames'
  BY <1>1, <1>2, <1>5 DEF Inv, Frames
<1>8. Queues'
  BY <1>2, NothingQueued DEF history
<1>9. Ahead'
  BY <1>1, <1>2, <1>5 DEF Inv, Ahead
<1>10. Apart'
  <2>1. \A e \in Dev \ {d} : \A g, h \in Released(e)' : g.key = h.key => g = h
    BY <1>5 DEF Inv, Apart
  <2>2. \A g, h \in Released(d)' : g.key = h.key => g = h
    BY <1>1, <1>5 DEF Inv, Apart
  <2> QED
    BY <2>1, <2>2 DEF Apart
<1>11. Logs'
  BY <1>2, NothingLogged DEF history
<1> QED
  BY <1>4, <1>6, <1>7, <1>8, <1>9, <1>10, <1>11 DEF Inv

LEMMA WireInv == ASSUME Inv, NEW d \in Dev, NEW f \in sealed[d], Wire(d, f) PROVE Inv'
<1>1. /\ sealed' = [sealed EXCEPT ![d] = @ \ {f}] /\ sent' = sent \union {f}
      /\ rows' = [rows EXCEPT ![Peer(d)] = @ \union {[id |-> nextId, frame |-> f]}]
      /\ nextId' = nextId + 1
      /\ UNCHANGED <<mem, disk, log, sending, receiving, seen, minted, said, waived, faults, fenced, abandoned>>
  BY DEF Wire, tasks
<1>2. /\ sealed \in [Dev -> SUBSET Frame] /\ rows \in [Dev -> SUBSET Row] /\ nextId \in Nat \ {0}
      /\ sent \subseteq Frame
  BY DEF Inv, Types
<1>3. f \in Frame /\ f \in Released(d) /\ f.from = d
  <2>1. f \in Frame /\ f \in Released(d)
    BY <1>2 DEF Released
  <2> QED
    BY <2>1 DEF Inv, Frames, Own
<1>4. [id |-> nextId, frame |-> f] \in Row
  BY <1>2, <1>3 DEF Row
<1>5. Peer(d) \in Dev /\ Peer(Peer(d)) = d
  BY Peers
<1>6. Types'
  <2>1. /\ sealed' \in [Dev -> SUBSET Frame] /\ rows' \in [Dev -> SUBSET Row] /\ sent' \subseteq Frame
        /\ nextId' \in Nat \ {0}
    BY <1>1, <1>2, <1>3, <1>4, <1>5
  <2>2. \A e \in Dev : seen'[e] \subseteq 1 .. nextId' - 1
    BY <1>1, <1>2 DEF Inv, Types
  <2>3. \A e \in Dev : \A row \in rows'[e] : row.id \in 1 .. nextId' - 1
    <3>1. ASSUME NEW e \in Dev, NEW row \in rows'[e] PROVE row.id \in 1 .. nextId
      <4>1. row \in rows[e] \/ row = [id |-> nextId, frame |-> f]
        BY <1>1, <1>2, <1>5
      <4>2. row \in rows[e] => row.id \in 1 .. nextId - 1
        BY DEF Inv, Types
      <4>3. nextId \in 1 .. nextId
        BY <1>2
      <4> QED
        BY <1>2, <4>1, <4>2, <4>3
    <3> QED
      BY <1>1, <1>2, <3>1
  <2>4. \A e \in Dev : receiving'[e] # None => receiving'[e].row.id \in 1 .. nextId' - 1
    BY <1>1, <1>2 DEF Inv, Types
  <2> QED
    BY <1>1, <2>1, <2>2, <2>3, <2>4 DEF Inv, Types
<1>7. \A e \in Dev : Released(e)' \subseteq Released(e) /\ Kept(e)' = Kept(e)
  BY <1>1, <1>2, <1>3 DEF Released, Kept
<1>8. Sessions' /\ Frames' /\ Ahead' /\ Apart'
  BY <1>1, <1>7, NothingMade
<1>9. Queues'
  <2>1. ASSUME NEW e \in Dev, NEW row \in rows'[e]
        PROVE  row.frame.from = Peer(e) /\ (row.frame.key = Junk \/ row.frame \in sent')
    <3>1. row \in rows[e] \/ (e = Peer(d) /\ row.frame = f)
      BY <1>1, <1>2, <1>5
    <3> QED
      BY <1>1, <1>3, <1>5, <3>1 DEF Inv, Queues
  <2>2. \A e \in Dev : receiving'[e] # None =>
          receiving'[e].row.frame.from = Peer(e) /\ receiving'[e].row.frame \in sent'
    BY <1>1 DEF Inv, Queues
  <2> QED
    BY <2>1, <2>2 DEF Queues
<1>10. Logs'
  BY <1>1, NothingLogged
<1> QED
  BY <1>6, <1>8, <1>9, <1>10 DEF Inv

LEMMA OpenInv == ASSUME Inv, NEW d \in Dev, NEW row \in rows[d], Open(d, row) PROVE Inv'
<1> PICK c : c = Candidate(d, mem[d], row.frame)
  OBVIOUS
<1> PICK r : r = [at |-> "apply", row |-> row, cand |-> c]
  OBVIOUS
<1>1. /\ sending[d] = None /\ receiving[d] = None /\ Accepts(d, mem[d], row.frame)
      /\ receiving' = [receiving EXCEPT ![d] = r] /\ minted' = [minted EXCEPT ![d] = @ + 1]
      /\ UNCHANGED <<mem, disk, log, sending, sealed, rows, seen, said, nextId, faults, fenced, history>>
  BY DEF Open, QueueFree
<1>2. /\ c \in Session /\ Fit(d, minted[d] + 1, c) /\ \A f \in Released(d) : Past(c, f.key)
      /\ row.frame \in sent /\ row.frame.from = Peer(d)
  BY <1>1, Opening
<1>3. /\ receiving \in [Dev -> Receipt \union {None}] /\ minted \in [Dev -> Nat]
      /\ row \in Row /\ row.id \in 1 .. nextId - 1
  BY DEF Inv, Types
<1>4. r \in Receipt /\ r # None /\ r.cand = c /\ r.row = row
  <2>1. r \in Receipt
    BY <1>2, <1>3 DEF Receipt
  <2> QED
    BY <2>1, Symbols
<1>5. Types'
  <2>1. receiving' \in [Dev -> Receipt \union {None}] /\ minted' \in [Dev -> Nat]
    BY <1>1, <1>3, <1>4
  <2>2. \A e \in Dev : sending'[e] = None \/ receiving'[e] = None
    BY <1>1, <1>3 DEF Inv, Types
  <2>3. \A e \in Dev : receiving'[e] # None => receiving'[e].row.id \in 1 .. nextId' - 1
    BY <1>1, <1>3, <1>4 DEF Inv, Types
  <2> QED
    BY <1>1, <2>1, <2>2, <2>3 DEF Inv, Types, history
<1>6. /\ \A e \in Dev : Released(e)' = Released(e) /\ sending'[e] = sending[e] /\ mem'[e] = mem[e]
      /\ \A e \in Dev \ {d} : Kept(e)' = Kept(e) /\ minted'[e] = minted[e]
      /\ Kept(d)' \subseteq Kept(d) \union {c} /\ minted'[d] = minted[d] + 1 /\ minted[d] \in Nat
  BY <1>1, <1>3, <1>4 DEF Released, Kept, history
<1>7. Sessions'
  <2>1. \A x \in Kept(d) : Fit(d, minted[d] + 1, x)
    BY <1>6, FitLater DEF Inv, Sessions
  <2> QED
    BY <1>2, <1>6, <2>1 DEF Inv, Sessions
<1>8. Frames'
  <2>1. \A g \in Released(d) : Own(d, minted[d] + 1, g)
    BY <1>6, OwnLater DEF Inv, Frames
  <2>2. sending'[d] = None
    BY <1>1
  <2> QED
    BY <1>6, <2>1, <2>2 DEF Inv, Frames
<1>9. Queues'
  BY <1>1, <1>2, <1>3, <1>4 DEF Inv, Queues, history
<1>10. Ahead'
  BY <1>2, <1>6 DEF Inv, Ahead
<1>11. Apart'
  BY <1>6 DEF Inv, Apart
<1>12. Logs'
  BY <1>1, NothingLogged DEF history
<1> QED
  BY <1>5, <1>7, <1>8, <1>9, <1>10, <1>11, <1>12 DEF Inv

LEMMA AckAgainInv == ASSUME Inv, NEW d \in Dev, NEW row \in rows[d], AckAgain(d, row) PROVE Inv'
<1>1. /\ Acknowledge(d, row)
      /\ UNCHANGED <<mem, disk, log, sending, receiving, sealed, minted, said, nextId, fenced,
                     sent, waived, abandoned>>
  BY DEF AckAgain, history, tasks
<1>2. row.id \in 1 .. nextId - 1
  BY DEF Inv, Types
<1>3. /\ rows' \in [Dev -> SUBSET Row] /\ \A e \in Dev : rows'[e] \subseteq rows[e]
      /\ DOMAIN seen' = Dev /\ \A e \in Dev : seen'[e] \subseteq 1 .. nextId - 1
      /\ \A e \in Dev : \A r \in rows'[e] : r.id \in 1 .. nextId - 1
  BY <1>1, <1>2, Acknowledging
<1>4. Types'
  BY <1>1, <1>3 DEF Inv, Types
<1>5. \A e \in Dev : Released(e)' = Released(e) /\ Kept(e)' = Kept(e)
  BY <1>1 DEF Released, Kept
<1>6. Sessions' /\ Frames' /\ Ahead' /\ Apart'
  BY <1>1, <1>5, NothingMade
<1>7. Queues' /\ Logs'
  BY <1>1, <1>3, NothingQueued, NothingLogged
<1> QED
  BY <1>4, <1>6, <1>7 DEF Inv

LEMMA DropInv == ASSUME Inv, NEW d \in Dev, NEW row \in rows[d], Drop(d, row) PROVE Inv'
<1>1. /\ Acknowledge(d, row)
      /\ UNCHANGED <<mem, disk, log, sending, receiving, sealed, minted, said, nextId, fenced,
                     sent, abandoned>>
  BY DEF Drop, tasks
<1>2. row.id \in 1 .. nextId - 1
  BY DEF Inv, Types
<1>3. /\ rows' \in [Dev -> SUBSET Row] /\ \A e \in Dev : rows'[e] \subseteq rows[e]
      /\ DOMAIN seen' = Dev /\ \A e \in Dev : seen'[e] \subseteq 1 .. nextId - 1
      /\ \A e \in Dev : \A r \in rows'[e] : r.id \in 1 .. nextId - 1
  BY <1>1, <1>2, Acknowledging
<1>4. Types'
  BY <1>1, <1>3 DEF Inv, Types
<1>5. \A e \in Dev : Released(e)' = Released(e) /\ Kept(e)' = Kept(e)
  BY <1>1 DEF Released, Kept
<1>6. Sessions' /\ Frames' /\ Ahead' /\ Apart'
  BY <1>1, <1>5, NothingMade
<1>7. Queues' /\ Logs'
  BY <1>1, <1>3, NothingQueued, NothingLogged
<1> QED
  BY <1>4, <1>6, <1>7 DEF Inv

\* A receipt that moves on is the receipt it was.
LEMMA MovedOn ==
    ASSUME NEW r \in Receipt, NEW at \in {"apply", "commit", "ack"}
    PROVE  LET q == [r EXCEPT !.at = at]
           IN  q \in Receipt /\ q # None /\ q.row = r.row /\ q.cand = r.cand
<1>1. [r EXCEPT !.at = at] \in Receipt
  BY DEF Receipt
<1>2. [r EXCEPT !.at = at].row = r.row /\ [r EXCEPT !.at = at].cand = r.cand
  BY DEF Receipt
<1> QED
  BY <1>1, <1>2, Symbols

LEMMA ApplyInv == ASSUME Inv, NEW d \in Dev, Apply(d) PROVE Inv'
<1> DEFINE mid == receiving[d].row.frame.mid
<1> PICK q : q = [receiving[d] EXCEPT !.at = "commit"]
  OBVIOUS
<1>1. /\ receiving[d] # None /\ receiving' = [receiving EXCEPT ![d] = q]
      /\ log' = [log EXCEPT ![d] = IF Logged(d, mid) THEN @ ELSE Append(@, mid)]
      /\ UNCHANGED <<mem, disk, sending, sealed, rows, seen, minted, said, nextId, faults, fenced,
                     sent, waived, abandoned>>
  BY DEF Apply, At, history
<1>2. /\ receiving \in [Dev -> Receipt \union {None}] /\ log \in [Dev -> Seq(Dev \X Nat)]
  BY DEF Inv, Types
<1>3. q \in Receipt /\ q # None /\ q.row = receiving[d].row /\ q.cand = receiving[d].cand
  BY <1>1, <1>2, MovedOn
<1>4. receiving' \in [Dev -> Receipt \union {None}]
  BY <1>1, <1>2, <1>3
<1>5. /\ \A e \in Dev : receiving'[e] # None =>
            receiving[e] # None /\ receiving'[e].row = receiving[e].row
      /\ \A e \in Dev : Released(e)' = Released(e) /\ Kept(e)' = Kept(e)
  BY <1>1, <1>2, <1>3 DEF Released, Kept
<1>6. Types'
  <2>1. \A e \in Dev : sending'[e] = None \/ receiving'[e] = None
    BY <1>1, <1>5 DEF Inv, Types
  <2>2. \A e \in Dev : receiving'[e] # None => receiving'[e].row.id \in 1 .. nextId' - 1
    BY <1>1, <1>5 DEF Inv, Types
  <2>3. log' \in [Dev -> Seq(Dev \X Nat)]
    <3>1. mid \in Dev \X Nat
      BY <1>1, <1>2 DEF Receipt, Row, Frame
    <3>2. Append(log[d], mid) \in Seq(Dev \X Nat)
      BY <1>2, <3>1, AppendProperties
    <3> QED
      BY <1>1, <1>2, <3>2
  <2> QED
    BY <1>1, <1>4, <2>1, <2>2, <2>3 DEF Inv, Types
<1>7. Sessions' /\ Frames' /\ Ahead' /\ Apart'
  BY <1>1, <1>5, NothingMade
<1>8. Queues'
  BY <1>1, <1>5, NothingQueued
<1>9. Logs'
  <2> DEFINE T == {f.mid : f \in {g \in sent : g.from = Peer(d)}}
  <2>1. log[d] \in Seq(T) /\ (\A j, k \in DOMAIN log[d] : log[d][j] = log[d][k] => j = k)
    BY DEF Inv, Logs
  <2>2. mid \in T
    BY <1>1 DEF Inv, Queues
  <2>3. \A e \in Dev \ {d} : log'[e] = log[e]
    BY <1>1, <1>2
  <2>4. log'[d] \in Seq(T) /\ \A j, k \in DOMAIN log'[d] : log'[d][j] = log'[d][k] => j = k
    <3>1. CASE Logged(d, mid)
      BY <1>1, <1>2, <2>1, <3>1
    <3>2. CASE ~Logged(d, mid)
      <4> HIDE DEF T, mid
      <4>1. log'[d] = Append(log[d], mid)
        BY <1>1, <1>2, <3>2
      <4>2. /\ Append(log[d], mid) \in Seq(T) /\ Len(Append(log[d], mid)) = Len(log[d]) + 1
            /\ Append(log[d], mid)[Len(log[d]) + 1] = mid
            /\ \A i \in 1 .. Len(log[d]) : Append(log[d], mid)[i] = log[d][i]
        BY <2>1, <2>2, AppendProperties
      <4>3. \A k \in 1 .. Len(log[d]) : log[d][k] # mid
        BY <2>1, <3>2 DEF Logged
      <4>4. Len(log[d]) \in Nat /\ DOMAIN log[d] = 1 .. Len(log[d])
            /\ DOMAIN Append(log[d], mid) = 1 .. Len(log[d]) + 1
        BY <2>1, <4>2
      <4>5. ASSUME NEW j \in DOMAIN Append(log[d], mid), NEW k \in DOMAIN Append(log[d], mid),
                   Append(log[d], mid)[j] = Append(log[d], mid)[k]
            PROVE  j = k
        <5>1. CASE j = Len(log[d]) + 1 \/ k = Len(log[d]) + 1
          BY <4>2, <4>3, <4>4, <4>5, <5>1
        <5>2. CASE j \in 1 .. Len(log[d]) /\ k \in 1 .. Len(log[d])
          BY <2>1, <4>2, <4>4, <4>5, <5>2
        <5> QED
          BY <4>4, <5>1, <5>2
      <4> QED
        BY <4>1, <4>2, <4>5
    <3> QED
      BY <3>1, <3>2
  <2>5. ASSUME NEW e \in Dev
        PROVE  /\ log'[e] \in Seq({f.mid : f \in {g \in sent : g.from = Peer(e)}})
               /\ \A j, k \in DOMAIN log'[e] : log'[e][j] = log'[e][k] => j = k
    <3>1. CASE e = d
      BY <2>4, <3>1
    <3>2. CASE e # d
      BY <2>3, <3>2 DEF Inv, Logs
    <3> QED
      BY <3>1, <3>2
  <2>6. sent' = sent
    BY <1>1
  <2> QED
    BY <2>5, <2>6 DEF Logs
<1> QED
  BY <1>6, <1>7, <1>8, <1>9 DEF Inv

\* A receive that is over, one way or another.
LEMMA ReceiveOver ==
    ASSUME Inv, NEW d \in Dev, receiving[d] # None,
           receiving' = [receiving EXCEPT ![d] = None],
           UNCHANGED <<mem, disk, log, sending, fenced, sealed, minted, said, sent, nextId>>,
           Acknowledge(d, receiving[d].row) \/ UNCHANGED <<rows, seen>>
    PROVE  Inv'
<1>1. /\ rows' \in [Dev -> SUBSET Row] /\ \A e \in Dev : rows'[e] \subseteq rows[e]
      /\ DOMAIN seen' = Dev /\ \A e \in Dev : seen'[e] \subseteq 1 .. nextId - 1
      /\ \A e \in Dev : \A r \in rows'[e] : r.id \in 1 .. nextId - 1
  <2>1. receiving[d].row.id \in 1 .. nextId - 1
    BY DEF Inv, Types
  <2>2. CASE Acknowledge(d, receiving[d].row)
    BY <2>1, <2>2, Acknowledging
  <2>3. CASE UNCHANGED <<rows, seen>>
    BY <2>3 DEF Inv, Types
  <2> QED
    BY <2>2, <2>3
<1>2. receiving \in [Dev -> Receipt \union {None}]
  BY DEF Inv, Types
<1>3. /\ \A e \in Dev : receiving'[e] # None =>
            receiving[e] # None /\ receiving'[e] = receiving[e]
      /\ \A e \in Dev : Released(e)' = Released(e) /\ Kept(e)' \subseteq Kept(e)
      /\ receiving' \in [Dev -> Receipt \union {None}]
  BY <1>2 DEF Released, Kept
<1>4. Types'
  BY <1>1, <1>3 DEF Inv, Types
<1>5. Sessions' /\ Frames' /\ Ahead' /\ Apart'
  BY <1>3, NothingMade
<1>6. Queues' /\ Logs'
  BY <1>1, <1>3, NothingQueued, NothingLogged
<1> QED
  BY <1>4, <1>5, <1>6 DEF Inv

LEMMA RefuseInv == ASSUME Inv, NEW d \in Dev, Refuse(d) PROVE Inv'
BY ReceiveOver DEF Refuse, At

LEMMA FinishInv == ASSUME Inv, NEW d \in Dev, Finish(d) PROVE Inv'
BY ReceiveOver DEF Finish, At, history

LEMMA ReceiveFailsInv == ASSUME Inv, NEW d \in Dev, ReceiveFails(d) PROVE Inv'
BY ReceiveOver DEF ReceiveFails, At, history

LEMMA CommitInv == ASSUME Inv, NEW d \in Dev, Commit(d) PROVE Inv'
<1> DEFINE c == receiving[d].cand
<1> PICK q : q = [receiving[d] EXCEPT !.at = "ack"]
  OBVIOUS
<1>1. /\ receiving[d] # None /\ receiving' = [receiving EXCEPT ![d] = q]
      /\ disk' = [disk EXCEPT ![d] = c] /\ mem' = [mem EXCEPT ![d] = c]
      /\ UNCHANGED <<log, sending, sealed, rows, seen, minted, said, sent, nextId, faults, fenced,
                     abandoned>>
  BY DEF Commit, At
<1>2. /\ receiving \in [Dev -> Receipt \union {None}] /\ mem \in [Dev -> Session \union {None}]
      /\ disk \in [Dev -> Session \union {None}] /\ receiving[d] \in Receipt
  BY <1>1 DEF Inv, Types
<1>3. /\ q \in Receipt /\ q # None /\ q.row = receiving[d].row /\ q.cand = c
      /\ c \in Session /\ c \in Kept(d)
  <2>1. c \in Session /\ c \in Kept(d)
    BY <1>1, <1>2 DEF Receipt, Kept
  <2> QED
    BY <1>2, <2>1, MovedOn
<1> HIDE DEF c
<1>4. /\ receiving' \in [Dev -> Receipt \union {None}] /\ mem' \in [Dev -> Session \union {None}]
      /\ disk' \in [Dev -> Session \union {None}]
  BY <1>1, <1>2, <1>3
<1>5. /\ \A e \in Dev : receiving'[e] # None =>
            receiving[e] # None /\ receiving'[e].row = receiving[e].row
      /\ \A e \in Dev : Released(e)' = Released(e)
      /\ \A e \in Dev \ {d} : Kept(e)' = Kept(e) /\ mem'[e] = mem[e]
      /\ Kept(d)' \subseteq Kept(d) /\ sending[d] = None
  <2>1. sending[d] = None
    BY <1>1 DEF Inv, Types
  <2>2. mem'[d] = c /\ disk'[d] = c /\ receiving'[d] = q
    BY <1>1, <1>2
  <2>3. Kept(d)' \subseteq {c}
    BY <1>3, <2>2 DEF Kept
  <2> QED
    BY <1>1, <1>2, <1>3, <2>1, <2>3 DEF Released, Kept
<1>6. Types'
  <2>1. \A e \in Dev : sending'[e] = None \/ receiving'[e] = None
    BY <1>1, <1>5 DEF Inv, Types
  <2>2. \A e \in Dev : receiving'[e] # None => receiving'[e].row.id \in 1 .. nextId' - 1
    BY <1>1, <1>5 DEF Inv, Types
  <2> QED
    BY <1>1, <1>4, <2>1, <2>2 DEF Inv, Types
<1>7. Sessions' /\ Frames' /\ Ahead' /\ Apart'
  <2>1. \A e \in Dev : sending'[e] # None => sending'[e] = sending[e] /\ mem'[e] = mem[e]
    BY <1>1, <1>5
  <2>2. \A e \in Dev : Kept(e)' \subseteq Kept(e)
    BY <1>5
  <2> QED
    BY <1>1, <1>5, <2>1, <2>2, NothingMade
<1>8. Queues' /\ Logs'
  BY <1>1, <1>5, NothingQueued, NothingLogged
<1> QED
  BY <1>6, <1>7, <1>8 DEF Inv

LEMMA SendFailsInv == ASSUME Inv, NEW d \in Dev, SendFails(d) PROVE Inv'
<1>1. /\ sending' = [sending EXCEPT ![d] = None]
      /\ UNCHANGED <<mem, disk, log, receiving, sealed, rows, seen, minted, said, nextId, fenced,
                     sent, waived, abandoned>>
  BY DEF SendFails, history
<1>2. sending \in [Dev -> Frame \union {None}]
  BY DEF Inv, Types
<1>3. /\ \A e \in Dev : Released(e)' = Released(e) /\ Kept(e)' = Kept(e)
      /\ \A e \in Dev : sending'[e] # None => sending'[e] = sending[e]
      /\ sending' \in [Dev -> Frame \union {None}]
  BY <1>1, <1>2 DEF Released, Kept
<1>4. Types'
  BY <1>1, <1>3 DEF Inv, Types
<1>5. Sessions' /\ Frames' /\ Ahead' /\ Apart'
  BY <1>1, <1>3, NothingMade
<1>6. Queues' /\ Logs'
  BY <1>1, NothingQueued, NothingLogged
<1> QED
  BY <1>4, <1>5, <1>6 DEF Inv

LEMMA CrashInv == ASSUME Inv, NEW d \in Dev, Crash(d) PROVE Inv'
<1>1. /\ mem' = [mem EXCEPT ![d] = disk[d]] /\ sending' = [sending EXCEPT ![d] = None]
      /\ receiving' = [receiving EXCEPT ![d] = None] /\ sealed' = [sealed EXCEPT ![d] = {}]
      /\ seen' = [seen EXCEPT ![d] = {}] /\ fenced' = [fenced EXCEPT ![d] = None]
      /\ UNCHANGED <<disk, log, rows, minted, said, nextId, sent, waived, abandoned>>
  BY DEF Crash, history
<1>2. /\ mem \in [Dev -> Session \union {None}] /\ disk \in [Dev -> Session \union {None}]
      /\ sending \in [Dev -> Frame \union {None}] /\ receiving \in [Dev -> Receipt \union {None}]
      /\ sealed \in [Dev -> SUBSET Frame] /\ fenced \in [Dev -> Nat \union {None}]
      /\ DOMAIN seen = Dev
  BY DEF Inv, Types
<1>3. /\ mem' \in [Dev -> Session \union {None}] /\ sending' \in [Dev -> Frame \union {None}]
      /\ receiving' \in [Dev -> Receipt \union {None}] /\ sealed' \in [Dev -> SUBSET Frame]
      /\ fenced' \in [Dev -> Nat \union {None}] /\ DOMAIN seen' = Dev
      /\ \A e \in Dev : seen'[e] \subseteq seen[e]
  BY <1>1, <1>2
<1>4. /\ \A e \in Dev : Released(e)' \subseteq Released(e) /\ Kept(e)' \subseteq Kept(e)
      /\ \A e \in Dev : sending'[e] # None => sending'[e] = sending[e] /\ mem'[e] = mem[e]
      /\ \A e \in Dev : receiving'[e] # None => receiving[e] # None /\ receiving'[e] = receiving[e]
  BY <1>1, <1>2 DEF Released, Kept
<1>5. Types'
  <2>1. \A e \in Dev : sending'[e] = None \/ receiving'[e] = None
    BY <1>4 DEF Inv, Types
  <2>2. \A e \in Dev : receiving'[e] # None => receiving'[e].row.id \in 1 .. nextId' - 1
    BY <1>1, <1>4 DEF Inv, Types
  <2>3. \A e \in Dev : seen'[e] \subseteq 1 .. nextId' - 1
    BY <1>1, <1>3 DEF Inv, Types
  <2> QED
    BY <1>1, <1>3, <2>1, <2>2, <2>3 DEF Inv, Types
<1>6. Sessions' /\ Frames' /\ Ahead' /\ Apart'
  BY <1>1, <1>4, NothingMade
<1>7. Queues' /\ Logs'
  BY <1>1, <1>4, NothingQueued, NothingLogged
<1> QED
  BY <1>5, <1>6, <1>7 DEF Inv

\* The fence: what the relays had not sent goes with it.
LEMMA FenceInv ==
    ASSUME Inv, NEW d \in Dev, Suspend(d) \/ Resume(d)
    PROVE  Inv'
<1>1. /\ fenced' = [fenced EXCEPT ![d] = nextId] \/ fenced' = [fenced EXCEPT ![d] = None]
      /\ sealed' = [sealed EXCEPT ![d] = {}] \/ sealed' = sealed
      /\ UNCHANGED <<mem, disk, log, sending, receiving, rows, seen, minted, said, nextId,
                     sent, waived, abandoned>>
  BY DEF Suspend, Resume, tasks, history
<1>2. sealed \in [Dev -> SUBSET Frame] /\ fenced \in [Dev -> Nat \union {None}] /\ nextId \in Nat
  BY DEF Inv, Types
<1>3. /\ sealed' \in [Dev -> SUBSET Frame] /\ fenced' \in [Dev -> Nat \union {None}]
      /\ \A e \in Dev : sealed'[e] \subseteq sealed[e]
  BY <1>1, <1>2
<1>4. \A e \in Dev : Released(e)' \subseteq Released(e) /\ Kept(e)' = Kept(e)
  BY <1>1, <1>3 DEF Released, Kept
<1>5. Types'
  BY <1>1, <1>3 DEF Inv, Types
<1>6. Sessions' /\ Frames' /\ Ahead' /\ Apart'
  BY <1>1, <1>4, NothingMade
<1>7. Queues' /\ Logs'
  BY <1>1, NothingQueued, NothingLogged
<1> QED
  BY <1>5, <1>6, <1>7 DEF Inv

\* What the relay holds twice, and what is not genuine.
LEMMA ArriveInv ==
    ASSUME Inv, NEW d \in Dev, NEW f \in Frame, f.from = Peer(d), f.key = Junk \/ f \in sent,
           Arrive(d, f)
    PROVE  Inv'
<1>1. /\ rows' = [rows EXCEPT ![d] = @ \union {[id |-> nextId, frame |-> f]}]
      /\ nextId' = nextId + 1
      /\ UNCHANGED <<mem, disk, log, sending, receiving, sealed, seen, minted, said, fenced,
                     sent, waived, abandoned>>
  BY DEF Arrive, tasks, history
<1>2. rows \in [Dev -> SUBSET Row] /\ nextId \in Nat \ {0}
  BY DEF Inv, Types
<1>3. [id |-> nextId, frame |-> f] \in Row
  BY <1>2 DEF Row
<1>4. Types'
  <2>1. rows' \in [Dev -> SUBSET Row] /\ nextId' \in Nat \ {0}
    BY <1>1, <1>2, <1>3
  <2>2. \A e \in Dev : seen'[e] \subseteq 1 .. nextId' - 1
    BY <1>1, <1>2 DEF Inv, Types
  <2>3. \A e \in Dev : \A row \in rows'[e] : row.id \in 1 .. nextId' - 1
    <3>1. ASSUME NEW e \in Dev, NEW row \in rows'[e] PROVE row.id \in 1 .. nextId
      <4>1. row \in rows[e] \/ row = [id |-> nextId, frame |-> f]
        BY <1>1, <1>2
      <4>2. row \in rows[e] => row.id \in 1 .. nextId - 1
        BY DEF Inv, Types
      <4>3. nextId \in 1 .. nextId
        BY <1>2
      <4> QED
        BY <1>2, <4>1, <4>2, <4>3
    <3> QED
      BY <1>1, <1>2, <3>1
  <2>4. \A e \in Dev : receiving'[e] # None => receiving'[e].row.id \in 1 .. nextId' - 1
    BY <1>1, <1>2 DEF Inv, Types
  <2> QED
    BY <1>1, <2>1, <2>2, <2>3, <2>4 DEF Inv, Types
<1>5. \A e \in Dev : Released(e)' = Released(e) /\ Kept(e)' = Kept(e)
  BY <1>1 DEF Released, Kept
<1>6. Sessions' /\ Frames' /\ Ahead' /\ Apart'
  BY <1>1, <1>5, NothingMade
<1>7. Queues'
  <2>1. ASSUME NEW e \in Dev, NEW row \in rows'[e]
        PROVE  row.frame.from = Peer(e) /\ (row.frame.key = Junk \/ row.frame \in sent')
    <3>1. row \in rows[e] \/ (e = d /\ row.frame = f)
      BY <1>1, <1>2
    <3> QED
      BY <1>1, <3>1 DEF Inv, Queues
  <2>2. \A e \in Dev : receiving'[e] # None =>
          receiving'[e].row.frame.from = Peer(e) /\ receiving'[e].row.frame \in sent'
    BY <1>1 DEF Inv, Queues
  <2> QED
    BY <2>1, <2>2 DEF Queues
<1>8. Logs'
  BY <1>1, NothingLogged
<1> QED
  BY <1>4, <1>6, <1>7, <1>8 DEF Inv

LEMMA CopyInv == ASSUME Inv, NEW d \in Dev, NEW f \in sent, Copy(d, f) PROVE Inv'
<1>1. f \in Frame /\ f.from = Peer(d) /\ Arrive(d, f)
  BY DEF Copy, Inv, Types
<1> QED
  BY <1>1, ArriveInv

LEMMA DamageInv == ASSUME Inv, NEW d \in Dev, NEW f \in Damaged(d), Damage(d, f) PROVE Inv'
<1>1. Arrive(d, f)
  BY DEF Damage
<1>2. CASE f \in {[g EXCEPT !.key = Junk] : g \in {g \in sent : g.from = Peer(d)}}
  <2>1. PICK g \in sent : g.from = Peer(d) /\ f = [g EXCEPT !.key = Junk]
    BY <1>2
  <2>2. g \in Frame
    BY DEF Inv, Types
  <2>3. f \in Frame /\ f.from = Peer(d) /\ f.key = Junk
    BY <2>1, <2>2 DEF Frame
  <2> QED
    BY <1>1, <2>3, ArriveInv
<1>3. CASE f \in {[from |-> Peer(d), mid |-> <<Peer(d), 0>>, x3dh |-> x,
                   dh |-> Junk, pn |-> 0, n |-> 0, key |-> Junk] : x \in {None, Junk}}
  <2>1. PICK x \in {None, Junk} :
          f = [from |-> Peer(d), mid |-> <<Peer(d), 0>>, x3dh |-> x,
               dh |-> Junk, pn |-> 0, n |-> 0, key |-> Junk]
    BY <1>3
  <2>2. f \in Frame
    BY <2>1, Peers, Symbols DEF Frame
  <2> QED
    BY <1>1, <2>1, <2>2, ArriveInv
<1> QED
  BY <1>2, <1>3 DEF Damaged

LEMMA StepInv == Inv /\ [Next]_vars => Inv'
<1> SUFFICES ASSUME Inv, [Next]_vars PROVE Inv'
  OBVIOUS
<1>1. CASE UNCHANGED vars
  <2>1. UNCHANGED <<mem, disk, log, sending, receiving, fenced, sealed, rows, seen, minted, said,
                    nextId, faults, sent, waived, abandoned>>
    BY <1>1 DEF vars, tasks, history
  <2>2. \A d \in Dev : Released(d)' = Released(d) /\ Kept(d)' = Kept(d)
    BY <2>1 DEF Released, Kept
  <2>3. Types'
    BY <2>1 DEF Inv, Types
  <2>4. Sessions' /\ Frames' /\ Ahead' /\ Apart'
    BY <2>1, <2>2, NothingMade
  <2>5. Queues' /\ Logs'
    BY <2>1, NothingQueued, NothingLogged
  <2> QED
    BY <2>3, <2>4, <2>5 DEF Inv
<1>2. ASSUME NEW d \in Dev, Encrypt(d) \/ SendSaved(d) PROVE Inv'
  BY <1>2, EncryptInv, SendSavedInv
<1>3. ASSUME NEW d \in Dev, NEW f \in sealed[d], Wire(d, f) PROVE Inv'
  BY <1>3, WireInv
<1>4. ASSUME NEW d \in Dev, NEW row \in rows[d],
             Open(d, row) \/ Drop(d, row) \/ AckAgain(d, row)
      PROVE  Inv'
  BY <1>4, OpenInv, DropInv, AckAgainInv
<1>5. ASSUME NEW d \in Dev, Store(d) \/ Commit(d) \/ Finish(d) PROVE Inv'
  BY <1>5, ApplyInv, RefuseInv, CommitInv, FinishInv DEF Store
<1>6. ASSUME NEW d \in Dev, Suspend(d) \/ Resume(d) PROVE Inv'
  BY <1>6, FenceInv
<1>7. ASSUME NEW d \in Dev, SendFails(d) \/ ReceiveFails(d) \/ Crash(d) PROVE Inv'
  BY <1>7, SendFailsInv, ReceiveFailsInv, CrashInv
<1>8. ASSUME NEW d \in Dev, NEW f \in sent, Copy(d, f) PROVE Inv'
  BY <1>8, CopyInv
<1>9. ASSUME NEW d \in Dev, NEW f \in Damaged(d), Damage(d, f) PROVE Inv'
  BY <1>9, DamageInv
<1> QED
  BY <1>1, <1>2, <1>3, <1>4, <1>5, <1>6, <1>7, <1>8, <1>9 DEF Next

-----------------------------------------------------------------------------
(* The theorems.                                                           *)

\* Messenger.tsx, the promise chain, with session.ts and ratchet.ts: what every
\* reachable state of the two devices has in common.
THEOREM SessionInvariant == Spec => []Inv
<1>1. Init => Inv
  BY InitInv
<1>2. Inv /\ [Next]_vars => Inv'
  BY StepInv
<1> QED
  BY <1>1, <1>2, PTL DEF Spec

\* ratchetEncrypt's "chain not ready" is never thrown: a session that a device has,
\* in memory or saved, has a sending chain, at its counter; and the promise chain
\* runs one task at a time.
THEOREM TypeCorrect == Spec => []TypeOK
<1>1. Inv => TypeOK
  <2> SUFFICES ASSUME Inv PROVE TypeOK
    OBVIOUS
  <2>1. ASSUME NEW d \in Dev, NEW s \in {mem[d], disk[d]} \ {None}
        PROVE  /\ s.pending \in BOOLEAN
               /\ s.ratchet.CKs # None /\ s.ratchet.CKs.i = s.ratchet.Ns
               /\ s.ratchet.CKr # None => s.ratchet.CKr.i = s.ratchet.Nr
    <3>1. s \in Session /\ Fit(d, minted[d], s)
      BY Facts
    <3> QED
      BY <3>1 DEF Session, Fit, Orderly
  <2>2. \A d \in Dev : sending[d] = None \/ receiving[d] = None
    BY DEF Inv, Types
  <2>3. \A d \in Dev : seen[d] \subseteq 1 .. nextId - 1
    BY DEF Inv, Types
  <2> QED
    BY <2>1, <2>2, <2>3 DEF TypeOK
<1> QED
  BY <1>1, SessionInvariant, PTL

\* ratchet.ts, MAX_SKIP_SESSION: the skipped keys of a session stay within their
\* limit, whatever jumps the peer makes.
THEOREM CacheStaysBounded == Spec => []CacheBounded
<1>1. Inv => CacheBounded
  BY Facts DEF CacheBounded, Fit, Orderly
<1> QED
  BY <1>1, SessionInvariant, PTL

\* SECURITY.md, Invariant I: no two frames that reached the relay, of the same
\* device or of the two, were made with one key, whatever was lost from memory.
THEOREM KeyUsedOnce == Spec => []KeyOnce
<1>1. Inv => KeyOnce
  <2> SUFFICES ASSUME Inv, NEW f \in sent, NEW g \in sent, f.key = g.key
               PROVE  f = g
    BY DEF KeyOnce
  <2>1. f.from \in Dev /\ g.from \in Dev
    BY DEF Inv, Types, Frame
  <2>2. f \in Released(f.from) /\ g \in Released(g.from)
    BY DEF Released
  <2>3. CASE f.from = g.from
    BY <2>1, <2>2, <2>3 DEF Inv, Apart
  <2>4. CASE f.from # g.from
    <3> DEFINE root == f.key.root
    <3>1. /\ OwnRoot(f.from, minted[f.from], root)
          /\ OwnRoot(g.from, minted[g.from], root)
      BY <2>1, <2>2 DEF Inv, Frames, Own
    <3>2. root[1] \in Key /\ (root[1][1] = f.from <=> root[1][1] = g.from)
      BY <3>1 DEF OwnRoot
    <3>3. root[1][1] \in Dev
      BY <3>2 DEF Key
    <3> QED
      BY <2>1, <2>4, <3>2, <3>3 DEF Dev
  <2> QED
    BY <2>3, <2>4
<1> QED
  BY <1>1, SessionInvariant, PTL

\* The two message logs implement MessageChannel: a log only grows, and takes each
\* message once, and only what the other device gave to the relay.
THEOREM ExactlyOnceTheorem == Spec => ExactlyOnce
<1>1. Init => Channel!Init
  BY DEF Init, Channel!Init, Given
<1>2. ASSUME Inv, [Next]_vars PROVE [Channel!Next]_<<Given, log>>
  <2>1. CASE sent' = sent /\ log' = log
    BY <2>1 DEF Given
  <2>2. ASSUME NEW d \in Dev, NEW f \in sealed[d], Wire(d, f)
        PROVE  Channel!Give(d)
    <3>1. sent' = sent \union {f} /\ log' = log /\ f.from = d
      <4>1. f \in Released(d)
        BY DEF Released
      <4>2. f.from = d
        BY <1>2, <4>1 DEF Inv, Frames, Own
      <4> QED
        BY <2>2, <4>2 DEF Wire
    <3>2. Given' = [Given EXCEPT ![d] = @ \union {f.mid}]
      BY <3>1 DEF Given
    <3>3. f.mid \in Given'[d]
      BY <3>1 DEF Given
    <3> QED
      BY <3>1, <3>2, <3>3 DEF Channel!Give
  <2>3. ASSUME NEW d \in Dev, Apply(d)
        PROVE  \/ \E mid \in Given[Peer(d)] : Channel!Take(d, mid)
               \/ sent' = sent /\ log' = log
    <3> DEFINE mid == receiving[d].row.frame.mid
    <3>1. /\ log' = [log EXCEPT ![d] = IF Logged(d, mid) THEN @ ELSE Append(@, mid)]
          /\ sent' = sent /\ receiving[d] # None
      BY <2>3 DEF Apply, At, history
    <3>2. CASE Logged(d, mid)
      <4>1. log \in [Dev -> Seq(Dev \X Nat)]
        BY <1>2 DEF Inv, Types
      <4> QED
        BY <3>1, <3>2, <4>1
    <3>3. CASE ~Logged(d, mid)
      <4>1. mid \in Given[Peer(d)]
        <5> DEFINE f == receiving[d].row.frame
        <5>1. f \in sent /\ f.from = Peer(d)
          BY <1>2, <3>1 DEF Inv, Queues
        <5>2. f.mid \in {g.mid : g \in {h \in sent : h.from = Peer(d)}}
          BY <5>1
        <5> QED
          BY <5>2, Peers DEF Given
      <4>2. ~Channel!Has(d, mid)
        BY <3>3 DEF Logged, Channel!Has
      <4>3. log' = [log EXCEPT ![d] = Append(@, mid)] /\ Given' = Given
        BY <3>1, <3>3 DEF Given
      <4> QED
        BY <4>1, <4>2, <4>3 DEF Channel!Take
    <3> QED
      BY <3>2, <3>3
  <2>4. ASSUME NEW d \in Dev, Encrypt(d) \/ SendSaved(d) PROVE sent' = sent /\ log' = log
    BY <2>4 DEF Encrypt, SendSaved, history
  <2>5. ASSUME NEW d \in Dev, NEW row \in rows[d],
               Open(d, row) \/ Drop(d, row) \/ AckAgain(d, row)
        PROVE  sent' = sent /\ log' = log
    BY <2>5 DEF Open, Drop, AckAgain, history
  <2>6. ASSUME NEW d \in Dev, Refuse(d) \/ Commit(d) \/ Finish(d)
        PROVE  sent' = sent /\ log' = log
    BY <2>6 DEF Refuse, Commit, Finish, history
  <2>7. ASSUME NEW d \in Dev, Suspend(d) \/ Resume(d) \/ SendFails(d) \/ ReceiveFails(d) \/ Crash(d)
        PROVE  sent' = sent /\ log' = log
    BY <2>7 DEF Suspend, Resume, SendFails, ReceiveFails, Crash, history
  <2>8. ASSUME NEW d \in Dev, NEW f, Copy(d, f) \/ Damage(d, f) PROVE sent' = sent /\ log' = log
    BY <2>8 DEF Copy, Damage, Arrive, history
  <2>9. CASE UNCHANGED vars
    BY <2>1, <2>9 DEF vars, history
  <2> QED
    BY <1>2, <2>1, <2>2, <2>3, <2>4, <2>5, <2>6, <2>7, <2>8, <2>9
       DEF Next, Store, Channel!Next
<1> QED
  BY <1>1, <1>2, SessionInvariant, PTL DEF Spec, ExactlyOnce, Channel!Spec

-----------------------------------------------------------------------------
(* The cache of skipped keys: what it holds, and what it gave up.            *)

Held(cache) == {cache[k] : k \in DOMAIN cache}
\* Of two keys of a chain the earlier one is the older entry.
Sorted(cache) ==
    \A j, k \in DOMAIN cache :
        j < k /\ cache[j].key.root = cache[k].key.root => cache[j].n < cache[k].n
\* An entry was given up for later ones of its chain, by a full cache.
GaveUp(cache, c) ==
    /\ Len(cache) = MaxSkipSession
    /\ \A e \in Held(cache) : e.key.root = c.key.root => c.n < e.n
\* The entries for the numbers m to n - 1 of a chain.
Span(dh, root, m, n) ==
    {[dh |-> dh, n |-> k, key |-> [root |-> root, i |-> k]] : k \in m .. (n - 1)}

LEMMA LastPart ==
    ASSUME NEW cache \in Seq(Entry), NEW p \in 1 .. Len(cache)
    PROVE  LET q == SubSeq(cache, p, Len(cache))
           IN  /\ q \in Seq(Entry) /\ Len(q) = Len(cache) - p + 1
               /\ \A i \in 1 .. Len(cache) - p + 1 : q[i] = cache[p + i - 1]
<1>1. Len(cache) \in Nat /\ p \in Int /\ p <= Len(cache)
  OBVIOUS
<1>2. \A i \in p .. Len(cache) : cache[i] \in Entry
  OBVIOUS
<1> QED
  BY <1>1, <1>2, SubSeqProperties

LEMMA Newest ==
    ASSUME NEW cache \in Seq(Entry), Sorted(cache)
    PROVE  LET q == NewestOf(cache)
           IN  /\ Sorted(q) /\ Held(q) \subseteq Held(cache)
               /\ \A c \in Held(cache) : c \in Held(q) \/ GaveUp(q, c)
<1> DEFINE q == NewestOf(cache)
<1>1. Len(cache) \in Nat /\ MaxSkipSession \in Nat \ {0} /\ DOMAIN cache = 1 .. Len(cache)
  BY Symbols
<1>2. CASE Len(cache) <= MaxSkipSession
  BY <1>2 DEF NewestOf
<1>3. CASE ~(Len(cache) <= MaxSkipSession)
  <2> DEFINE m == Len(cache) - MaxSkipSession
  <2>1. m \in Nat /\ m + 1 \in Int /\ m + 1 <= Len(cache) /\ Len(cache) - (m + 1) + 1 = MaxSkipSession
    BY <1>1, <1>3
  <2>2. \A i \in (m + 1) .. Len(cache) : cache[i] \in Entry
    BY <1>1, <2>1
  <2>3. q = SubSeq(cache, m + 1, Len(cache))
    BY <1>3 DEF NewestOf
  <2> HIDE DEF q, m
  <2>4. /\ q \in Seq(Entry) /\ Len(q) = MaxSkipSession
        /\ \A i \in 1 .. MaxSkipSession : q[i] = cache[m + 1 + i - 1]
    <3>1. m + 1 \in 1 .. Len(cache)
      BY <1>1, <2>1
    <3> QED
      BY <2>1, <2>3, <3>1, LastPart
  <2>5. DOMAIN q = 1 .. MaxSkipSession /\ Len(cache) = m + MaxSkipSession
    BY <1>1, <2>1, <2>4 DEF m
  <2>6. \A i \in DOMAIN q : m + i \in DOMAIN cache /\ q[i] = cache[m + i]
    <3>1. ASSUME NEW i \in 1 .. MaxSkipSession
          PROVE  m + i \in 1 .. Len(cache) /\ m + 1 + i - 1 = m + i
      BY <1>1, <2>1, <2>5
    <3> QED
      BY <1>1, <2>4, <2>5, <3>1
  <2>7. \A i \in DOMAIN cache : i > m => i - m \in DOMAIN q /\ q[i - m] = cache[i]
    <3>1. ASSUME NEW i \in DOMAIN cache, i > m PROVE i - m \in DOMAIN q /\ m + (i - m) = i
      <4>1. i \in 1 .. m + MaxSkipSession
        BY <1>1, <2>5
      <4>2. i - m \in 1 .. MaxSkipSession /\ m + (i - m) = i
        BY <1>1, <2>1, <3>1, <4>1
      <4> QED
        BY <2>5, <4>2
    <3> QED
      BY <2>6, <3>1
  <2>8. Sorted(q)
    <3> SUFFICES ASSUME NEW j \in DOMAIN q, NEW k \in DOMAIN q, j < k,
                        q[j].key.root = q[k].key.root
                 PROVE  q[j].n < q[k].n
      BY DEF Sorted
    <3>1. m + j < m + k
      BY <2>1, <2>5
    <3> QED
      BY <2>6, <3>1 DEF Sorted
  <2>9. Held(q) \subseteq Held(cache)
    BY <2>6 DEF Held
  <2>10. ASSUME NEW c \in Held(cache), c \notin Held(q) PROVE GaveUp(q, c)
    <3>1. PICK i \in DOMAIN cache : c = cache[i]
      BY DEF Held
    <3>2. ~(i > m)
      BY <2>7, <2>10, <3>1 DEF Held
    <3>3. \A j \in DOMAIN q : i < m + j /\ m + j \in DOMAIN cache
      BY <1>1, <2>1, <2>5, <2>6, <3>2
    <3>4. ASSUME NEW e \in Held(q), e.key.root = c.key.root PROVE c.n < e.n
      <4>1. PICK j \in DOMAIN q : e = q[j]
        BY DEF Held
      <4>2. e = cache[m + j] /\ i < m + j /\ m + j \in DOMAIN cache
        BY <2>6, <3>3, <4>1
      <4> QED
        BY <3>1, <3>4, <4>2 DEF Sorted
    <3> QED
      BY <2>4, <3>4 DEF GaveUp
  <2>11. /\ Sorted(q) /\ Held(q) \subseteq Held(cache)
         /\ \A c \in Held(cache) : c \in Held(q) \/ GaveUp(q, c)
    BY <2>8, <2>9, <2>10
  <2> QED
    BY <2>11 DEF q
<1> QED
  BY <1>2, <1>3

LEMMA Joined ==
    ASSUME NEW a \in Seq(Entry), NEW b \in Seq(Entry), Sorted(a), Sorted(b),
           \A x \in Held(a), y \in Held(b) : x.key.root = y.key.root => x.n < y.n
    PROVE  /\ a \o b \in Seq(Entry) /\ Sorted(a \o b)
           /\ Held(a \o b) = Held(a) \union Held(b)
<1> DEFINE q == a \o b
           m == Len(a)
           n == Len(b)
<1>1. m \in Nat /\ n \in Nat /\ DOMAIN a = 1 .. m /\ DOMAIN b = 1 .. n
  OBVIOUS
<1>2. /\ q \in Seq(Entry) /\ Len(q) = m + n
      /\ \A i \in 1 .. m + n : q[i] = IF i <= m THEN a[i] ELSE b[i - m]
  BY ConcatProperties
<1> HIDE DEF q, m, n
<1>3. DOMAIN q = 1 .. (m + n)
  BY <1>1, <1>2
<1>4. \A i \in DOMAIN q : \/ i <= m /\ i \in DOMAIN a /\ q[i] = a[i]
                          \/ i > m /\ i - m \in DOMAIN b /\ q[i] = b[i - m]
  BY <1>1, <1>2, <1>3
<1>5. \A i \in DOMAIN a : i \in DOMAIN q /\ q[i] = a[i]
  BY <1>1, <1>2, <1>3
<1>6. \A i \in DOMAIN b : m + i \in DOMAIN q /\ q[m + i] = b[i]
  <2>1. ASSUME NEW i \in DOMAIN b PROVE m + i \in DOMAIN q /\ ~(m + i <= m) /\ (m + i) - m = i
    BY <1>1, <1>3
  <2> QED
    BY <1>2, <1>3, <2>1
<1>7. Held(q) = Held(a) \union Held(b)
  <2>1. Held(q) \subseteq Held(a) \union Held(b)
    BY <1>4 DEF Held
  <2>2. Held(a) \subseteq Held(q)
    BY <1>5 DEF Held
  <2>3. Held(b) \subseteq Held(q)
    BY <1>6 DEF Held
  <2> QED
    BY <2>1, <2>2, <2>3
<1>8. Sorted(q)
  <2> SUFFICES ASSUME NEW j \in DOMAIN q, NEW k \in DOMAIN q, j < k,
                      q[j].key.root = q[k].key.root
               PROVE  q[j].n < q[k].n
    BY DEF Sorted
  <2>0. j \in Int /\ k \in Int /\ m \in Int
    BY <1>1, <1>3
  <2>1. CASE k <= m
    <3>1. j <= m
      BY <2>0, <2>1
    <3>2. j \in DOMAIN a /\ k \in DOMAIN a /\ q[j] = a[j] /\ q[k] = a[k]
      BY <1>4, <2>0, <2>1, <3>1
    <3> QED
      BY <3>2 DEF Sorted
  <2>2. CASE j <= m /\ k > m
    <3>1. j \in DOMAIN a /\ k - m \in DOMAIN b /\ q[j] = a[j] /\ q[k] = b[k - m]
      BY <1>4, <2>0, <2>2
    <3> QED
      BY <3>1 DEF Held
  <2>3. CASE j > m
    <3>0. k > m
      BY <2>0, <2>3
    <3>1. j - m \in DOMAIN b /\ k - m \in DOMAIN b /\ q[j] = b[j - m] /\ q[k] = b[k - m]
          /\ j - m < k - m
      BY <1>4, <2>0, <2>3, <3>0
    <3> QED
      BY <3>1 DEF Sorted
  <2> QED
    BY <2>0, <2>1, <2>2, <2>3
<1> QED
  BY <1>2, <1>7, <1>8 DEF q

LEMMA SkippedHeld ==
    ASSUME NEW s \in RatchetState, s.CKr # None, s.CKr.i = s.Nr,
           NEW until \in Nat, until > s.Nr
    PROVE  LET b == SkippedKeys(s, until)
           IN  Sorted(b) /\ Held(b) = Span(s.DHr, s.CKr.root, s.Nr, until)
<1> DEFINE b == SkippedKeys(s, until)
           E(n) == [dh |-> s.DHr, n |-> n, key |-> [root |-> s.CKr.root, i |-> n]]
<1>1. s.Nr \in Nat /\ s.CKr \in ChainKey /\ until - s.Nr \in Nat
  BY DEF RatchetState
<1>2. DOMAIN b = 1 .. (until - s.Nr)
  BY DEF SkippedKeys
<1>3. ASSUME NEW k \in 1 .. (until - s.Nr) PROVE b[k] = E(s.Nr + k - 1)
  <2>1. [s.CKr EXCEPT !.i = @ + k - 1] = [root |-> s.CKr.root, i |-> s.Nr + k - 1]
    <3>1. s.CKr = [root |-> s.CKr.root, i |-> s.Nr]
      BY <1>1 DEF ChainKey
    <3> QED
      BY <3>1
  <2>2. b[k] = [dh |-> s.DHr, n |-> s.Nr + k - 1, key |-> [s.CKr EXCEPT !.i = @ + k - 1]]
    BY DEF SkippedKeys
  <2> QED
    BY <2>1, <2>2
<1> HIDE DEF b
<1>4. Sorted(b)
  <2> SUFFICES ASSUME NEW j \in DOMAIN b, NEW k \in DOMAIN b, j < k PROVE b[j].n < b[k].n
    BY DEF Sorted
  <2>1. b[j].n = s.Nr + j - 1 /\ b[k].n = s.Nr + k - 1
    <3>1. j \in 1 .. (until - s.Nr) /\ k \in 1 .. (until - s.Nr)
      BY <1>2
    <3>2. b[j] = E(s.Nr + j - 1) /\ b[k] = E(s.Nr + k - 1)
      BY <1>3, <3>1
    <3> QED
      BY <3>2
  <2> QED
    BY <1>1, <1>2, <2>1
<1>5. Held(b) \subseteq Span(s.DHr, s.CKr.root, s.Nr, until)
  <2>1. \A k \in 1 .. (until - s.Nr) : s.Nr + k - 1 \in s.Nr .. (until - 1)
    BY <1>1
  <2> QED
    BY <1>2, <1>3, <2>1 DEF Held, Span
<1>6. Span(s.DHr, s.CKr.root, s.Nr, until) \subseteq Held(b)
  <2>1. ASSUME NEW n \in s.Nr .. (until - 1) PROVE E(n) \in Held(b)
    <3>1. n - s.Nr + 1 \in 1 .. (until - s.Nr) /\ s.Nr + (n - s.Nr + 1) - 1 = n
      BY <1>1
    <3>2. b[n - s.Nr + 1] = E(s.Nr + (n - s.Nr + 1) - 1)
      BY <1>3, <3>1
    <3>3. b[n - s.Nr + 1] = E(n)
      BY <3>1, <3>2
    <3> QED
      BY <1>2, <3>1, <3>3 DEF Held
  <2> QED
    BY <2>1 DEF Span
<1> QED
  BY <1>4, <1>5, <1>6 DEF b

\* Cache q holds the entries, but for those it gave up.
Grown(entries, q) ==
    /\ Sorted(q) /\ Held(q) \subseteq entries
    /\ \A c \in entries : c \in Held(q) \/ GaveUp(q, c)

\* The cache is of keys before the receiving chain's place.
Neat(r) ==
    /\ Sorted(r.skipped)
    /\ \A c \in Held(r.skipped) :
          /\ r.CKr # None /\ c.key.i = c.n
          /\ \/ c.key.root = r.CKr.root /\ c.n < r.Nr
             \/ Len(c.key.root) < Len(r.CKr.root)

Skipped(r, until) == IF r.CKr = None THEN {} ELSE Span(r.DHr, r.CKr.root, r.Nr, until)

LEMMA HeldTyped ==
    ASSUME NEW cache \in Seq(Entry), NEW c \in Held(cache)
    PROVE  /\ c \in Entry /\ c.n \in Nat /\ c.key \in ChainKey /\ c.key.root \in Root
           /\ Len(c.key.root) \in Nat
<1>1. c \in Entry
  BY DEF Held
<1> QED
  BY <1>1 DEF Entry, ChainKey, Root

LEMMA NewestFull ==
    ASSUME NEW cache \in Seq(Entry), Len(cache) >= MaxSkipSession
    PROVE  Len(NewestOf(cache)) = MaxSkipSession
<1>1. Len(cache) \in Nat /\ MaxSkipSession \in Nat \ {0}
  BY Symbols
<1>2. CASE Len(cache) <= MaxSkipSession
  BY <1>1, <1>2 DEF NewestOf
<1>3. CASE ~(Len(cache) <= MaxSkipSession)
  <2> DEFINE p == Len(cache) - MaxSkipSession + 1
  <2>1. p \in 1 .. Len(cache) /\ Len(cache) - p + 1 = MaxSkipSession
    BY <1>1, <1>3
  <2>2. NewestOf(cache) = SubSeq(cache, p, Len(cache))
    BY <1>3 DEF NewestOf
  <2> HIDE DEF p
  <2> QED
    BY <2>1, <2>2, LastPart
<1> QED
  BY <1>2, <1>3

LEMMA SkippingNeat ==
    ASSUME NEW s \in RatchetState, Orderly(s), Neat(s), NEW until \in Nat
    PROVE  LET t == Skip(s, until)
           IN  /\ Neat(t)
               /\ Grown(Held(s.skipped) \union Skipped(s, until), t.skipped)
               /\ Len(s.skipped) = MaxSkipSession => Len(t.skipped) = MaxSkipSession
               /\ t.Nr = IF s.CKr = None \/ until <= s.Nr THEN s.Nr ELSE until
               /\ s.CKr = None => t.CKr = None
               /\ s.CKr # None => t.CKr = [root |-> s.CKr.root, i |-> t.Nr]
<1> DEFINE t == Skip(s, until)
<1>1. s.Nr \in Nat /\ s.skipped \in Seq(Entry) /\ Len(s.skipped) \in Nat
  BY DEF RatchetState
<1>2. CASE s.CKr = None \/ until <= s.Nr
  <2>1. t = s
    BY <1>2 DEF Skip
  <2>2. Skipped(s, until) = {}
    <3>1. until <= s.Nr => s.Nr .. (until - 1) = {}
      BY <1>1
    <3> QED
      BY <1>2, <3>1 DEF Skipped, Span
  <2>3. Grown(Held(s.skipped) \union {}, s.skipped)
    BY DEF Grown, Neat
  <2>4. s.CKr # None => s.CKr = [root |-> s.CKr.root, i |-> s.Nr]
    BY DEF RatchetState, Orderly, ChainKey
  <2> QED
    BY <1>2, <2>1, <2>2, <2>3, <2>4
<1>3. CASE s.CKr # None /\ until > s.Nr
  <2> DEFINE new  == SkippedKeys(s, until)
             full == s.skipped \o new
             q    == NewestOf(full)
             ck   == [s.CKr EXCEPT !.i = @ + (until - s.Nr)]
  <2>1. s.CKr \in ChainKey /\ s.CKr.i = s.Nr
    BY <1>3 DEF RatchetState, Orderly
  <2>2. /\ new \in Seq(Entry) /\ Sorted(new)
        /\ Held(new) = Span(s.DHr, s.CKr.root, s.Nr, until)
    BY <1>3, <2>1, SkippedTyped, SkippedHeld
  <2>3. Skipped(s, until) = Held(new)
    BY <1>3, <2>2 DEF Skipped
  <2>4. \A c \in Held(new) : /\ c.key.root = s.CKr.root /\ c.key.i = c.n
                             /\ s.Nr <= c.n /\ c.n < until
    BY <1>1, <2>2 DEF Span
  <2>5. \A x \in Held(s.skipped), y \in Held(new) : x.key.root = y.key.root => x.n < y.n
    <3> SUFFICES ASSUME NEW x \in Held(s.skipped), NEW y \in Held(new), x.key.root = y.key.root
                 PROVE  x.n < y.n
      OBVIOUS
    <3>2. x.n \in Nat /\ y.n \in Nat /\ Len(x.key.root) \in Nat
      BY <1>1, <2>2, HeldTyped
    <3>3. x.key.root = s.CKr.root /\ s.Nr <= y.n
      BY <2>4
    <3>4. x.n < s.Nr
      BY <3>2, <3>3 DEF Neat
    <3> QED
      BY <1>1, <3>2, <3>3, <3>4
  <2>6. /\ full \in Seq(Entry) /\ Sorted(full)
        /\ Held(full) = Held(s.skipped) \union Held(new)
    BY <1>1, <2>2, <2>5, Joined DEF Neat
  <2>7. Grown(Held(s.skipped) \union Held(new), q)
    BY <2>6, Newest DEF Grown
  <2>8. Len(s.skipped) = MaxSkipSession => Len(q) = MaxSkipSession
    <3>1. Len(full) = Len(s.skipped) + Len(new) /\ Len(new) \in Nat
      BY <1>1, <2>2, ConcatProperties
    <3> HIDE DEF full, new
    <3>2. Len(s.skipped) = MaxSkipSession => Len(full) >= MaxSkipSession
      BY <1>1, <3>1
    <3> QED
      BY <2>6, <3>2, NewestFull
  <2>9. ck = [root |-> s.CKr.root, i |-> until]
    <3>1. s.CKr = [root |-> s.CKr.root, i |-> s.Nr]
      BY <2>1 DEF ChainKey
    <3>2. ck.i = s.Nr + (until - s.Nr)
      BY <3>1
    <3>3. s.Nr + (until - s.Nr) = until
      BY <1>1
    <3> QED
      BY <3>1, <3>2, <3>3
  <2>10. t = [s EXCEPT !.skipped = q, !.CKr = ck, !.Nr = until]
    <3>1. ~(s.CKr = None \/ until <= s.Nr)
      BY <1>1, <1>3
    <3> QED
      BY <3>1 DEF Skip
  <2> HIDE DEF ck, q, full, new, t
  <2>11. t.skipped = q /\ t.CKr = ck /\ t.Nr = until
    BY <2>10 DEF RatchetState
  <2>12. ck # None
    BY <2>1, <2>9, Symbols DEF ChainKey
  <2>13. Neat(t)
    <3>1. ASSUME NEW c \in Held(t.skipped)
          PROVE  /\ t.CKr # None /\ c.key.i = c.n
                 /\ \/ c.key.root = t.CKr.root /\ c.n < t.Nr
                    \/ Len(c.key.root) < Len(t.CKr.root)
      <4>1. CASE c \in Held(new)
        BY <2>4, <2>9, <2>11, <2>12, <4>1
      <4>2. CASE c \in Held(s.skipped)
        <5>1. c.n \in Nat
          BY <1>1, <4>2, HeldTyped
        <5>2. t.CKr.root = s.CKr.root
          BY <2>9, <2>11
        <5>3. c.n < s.Nr => c.n < until
          BY <1>1, <1>3, <5>1
        <5> QED
          BY <2>11, <2>12, <4>2, <5>2, <5>3 DEF Neat
      <4> QED
        BY <2>7, <2>11, <4>1, <4>2 DEF Grown
    <3> QED
      BY <2>7, <2>11, <3>1 DEF Neat, Grown
  <2>14. ~(s.CKr = None \/ until <= s.Nr)
    BY <1>1, <1>3
  <2>15. /\ Neat(t) /\ Grown(Held(s.skipped) \union Skipped(s, until), t.skipped)
         /\ Len(s.skipped) = MaxSkipSession => Len(t.skipped) = MaxSkipSession
         /\ t.Nr = until /\ t.CKr = [root |-> s.CKr.root, i |-> t.Nr]
    BY <2>3, <2>7, <2>8, <2>9, <2>11, <2>13
  <2> QED
    BY <1>3, <2>14, <2>15 DEF t
<1> QED
  BY <1>1, <1>2, <1>3

LEMMA GrownTwice ==
    ASSUME NEW A, NEW N, NEW a, NEW b, Grown(A, a), Grown(Held(a) \union N, b),
           Len(a) = MaxSkipSession => Len(b) = MaxSkipSession,
           \A x \in A, y \in N : x.key.root # y.key.root
    PROVE  Grown(A \union N, b)
<1>1. \A c \in A \union N : c \in Held(b) \/ GaveUp(b, c)
  <2> SUFFICES ASSUME NEW c \in A, c \notin Held(a) PROVE GaveUp(b, c)
    BY DEF Grown
  <2>1. GaveUp(a, c)
    BY DEF Grown
  <2> QED
    BY <2>1 DEF Grown, GaveUp
<1> QED
  BY <1>1 DEF Grown

-----------------------------------------------------------------------------
(* The three ways a frame opens, and what each leaves.                       *)

\* With a key of the cache.
ByCache(r, g, t) ==
    /\ t = [r EXCEPT !.skipped = t.skipped]
    /\ \E c \in Held(r.skipped) : c.dh = g.dh /\ c.n = g.n /\ c.key = g.key
    /\ Held(t.skipped) \subseteq Held(r.skipped)
    /\ \A c \in Held(r.skipped) : c \in Held(t.skipped) \/ (c.dh = g.dh /\ c.n = g.n)
\* Further on in the receiving chain.
ByChain(r, g, t) ==
    /\ g.dh = r.DHr /\ r.CKr # None /\ g.key.root = r.CKr.root
    /\ r.Nr <= g.n /\ g.n <= r.Nr + MaxSkip
    /\ t.DHs = r.DHs /\ t.DHr = r.DHr /\ t.RK = r.RK /\ t.PN = r.PN
    /\ t.CKr = [root |-> r.CKr.root, i |-> g.n + 1] /\ t.Nr = g.n + 1
    /\ Grown(Held(r.skipped) \union Skipped(r, g.n), t.skipped)
\* In the chain after it.
ByTurn(r, g, fresh, t) ==
    /\ g.dh # r.DHr /\ g.key.root = MixRoot(r.RK, r.DHs, g.dh)
    /\ g.n <= MaxSkip /\ g.pn <= r.Nr + MaxSkip
    /\ t.DHs = fresh /\ t.DHr = g.dh /\ t.RK = MixRoot(g.key.root, fresh, g.dh) /\ t.PN = r.Ns
    /\ t.CKr = [root |-> g.key.root, i |-> g.n + 1] /\ t.Nr = g.n + 1
    /\ Grown((Held(r.skipped) \union Skipped(r, g.pn))
             \union Span(g.dh, g.key.root, 0, g.n), t.skipped)

\* The chains of the cache are before the root.
Deep(r) == r.CKr # None => Len(r.CKr.root) < Len(r.RK)

LEMMA TurningNeat ==
    ASSUME NEW s \in RatchetState, Orderly(s), Neat(s), Deep(s),
           NEW f \in Frame, NEW fresh \in Part, f.dh # s.DHr
    PROVE  LET t == Turned(s, f, fresh)
               r == MixRoot(s.RK, s.DHs, f.dh)
           IN  /\ t \in RatchetState /\ Orderly(t) /\ Neat(t)
               /\ t.DHs = fresh /\ t.DHr = f.dh /\ t.RK = MixRoot(r, fresh, f.dh) /\ t.PN = s.Ns
               /\ t.CKr = ChainOf(r) /\ t.Nr = 0 /\ t.CKr # None
               /\ Grown(Held(s.skipped) \union Skipped(s, f.pn), t.skipped)
               /\ \A c \in Held(s.skipped) \union Skipped(s, f.pn) : c.key.root # r
<1> DEFINE u == Skip(s, f.pn)
           r == MixRoot(s.RK, s.DHs, f.dh)
           q == MixRoot(r, fresh, f.dh)
           t == Turned(s, f, fresh)
<1>1. f.dh \in Part /\ f.pn \in Nat
  BY DEF Frame
<1>2. /\ u \in RatchetState /\ Orderly(u) /\ u.DHs = s.DHs /\ u.RK = s.RK /\ u.Ns = s.Ns
      /\ u.skipped \in Seq(Entry)
  BY <1>1, Skipping DEF RatchetState
<1>3. /\ Neat(u) /\ Grown(Held(s.skipped) \union Skipped(s, f.pn), u.skipped)
      /\ s.CKr = None => u.CKr = None
      /\ s.CKr # None => u.CKr = [root |-> s.CKr.root, i |-> u.Nr]
  BY <1>1, SkippingNeat
<1>4. t \in RatchetState /\ Orderly(t)
  BY <1>1, Turning
<1>5. s.RK \in Root /\ s.DHs \in Part /\ Len(s.RK) \in Nat /\ s.Nr \in Nat /\ s.skipped \in Seq(Entry)
  BY DEF RatchetState, Root
<1>6. r \in Root /\ Len(r) = Len(s.RK) + 1 /\ Len(r) \in Nat
  <2>1. r \in Root /\ Len(r) = Len(s.RK) + 1
    BY <1>1, <1>5, Mixed
  <2> QED
    BY <1>5, <2>1
<1>7. ChainOf(r) \in ChainKey /\ ChainOf(r).root = r /\ ChainOf(r) # None
  BY <1>6, Symbols DEF ChainOf, ChainKey
<1>8. t = [u EXCEPT !.PN = u.Ns, !.Ns = 0, !.Nr = 0, !.DHr = f.dh, !.DHs = fresh,
                    !.RK = q, !.CKr = ChainOf(r), !.CKs = ChainOf(q)]
  BY <1>2 DEF Turned, DHRatchet
<1> HIDE DEF u, r, q, t
<1>9. /\ t.DHs = fresh /\ t.DHr = f.dh /\ t.RK = q /\ t.PN = s.Ns
      /\ t.CKr = ChainOf(r) /\ t.Nr = 0 /\ t.skipped = u.skipped
  BY <1>2, <1>8 DEF RatchetState
<1>10. s.CKr # None => s.CKr \in ChainKey /\ Len(s.CKr.root) \in Nat /\ Len(s.CKr.root) < Len(r)
  <2>1. s.CKr # None => s.CKr \in ChainKey /\ Len(s.CKr.root) \in Nat
    BY DEF RatchetState, ChainKey, Root
  <2> QED
    BY <1>5, <1>6, <2>1 DEF Deep
<1>11. \A c \in Held(s.skipped) \union Skipped(s, f.pn) :
          Len(c.key.root) < Len(r) /\ c.key.i = c.n
  <2>1. ASSUME NEW c \in Held(s.skipped) PROVE Len(c.key.root) < Len(r) /\ c.key.i = c.n
    <3>1. Len(c.key.root) \in Nat
      BY <1>5, HeldTyped
    <3>2. s.CKr # None /\ (c.key.root = s.CKr.root \/ Len(c.key.root) < Len(s.CKr.root))
          /\ c.key.i = c.n
      BY DEF Neat
    <3> QED
      BY <1>6, <1>10, <3>1, <3>2
  <2>2. ASSUME NEW c \in Skipped(s, f.pn) PROVE Len(c.key.root) < Len(r) /\ c.key.i = c.n
    BY <1>10 DEF Skipped, Span
  <2> QED
    BY <2>1, <2>2
<1>12. Neat(t)
  <2>1. \A c \in Held(t.skipped) : Len(c.key.root) < Len(r) /\ c.key.i = c.n
    BY <1>3, <1>9, <1>11 DEF Grown
  <2> QED
    BY <1>3, <1>7, <1>9, <2>1 DEF Neat
<1>13. \A c \in Held(s.skipped) \union Skipped(s, f.pn) : c.key.root # r
  BY <1>6, <1>11
<1> QED
  BY <1>3, <1>4, <1>7, <1>9, <1>12, <1>13 DEF t, r, q

LEMMA WithoutOne ==
    ASSUME NEW cache \in Seq(Entry), Sorted(cache), NEW k \in DOMAIN cache
    PROVE  LET q == Without(cache, k)
           IN  /\ Sorted(q) /\ Held(q) \subseteq Held(cache)
               /\ \A c \in Held(cache) : c \in Held(q) \/ c = cache[k]
<1> DEFINE q == Without(cache, k)
           m == Len(cache)
<1>1. m \in Nat /\ DOMAIN cache = 1 .. m /\ k \in 1 .. m /\ m - 1 \in Nat
  OBVIOUS
<1>2. DOMAIN q = 1 .. (m - 1)
  BY DEF Without
<1>3. \A j \in 1 .. (m - 1) : q[j] = IF j < k THEN cache[j] ELSE cache[j + 1]
  BY DEF Without
<1> HIDE DEF q, m
<1>4. \A j \in DOMAIN q : \/ j < k /\ j \in DOMAIN cache /\ q[j] = cache[j]
                          \/ ~(j < k) /\ j + 1 \in DOMAIN cache /\ q[j] = cache[j + 1]
  BY <1>1, <1>2, <1>3
<1>5. Held(q) \subseteq Held(cache)
  BY <1>4 DEF Held
<1>6. ASSUME NEW c \in Held(cache), c # cache[k] PROVE c \in Held(q)
  <2>1. PICK i \in DOMAIN cache : c = cache[i]
    BY DEF Held
  <2>2. i # k
    BY <1>6, <2>1
  <2>3. CASE i < k
    <3>1. i \in 1 .. (m - 1)
      BY <1>1, <2>3
    <3> QED
      BY <1>2, <1>3, <2>1, <2>3, <3>1 DEF Held
  <2>4. CASE i > k
    <3>1. i - 1 \in 1 .. (m - 1) /\ ~(i - 1 < k) /\ (i - 1) + 1 = i
      BY <1>1, <2>4
    <3> QED
      BY <1>2, <1>3, <2>1, <3>1 DEF Held
  <2> QED
    BY <1>1, <2>2, <2>3, <2>4
<1>7. Sorted(q)
  <2> SUFFICES ASSUME NEW i \in DOMAIN q, NEW j \in DOMAIN q, i < j,
                      q[i].key.root = q[j].key.root
               PROVE  q[i].n < q[j].n
    BY DEF Sorted
  <2>1. PICK a \in DOMAIN cache : q[i] = cache[a] /\ (IF i < k THEN a = i ELSE a = i + 1)
    BY <1>4
  <2>2. PICK b \in DOMAIN cache : q[j] = cache[b] /\ (IF j < k THEN b = j ELSE b = j + 1)
    BY <1>4
  <2>3. a < b
    BY <1>1, <1>2, <2>1, <2>2
  <2> QED
    BY <2>1, <2>2, <2>3 DEF Sorted
<1> QED
  BY <1>5, <1>6, <1>7 DEF q

LEMMA Opened ==
    ASSUME NEW s \in RatchetState, Orderly(s), Neat(s), Deep(s),
           NEW g \in Frame, g.key.i = g.n, Opens(s, g), NEW fresh \in Part
    PROVE  LET t == AfterDecrypt(s, g, fresh)
           IN  /\ t \in RatchetState /\ Orderly(t) /\ Neat(t)
               /\ ByCache(s, g, t) \/ ByChain(s, g, t) \/ ByTurn(s, g, fresh, t)
<1> DEFINE t == AfterDecrypt(s, g, fresh)
<1>1. /\ g.dh \in Part /\ g.pn \in Nat /\ g.n \in Nat /\ g.key \in ChainKey
      /\ g.key = [root |-> g.key.root, i |-> g.n]
  BY OpensGenuine DEF Frame, ChainKey
<1>2. /\ s.skipped \in Seq(Entry) /\ s.Nr \in Nat /\ s.CKr \in ChainKey \union {None}
      /\ MaxSkip \in Nat
  BY Symbols DEF RatchetState
<1>3. t \in RatchetState /\ Orderly(t)
  BY Decrypting
<1>4. CASE FromCache(s, g)
  <2> DEFINE k     == CHOOSE k \in CachedAt(s, g) : TRUE
             cache == Without(s.skipped, k)
  <2>1. k \in CachedAt(s, g)
    BY <1>4 DEF FromCache
  <2>2. t = [s EXCEPT !.skipped = cache]
    BY <1>4 DEF AfterDecrypt
  <2> HIDE DEF k, cache, t
  <2>3. k \in DOMAIN s.skipped /\ s.skipped[k].dh = g.dh /\ s.skipped[k].n = g.n
    BY <2>1 DEF CachedAt
  <2>4. /\ Sorted(cache) /\ Held(cache) \subseteq Held(s.skipped)
        /\ \A c \in Held(s.skipped) : c \in Held(cache) \/ c = s.skipped[k]
    BY <1>2, <2>3, WithoutOne DEF Neat, cache
  <2>5. t.skipped = cache /\ t.CKr = s.CKr /\ t.Nr = s.Nr
    BY <2>2 DEF RatchetState
  <2>6. \E c \in Held(s.skipped) : c.dh = g.dh /\ c.n = g.n /\ c.key = g.key
    BY <1>4 DEF Opens, CachedAt, Held
  <2>7. ByCache(s, g, t)
    BY <2>2, <2>3, <2>4, <2>5, <2>6 DEF ByCache
  <2>8. Neat(t)
    BY <2>4, <2>5 DEF Neat
  <2> QED
    BY <1>3, <2>7, <2>8 DEF t
<1>5. CASE ~FromCache(s, g)
  <2> DEFINE v == Turned(s, g, fresh)
             u == Skip(v, g.n)
  <2>1. u = Reached(s, g, fresh) /\ u.CKr = g.key
    BY <1>1, <1>5, Reaching DEF Reached, Opens
  <2>2. WithinLimits(s, g)
    BY <1>5 DEF Opens
  <2>3. v \in RatchetState /\ Orderly(v) /\ Neat(v)
    BY <1>1, Turning, TurningNeat
  <2>4. t = [u EXCEPT !.CKr = NextCk(g.key), !.Nr = u.Nr + 1]
    BY <1>5, <2>1 DEF AfterDecrypt
  <2> HIDE DEF t, u, v
  <2>5. /\ u \in RatchetState /\ Orderly(u) /\ Neat(u)
        /\ u.DHs = v.DHs /\ u.DHr = v.DHr /\ u.RK = v.RK /\ u.PN = v.PN
        /\ Grown(Held(v.skipped) \union Skipped(v, g.n), u.skipped)
        /\ Len(v.skipped) = MaxSkipSession => Len(u.skipped) = MaxSkipSession
        /\ u.Nr = IF v.CKr = None \/ g.n <= v.Nr THEN v.Nr ELSE g.n
        /\ v.CKr = None => u.CKr = None
        /\ v.CKr # None => u.CKr = [root |-> v.CKr.root, i |-> u.Nr]
    BY <1>1, <2>3, Skipping, SkippingNeat DEF u
  <2>6. v.CKr # None /\ u.Nr = g.n /\ g.key.root = v.CKr.root /\ v.Nr <= g.n
    <3>1. v.CKr # None
      BY <1>1, <2>1, <2>5, Symbols
    <3>2. g.key = [root |-> v.CKr.root, i |-> u.Nr]
      BY <2>1, <2>5, <3>1
    <3>3. u.Nr = g.n /\ g.key.root = v.CKr.root
      BY <1>1, <3>2
    <3>4. v.Nr \in Nat
      BY <2>3 DEF RatchetState
    <3> QED
      BY <1>1, <2>5, <3>1, <3>3, <3>4
  <2>7. NextCk(g.key) = [root |-> g.key.root, i |-> g.n + 1]
    <3> DEFINE root == g.key.root
    <3> HIDE DEF root
    <3>1. g.key = [root |-> root, i |-> g.n]
      BY <1>1 DEF root
    <3>2. NextCk(g.key) = [root |-> root, i |-> g.n + 1]
      BY <3>1 DEF NextCk
    <3> QED
      BY <3>2 DEF root
  <2>8. /\ t.DHs = v.DHs /\ t.DHr = v.DHr /\ t.RK = v.RK /\ t.PN = v.PN
        /\ t.skipped = u.skipped /\ t.Nr = g.n + 1
        /\ t.CKr = [root |-> g.key.root, i |-> g.n + 1]
    BY <2>4, <2>5, <2>6, <2>7 DEF RatchetState
  <2>9. Neat(t)
    <3>1. t.CKr # None
      <4>1. [root |-> g.key.root, i |-> g.n + 1] \in ChainKey
        BY <1>1 DEF ChainKey
      <4> QED
        BY <2>8, <4>1, Symbols
    <3>2. u.skipped \in Seq(Entry)
      BY <2>5 DEF RatchetState
    <3>3. ASSUME NEW c \in Held(u.skipped)
          PROVE  /\ c.key.i = c.n
                 /\ \/ c.key.root = t.CKr.root /\ c.n < t.Nr
                    \/ Len(c.key.root) < Len(t.CKr.root)
      <4>1. /\ c.key.i = c.n /\ u.CKr # None
            /\ \/ c.key.root = u.CKr.root /\ c.n < u.Nr
               \/ Len(c.key.root) < Len(u.CKr.root)
        BY <2>5 DEF Neat
      <4>2. u.CKr.root = t.CKr.root /\ t.Nr = u.Nr + 1 /\ u.Nr \in Nat
        BY <1>1, <2>1, <2>6, <2>8
      <4>3. c.n \in Nat
        BY <3>2, HeldTyped
      <4> QED
        BY <4>1, <4>2, <4>3
    <3> QED
      BY <2>5, <2>8, <3>1, <3>3 DEF Neat
  <2>10. CASE g.dh = s.DHr
    <3>1. v = s
      BY <2>10 DEF v, Turned
    <3>2. g.n <= s.Nr + MaxSkip
      BY <2>2, <2>10 DEF WithinLimits
    <3>3. ByChain(s, g, t)
      BY <2>5, <2>6, <2>8, <2>10, <3>1, <3>2 DEF ByChain
    <3> QED
      BY <1>3, <2>9, <3>3 DEF t
  <2>11. CASE g.dh # s.DHr
    <3> DEFINE r == MixRoot(s.RK, s.DHs, g.dh)
    <3>1. /\ v.DHs = fresh /\ v.DHr = g.dh /\ v.RK = MixRoot(r, fresh, g.dh) /\ v.PN = s.Ns
          /\ v.CKr = ChainOf(r) /\ v.Nr = 0
          /\ Grown(Held(s.skipped) \union Skipped(s, g.pn), v.skipped)
          /\ \A c \in Held(s.skipped) \union Skipped(s, g.pn) : c.key.root # r
      BY <2>11, TurningNeat DEF v
    <3> HIDE DEF r
    <3>2. g.key.root = r
      BY <2>6, <3>1 DEF ChainOf
    <3>3. g.n <= MaxSkip /\ g.pn <= s.Nr + MaxSkip
      BY <1>1, <1>2, <2>2, <2>11 DEF WithinLimits, SkipAllowed
    <3>4. Skipped(v, g.n) = Span(g.dh, r, 0, g.n)
      BY <2>6, <3>1, <3>2 DEF Skipped
    <3>5. \A y \in Span(g.dh, r, 0, g.n) : y.key.root = r
      BY DEF Span
    <3>6. Grown((Held(s.skipped) \union Skipped(s, g.pn)) \union Span(g.dh, r, 0, g.n), u.skipped)
      <4> DEFINE A == Held(s.skipped) \union Skipped(s, g.pn)
                 N == Span(g.dh, r, 0, g.n)
      <4>1. Grown(A, v.skipped) /\ Grown(Held(v.skipped) \union N, u.skipped)
        BY <2>5, <3>1, <3>4
      <4>2. \A x \in A, y \in N : x.key.root # y.key.root
        BY <3>1, <3>5
      <4> HIDE DEF A, N
      <4>3. Grown(A \union N, u.skipped)
        BY <2>5, <4>1, <4>2, GrownTwice
      <4> QED
        BY <4>3 DEF A, N
    <3>7. ByTurn(s, g, fresh, t)
      BY <2>8, <2>11, <3>1, <3>2, <3>3, <3>6 DEF ByTurn, r
    <3> QED
      BY <1>3, <2>9, <3>7 DEF t
  <2> QED
    BY <2>10, <2>11
<1> QED
  BY <1>4, <1>5

\* And when each of them works.
Absent(r, g) == \A c \in Held(r.skipped) : ~(c.dh = g.dh /\ c.n = g.n)

LEMMA NotCached ==
    ASSUME NEW s \in RatchetState, NEW g \in Frame, Absent(s, g)
    PROVE  ~FromCache(s, g)
BY DEF Absent, FromCache, CachedAt, Held

LEMMA OpensByCache ==
    ASSUME NEW s \in RatchetState, NEW g \in Frame,
           \E c \in Held(s.skipped) : c.dh = g.dh /\ c.n = g.n /\ c.key = g.key
    PROVE  Opens(s, g)
BY DEF Opens, FromCache, CachedAt, Held

LEMMA OpensByChain ==
    ASSUME NEW s \in RatchetState, Orderly(s), Neat(s), NEW g \in Frame, Absent(s, g),
           g.key \in ChainKey, g.key.i = g.n,
           g.dh = s.DHr, s.CKr # None, g.key.root = s.CKr.root, s.Nr <= g.n,
           WithinLimits(s, g)
    PROVE  Opens(s, g)
<1>1. g.key = [root |-> g.key.root, i |-> g.n] /\ g.n \in Nat /\ s.Nr \in Nat
  BY DEF ChainKey, Frame, RatchetState
<1>2. Reached(s, g, g.dh) = Skip(s, g.n)
  BY DEF Reached, Turned
<1>3. Skip(s, g.n).CKr = [root |-> s.CKr.root, i |-> g.n]
  <2>0. Skip(s, g.n).Nr = IF s.CKr = None \/ g.n <= s.Nr THEN s.Nr ELSE g.n
    BY <1>1, SkippingNeat
  <2>1. Skip(s, g.n).Nr = g.n
    BY <1>1, <2>0
  <2> QED
    BY <1>1, <2>1, SkippingNeat
<1> QED
  BY <1>1, <1>2, <1>3, NotCached DEF Opens

LEMMA OpensByTurn ==
    ASSUME NEW s \in RatchetState, Orderly(s), Neat(s), Deep(s), NEW g \in Frame, Absent(s, g),
           g.key \in ChainKey, g.key.i = g.n,
           g.dh # s.DHr, g.key.root = MixRoot(s.RK, s.DHs, g.dh),
           WithinLimits(s, g)
    PROVE  Opens(s, g)
<1> DEFINE v == Turned(s, g, g.dh)
           r == MixRoot(s.RK, s.DHs, g.dh)
<1>1. /\ g.key = [root |-> g.key.root, i |-> g.n] /\ g.n \in Nat /\ g.dh \in Part
  BY DEF ChainKey, Frame
<1>2. /\ v \in RatchetState /\ Orderly(v) /\ Neat(v)
      /\ v.CKr = ChainOf(r) /\ v.Nr = 0 /\ v.CKr # None
  BY <1>1, TurningNeat
<1>3. Reached(s, g, g.dh) = Skip(v, g.n)
  BY DEF Reached
<1> HIDE DEF v, r
<1>4. Skip(v, g.n).CKr = [root |-> r, i |-> g.n]
  <2>0. Skip(v, g.n).Nr = IF v.CKr = None \/ g.n <= v.Nr THEN v.Nr ELSE g.n
    BY <1>1, <1>2, SkippingNeat
  <2>1. Skip(v, g.n).Nr = g.n
    BY <1>1, <1>2, <2>0
  <2>2. v.CKr.root = r
    BY <1>2 DEF ChainOf
  <2> QED
    BY <1>1, <1>2, <2>1, <2>2, SkippingNeat
<1> QED
  BY <1>1, <1>3, <1>4, NotCached DEF Opens, r

-----------------------------------------------------------------------------
(* The second invariant, for MessagesKept.                                   *)

\* Two copies of a session that differ only in what was sealed in between.
Alike(s, t) ==
    /\ s.secret = t.secret /\ s.pending = t.pending
    /\ s.ratchet.DHs = t.ratchet.DHs /\ s.ratchet.DHr = t.ratchet.DHr
    /\ s.ratchet.RK = t.ratchet.RK /\ s.ratchet.CKr = t.ratchet.CKr
    /\ s.ratchet.Nr = t.ratchet.Nr /\ s.ratchet.PN = t.ratchet.PN
    /\ s.ratchet.skipped = t.ratchet.skipped

\* What a restart brings back.
Saved ==
    \A d \in Dev :
        /\ mem[d] = None => disk[d] = None
        /\ mem[d] # None => IF disk[d] = None THEN mem[d].pending ELSE Alike(mem[d], disk[d])

Draft(d, s, f, fresh) ==
    [secret  |-> IF BuildsFresh(s, f) THEN f.x3dh ELSE s.secret,
     pending |-> FALSE,
     ratchet |-> AfterDecrypt(OpeningRatchet(d, s, f), f, fresh)]

\* The candidate is the live session's still, and its key pair has not been sent.
Drafted ==
    \A d \in Dev : At(d, "apply") \/ At(d, "commit") =>
        LET f == receiving[d].row.frame
        IN  /\ Accepts(d, mem[d], f)
            /\ receiving[d].cand = Draft(d, mem[d], f, <<d, minted[d]>>)
            /\ minted[d] > 0
            /\ \A g \in Released(d) : g.dh # <<d, minted[d]>>

\* A secret that its owner has made.
Numbered(k) == k[2] <= minted[k[1]]

Shape(d, s) ==
    /\ s.ratchet.RK[1] = s.secret
    /\ s.ratchet.DHs \in Last(s.ratchet.RK) /\ s.ratchet.DHs[2] > 0
    /\ Neat(s.ratchet)
    /\ \A c \in Held(s.ratchet.skipped) : c.key.root[1] = s.secret
    /\ s.pending =>
          /\ s.ratchet.CKr = None /\ s.ratchet.DHr = SPK(Peer(d)) /\ s.ratchet.skipped = <<>>
          /\ s.ratchet.Nr = 0 /\ s.ratchet.PN = 0
          /\ s.ratchet.RK = MixRoot(<<s.secret>>, s.ratchet.DHs, s.ratchet.DHr)
    /\ ~s.pending =>
          /\ s.ratchet.CKr # None
          /\ s.ratchet.RK = MixRoot(s.ratchet.CKr.root, s.ratchet.DHs, s.ratchet.DHr)

Shapes == \A d \in Dev : mem[d] # None => Shape(d, mem[d]) /\ Numbered(mem[d].secret)

\* A frame of device d,
Made(d, f) ==
    /\ f.key.i = f.n /\ f.dh \in Last(f.key.root) /\ f.dh[2] > 0
    /\ f.x3dh # None => f.key.root = MixRoot(<<f.x3dh>>, f.dh, SPK(Peer(d))) /\ f.pn = 0

\* and where it is in the line of sending chains that ends with session s of d,
Behind(f, s) ==
    /\ f.dh = s.ratchet.DHs <=> f.key.root = s.ratchet.RK
    /\ f.key.root = s.ratchet.RK => f.pn = s.ratchet.PN
    /\ f.key.root[1] = s.secret =>
          /\ Len(f.key.root) <= Len(s.ratchet.RK)
          /\ Len(f.key.root) = Len(s.ratchet.RK) => f.key.root = s.ratchet.RK
          /\ Len(f.key.root) + 2 = Len(s.ratchet.RK) => f.n < s.ratchet.PN

\* and to another frame.
InLine(f, g) ==
    /\ f.dh = g.dh <=> f.key.root = g.key.root
    /\ f.key.root = g.key.root => f.pn = g.pn
    /\ f.key.root[1] = g.key.root[1] =>
          /\ Len(f.key.root) = Len(g.key.root) => f.key.root = g.key.root
          /\ Len(f.key.root) + 2 = Len(g.key.root) => f.n < g.pn

\* The frame a send is to give out is the last one sealed.
LastSealed(d, f, s) ==
    /\ s.ratchet.Ns > 0
    /\ f.from = d /\ f.dh = s.ratchet.DHs /\ f.pn = s.ratchet.PN
    /\ f.x3dh = IF s.pending THEN s.secret ELSE None
    /\ f.n = s.ratchet.Ns - 1 /\ f.key = [root |-> s.ratchet.RK, i |-> s.ratchet.Ns - 1]

Lines ==
    \A d \in Dev :
        /\ \A f \in Released(d) : /\ Made(d, f) /\ Numbered(f.key.root[1])
                                  /\ mem[d] # None /\ Behind(f, mem[d])
        /\ \A f, g \in Released(d) : InLine(f, g)
        /\ sending[d] # None => mem[d] # None /\ LastSealed(d, sending[d], mem[d])

\* A device that gave a frame out has a session saved: that of the frame, or the
\* one it has since taken from the other device.
Secrets ==
    \A d \in Dev : \A f \in Released(d) :
        /\ disk[d] # None
        /\ \/ f.key.root[1] = disk[d].secret
           \/ d = High /\ ~disk[d].pending /\ f.x3dh # None
        /\ f.x3dh = None => disk[Peer(d)] # None /\ disk[Peer(d)].secret = f.key.root[1]

\* Session s has turned its ratchet on the key that session t of the peer sends under.
Follows(s, t) ==
    /\ s.ratchet.CKr # None /\ s.ratchet.CKr.root = t.ratchet.RK
    /\ s.ratchet.DHr = t.ratchet.DHs
    /\ s.ratchet.RK = MixRoot(t.ratchet.RK, t.ratchet.DHs, s.ratchet.DHs)

Met ==
    \A d \in Dev : mem[d] # None /\ mem[Peer(d)] # None /\ mem[d].secret = mem[Peer(d)].secret =>
        Follows(mem[d], mem[Peer(d)]) \/ Follows(mem[Peer(d)], mem[d])

\* The chains a device receives on, and has keys of, are of frames it was given.
Grounded(d, s) ==
    /\ ~s.pending => \E w \in sent : /\ w.from = Peer(d) /\ w.dh = s.ratchet.DHr
                                     /\ w.key.root = s.ratchet.CKr.root /\ w.n + 1 = s.ratchet.Nr
    /\ \A c \in Held(s.ratchet.skipped) :
          \E w \in sent : w.from = Peer(d) /\ w.dh = c.dh /\ w.key.root = c.key.root

\* Where a frame is for the session s that receives it: in the next chain, in this
\* one, or in one before.
Placed(f, s) ==
    f.key.root[1] = s.secret =>
        /\ Len(f.key.root) <= Len(s.ratchet.RK) + 1
        /\ Len(f.key.root) = Len(s.ratchet.RK) + 1 =>
              f.key.root = MixRoot(s.ratchet.RK, s.ratchet.DHs, f.dh)
        /\ ~s.pending /\ Len(f.key.root) + 1 = Len(s.ratchet.RK) =>
              f.key.root = s.ratchet.CKr.root

Passed(f, s) ==
    /\ f.key.root[1] = s.secret /\ ~s.pending
    /\ \/ f.key.root = s.ratchet.CKr.root /\ f.n < s.ratchet.Nr
       \/ Len(f.key.root) < Len(s.ratchet.CKr.root)

Cached(f, s) ==
    \E c \in Held(s.ratchet.skipped) : c.dh = f.dh /\ c.n = f.n /\ c.key = f.key

Heard ==
    \A d \in Dev : mem[d] # None =>
        /\ Grounded(d, mem[d])
        /\ \A f \in Released(Peer(d)) :
              /\ Placed(f, mem[d])
              /\ Passed(f, mem[d]) => Read(d, f) \/ f.key \in waived \/ Cached(f, mem[d])

\* A row is acknowledged when its frame is done with.
Books ==
    \A d \in Dev :
        /\ \A row, other \in rows[d] : row.id = other.id => row = other
        /\ receiving[d] # None => receiving[d].row \in rows[d]
        /\ At(d, "commit") \/ At(d, "ack") => Read(d, receiving[d].row.frame)
        /\ \A row \in rows[d] : row.id \in seen[d] /\ row.frame \in sent =>
              Read(d, row.frame) \/ Forgone(d, row.frame)

KeepInv ==
    /\ Inv /\ Saved /\ Drafted /\ Shapes /\ Lines /\ Secrets /\ Converged /\ Met /\ Heard
    /\ Books /\ NothingLost /\ DOMAIN abandoned = Dev

-----------------------------------------------------------------------------
(* What can be opened.                                                       *)

LEMMA Mixing ==
    ASSUME NEW r \in Root, NEW own \in Part, NEW their \in Part
    PROVE  /\ MixRoot(r, own, their) \in Root /\ Len(MixRoot(r, own, their)) = Len(r) + 1
           /\ Last(MixRoot(r, own, their)) = {own, their}
           /\ Len(r) > 0 => MixRoot(r, own, their)[1] = r[1]
BY Mixed

LEMMA FrameFacts ==
    ASSUME KeepInv, NEW d \in Dev, NEW f \in Released(d)
    PROVE  /\ f \in Frame /\ f.from = d /\ f.key \in ChainKey /\ f.key.root \in Root
           /\ f.key # Junk /\ f.dh \in {d} \X Nat /\ f.dh \in Part /\ f.n \in Nat /\ f.pn \in Nat
           /\ f.x3dh # None => f.x3dh \in {d} \X Nat /\ f.x3dh \in Key
           /\ Len(f.key.root) \in Nat /\ Len(f.key.root) > 1
           /\ f.key.root[1] \in Key /\ (f.key.root[1][1] = d <=> Even(Len(f.key.root)))
           /\ Made(d, f) /\ Numbered(f.key.root[1]) /\ Behind(f, mem[d])
           /\ mem[d] # None /\ disk[d] # None
           /\ \A g \in Released(d) : InLine(f, g)
<1>1. Inv
  BY DEF KeepInv
<1>2. f \in Frame /\ Own(d, minted[d], f)
  BY <1>1, Facts
<1>3. f.key \in ChainKey /\ f.n \in Nat /\ f.pn \in Nat /\ f.from = d
  BY <1>2 DEF Frame, Own
<1>4. f.key.root \in Root /\ Len(f.key.root) \in Nat
  BY <1>3 DEF ChainKey, Root
<1>5. /\ f.dh \in {d} \X Nat /\ f.dh \in Part
      /\ f.x3dh # None => f.x3dh \in {d} \X Nat /\ f.x3dh \in Key
  BY <1>2, Symbols DEF Own, Key, Frame
<1>6. Len(f.key.root) > 1 /\ f.key.root[1] \in Key /\ (f.key.root[1][1] = d <=> Even(Len(f.key.root)))
  BY <1>2 DEF Own, OwnRoot
<1>7. /\ Made(d, f) /\ Numbered(f.key.root[1]) /\ mem[d] # None /\ Behind(f, mem[d])
      /\ \A g \in Released(d) : InLine(f, g)
  BY DEF KeepInv, Lines
<1>8. disk[d] # None /\ f.key # Junk
  BY <1>2 DEF KeepInv, Secrets, Own
<1> QED
  BY <1>2, <1>3, <1>4, <1>5, <1>6, <1>7, <1>8

LEMMA LiveFacts ==
    ASSUME KeepInv, NEW d \in Dev, mem[d] # None
    PROVE  LET s == mem[d]
               r == s.ratchet
           IN  /\ s \in Session /\ s.secret \in Key /\ s.pending \in BOOLEAN
               /\ r \in RatchetState /\ Orderly(r) /\ Neat(r) /\ Deep(r)
               /\ r.RK \in Root /\ Len(r.RK) \in Nat /\ Len(r.RK) > 1 /\ r.RK[1] = s.secret
               /\ r.DHs \in {d} \X Nat /\ r.DHs \in Part /\ r.Nr \in Nat /\ r.Ns \in Nat
               /\ s.secret[1] = d <=> Even(Len(r.RK))
               /\ s.pending => s.secret[1] = d /\ Len(r.RK) = 2
               /\ ~s.pending => /\ r.CKr \in ChainKey /\ r.CKr.root \in Root
                                /\ Len(r.CKr.root) \in Nat /\ Len(r.RK) = Len(r.CKr.root) + 1
                                /\ r.DHr \in Part
               /\ Fit(d, minted[d], s) /\ Shape(d, s) /\ Numbered(s.secret) /\ Grounded(d, s)
<1> DEFINE s == mem[d]
           r == s.ratchet
<1>1. Inv
  BY DEF KeepInv
<1>2. s \in Session /\ Fit(d, minted[d], s)
  BY <1>1, Facts
<1>3. Shape(d, s) /\ Numbered(s.secret) /\ Grounded(d, s)
  BY DEF KeepInv, Shapes, Heard
<1> HIDE DEF s
<1>4. s.secret \in Key /\ s.pending \in BOOLEAN /\ r \in RatchetState
  BY <1>2 DEF Session
<1>5. Orderly(r) /\ Neat(r) /\ r.DHs \in {d} \X Nat /\ OwnRoot(d, minted[d], r.RK) /\ r.RK[1] = s.secret
      /\ (s.pending => s.secret[1] = d)
  BY <1>2, <1>3 DEF Fit, Shape
<1>6. r.RK \in Root /\ Len(r.RK) \in Nat /\ r.DHs \in Part /\ r.Nr \in Nat /\ r.Ns \in Nat
  BY <1>4 DEF RatchetState, Root
<1>7. Len(r.RK) > 1 /\ (s.secret[1] = d <=> Even(Len(r.RK)))
  BY <1>5 DEF OwnRoot
<1>8. ASSUME s.pending PROVE Len(r.RK) = 2 /\ r.CKr = None
  <2>1. r.RK = MixRoot(<<s.secret>>, r.DHs, r.DHr) /\ r.DHr = SPK(Peer(d)) /\ r.CKr = None
    BY <1>3, <1>8 DEF Shape
  <2>2. <<s.secret>> \in Root /\ Len(<<s.secret>>) = 1 /\ SPK(Peer(d)) \in Part
    <3>1. s.secret \in Part
      BY <1>4, Symbols
    <3> QED
      BY <3>1, Symbols, Peers DEF Root, SPK, Key
  <2>3. Len(MixRoot(<<s.secret>>, r.DHs, r.DHr)) = 1 + 1
    BY <1>6, <2>1, <2>2, Mixing
  <2> QED
    BY <2>1, <2>3
<1>9. ASSUME ~s.pending
      PROVE  /\ r.CKr \in ChainKey /\ r.CKr.root \in Root /\ Len(r.CKr.root) \in Nat
             /\ Len(r.RK) = Len(r.CKr.root) + 1 /\ r.DHr \in Part
  <2>1. r.CKr # None /\ r.RK = MixRoot(r.CKr.root, r.DHs, r.DHr)
    BY <1>3, <1>9 DEF Shape
  <2>2. r.CKr \in ChainKey
    BY <1>4, <2>1 DEF RatchetState
  <2>3. r.CKr.root \in Root /\ Len(r.CKr.root) \in Nat
    BY <2>2 DEF ChainKey, Root
  <2>4. r.DHr \in Part
    <3>1. PICK w \in sent : w.dh = r.DHr
      BY <1>3, <1>9 DEF Grounded
    <3>2. sent \subseteq Frame
      BY <1>1 DEF Inv, Types
    <3> QED
      BY <3>1, <3>2 DEF Frame
  <2>5. Len(MixRoot(r.CKr.root, r.DHs, r.DHr)) = Len(r.CKr.root) + 1
    BY <1>6, <2>3, <2>4, Mixing
  <2> QED
    BY <2>1, <2>2, <2>3, <2>4, <2>5
<1>10. Deep(r)
  BY <1>4, <1>6, <1>8, <1>9 DEF Deep
<1> QED
  BY <1>2, <1>3, <1>4, <1>5, <1>6, <1>7, <1>8, <1>9, <1>10 DEF s

LEMMA MixBoth == \A r, x, y : MixRoot(r, x, y) = MixRoot(r, y, x)
<1>1. \A x, y : {x, y} = {y, x}
  OBVIOUS
<1> QED
  BY <1>1 DEF MixRoot

LEMMA Responder ==
    ASSUME NEW d \in Dev, NEW secret \in Key
    PROVE  LET r == InitResponder(secret, SPK(d))
           IN  /\ r \in RatchetState /\ Orderly(r) /\ Neat(r) /\ Deep(r)
               /\ Held(r.skipped) = {} /\ r.CKr = None /\ r.DHr = None
               /\ r.RK = <<secret>> /\ r.DHs = SPK(d) /\ r.Nr = 0 /\ r.Ns = 0
               /\ r.RK \in Root /\ Len(r.RK) = 1 /\ r.DHs \in Part
<1> DEFINE r == [DHs |-> SPK(d), DHr |-> None, RK |-> <<secret>>, CKs |-> None, CKr |-> None,
                 Ns |-> 0, Nr |-> 0, PN |-> 0, skipped |-> <<>>]
<1>1. r = InitResponder(secret, SPK(d))
  BY DEF InitResponder
<1>2. secret \in Part /\ SPK(d) \in Part
  BY Symbols DEF SPK, Key
<1>3. <<secret>> \in Root /\ <<>> \in Seq(Entry) /\ Len(<<secret>>) = 1
  BY <1>2 DEF Root
<1>4. r \in RatchetState
  BY <1>2, <1>3 DEF RatchetState
<1>5. Held(r.skipped) = {} /\ Sorted(r.skipped)
  BY DEF Held, Sorted
<1>6. Orderly(r) /\ Neat(r) /\ Deep(r)
  BY <1>5, Symbols DEF Orderly, Neat, Deep
<1> QED
  BY <1>1, <1>2, <1>3, <1>4, <1>5, <1>6

LEMMA Prekey ==
    ASSUME KeepInv, NEW d \in Dev, NEW f \in Released(d), f.x3dh # None
    PROVE  /\ f.x3dh \in Key /\ f.x3dh[1] = d /\ f.key.root[1] = f.x3dh /\ Len(f.key.root) = 2
           /\ f.key.root = MixRoot(<<f.x3dh>>, SPK(Peer(d)), f.dh) /\ f.pn = 0
<1>1. /\ f.x3dh \in Key /\ f.x3dh \in {d} \X Nat /\ f.dh \in Part
      /\ f.key.root = MixRoot(<<f.x3dh>>, f.dh, SPK(Peer(d))) /\ f.pn = 0
  BY FrameFacts DEF Made
<1>2. <<f.x3dh>> \in Root /\ Len(<<f.x3dh>>) = 1 /\ SPK(Peer(d)) \in Part
  <2>1. f.x3dh \in Part
    BY <1>1, Symbols
  <2> QED
    BY <2>1, Symbols, Peers DEF Root, SPK, Key
<1>3. Len(f.key.root) = 1 + 1 /\ f.key.root[1] = <<f.x3dh>>[1]
  <2> DEFINE base == <<f.x3dh>>
             spk  == SPK(Peer(d))
  <2>1. base \in Root /\ Len(base) = 1 /\ spk \in Part /\ f.key.root = MixRoot(base, f.dh, spk)
    BY <1>1, <1>2
  <2> HIDE DEF base, spk
  <2>2. Len(base) > 0
    BY <2>1
  <2>3. Len(MixRoot(base, f.dh, spk)) = Len(base) + 1 /\ MixRoot(base, f.dh, spk)[1] = base[1]
    BY <1>1, <2>1, <2>2, Mixing
  <2> QED
    BY <2>1, <2>3 DEF base
<1> QED
  BY <1>1, <1>3, MixBoth

\* The frames a session has a chain in common with are those of its secret.
LEMMA Shared ==
    ASSUME KeepInv, NEW d \in Dev, NEW f \in Released(Peer(d)), mem[d] # None,
           ~BuildsFresh(mem[d], f), ~Superseded(d, mem[d], f)
    PROVE  f.key.root[1] = mem[d].secret
<1> DEFINE s == mem[d]
           e == Peer(d)
<1>1. e \in Dev /\ e # d /\ Peer(e) = d
  BY Peers
<1>2. CASE s.pending
  <2>1. f.x3dh = None
    BY <1>2 DEF BuildsFresh
  <2>2. disk[d] # None /\ disk[d].secret = f.key.root[1]
    BY <1>1, <2>1 DEF KeepInv, Secrets
  <2> QED
    BY <2>2 DEF KeepInv, Saved, Alike
<1>3. CASE ~s.pending
  <2>1. disk[e] # None /\ disk[e].secret = s.secret
    BY <1>3 DEF KeepInv, Converged
  <2>2. f.key.root[1] = disk[e].secret \/ e = High
    BY <1>1 DEF KeepInv, Secrets
  <2>3. CASE e = High
    <3>1. d = Low
      BY <1>1, <2>3 DEF Dev
    <3> QED
      BY <3>1 DEF Superseded
  <2> QED
    BY <2>1, <2>2, <2>3
<1> QED
  BY <1>2, <1>3

\* The parities tell the two devices' chains apart.
LEMMA Parted ==
    ASSUME KeepInv, NEW d \in Dev, NEW f \in Released(Peer(d)), mem[d] # None,
           f.key.root[1] = mem[d].secret
    PROVE  Len(f.key.root) # Len(mem[d].ratchet.RK)
<1>1. Peer(d) \in Dev /\ Peer(d) # d /\ Dev = {d, Peer(d)}
  BY Peers DEF Dev, Peer
<1>2. f.key.root[1] \in Key /\ (f.key.root[1][1] = Peer(d) <=> Even(Len(f.key.root)))
  BY <1>1, FrameFacts
<1>3. mem[d].secret[1] = d <=> Even(Len(mem[d].ratchet.RK))
  BY LiveFacts
<1>4. f.key.root[1][1] \in Dev
  BY <1>2 DEF Key
<1> QED
  BY <1>1, <1>2, <1>3, <1>4

\* A chain the device receives on, or has keys of, is a frame's if the key pair is.
LEMMA KnownChain ==
    ASSUME KeepInv, NEW d \in Dev, NEW f \in Released(Peer(d)), mem[d] # None
    PROVE  /\ ~mem[d].pending =>
                (f.dh = mem[d].ratchet.DHr <=> f.key.root = mem[d].ratchet.CKr.root)
           /\ \A c \in Held(mem[d].ratchet.skipped) : f.dh = c.dh <=> f.key.root = c.key.root
<1>1. Peer(d) \in Dev
  BY Peers
<1>2. \A w \in sent : w.from = Peer(d) => w \in Released(Peer(d))
  BY DEF Released
<1>3. \A w \in Released(Peer(d)) : f.dh = w.dh <=> f.key.root = w.key.root
  BY <1>1, FrameFacts DEF InLine
<1>4. Grounded(d, mem[d])
  BY LiveFacts
<1> QED
  BY <1>2, <1>3, <1>4 DEF Grounded

\* A prekey frame opens in a session that it begins.
LEMMA FreshOpens ==
    ASSUME KeepInv, NEW d \in Dev, NEW f \in Released(Peer(d)), NEW s,
           BuildsFresh(s, f), ~LosesTie(d, s, f), ~TooFar(d, s, f)
    PROVE  Accepts(d, s, f)
<1> DEFINE r == OpeningRatchet(d, s, f)
<1>1. Peer(d) \in Dev /\ Peer(Peer(d)) = d
  BY Peers
<1>2. f \in Frame /\ f.key \in ChainKey /\ f.key.i = f.n /\ f.dh \in Part
  BY <1>1, FrameFacts DEF Made
<1>3. f.x3dh \in Key /\ f.key.root = MixRoot(<<f.x3dh>>, SPK(d), f.dh)
  BY <1>1, Prekey DEF BuildsFresh
<1>4. r = InitResponder(f.x3dh, SPK(d)) /\ WithinLimits(r, f)
  BY DEF OpeningRatchet, TooFar
<1> HIDE DEF r
<1>5. /\ r \in RatchetState /\ Orderly(r) /\ Neat(r) /\ Deep(r) /\ Held(r.skipped) = {}
      /\ r.DHr = None /\ r.RK = <<f.x3dh>> /\ r.DHs = SPK(d)
  BY <1>3, <1>4, Responder
<1>6. f.dh # r.DHr /\ Absent(r, f)
  BY <1>2, <1>5, Symbols DEF Absent
<1>7. f.key.root = MixRoot(r.RK, r.DHs, f.dh)
  BY <1>3, <1>5
<1>8. Opens(r, f)
  BY <1>2, <1>4, <1>5, <1>6, <1>7, OpensByTurn
<1> QED
  BY <1>8 DEF Accepts, r

LEMMA Openable ==
    ASSUME KeepInv, NEW d \in Dev, NEW f \in Released(Peer(d)),
           ~TooFar(d, mem[d], f), ~Superseded(d, mem[d], f)
    PROVE  Accepts(d, mem[d], f) \/ (mem[d] # None /\ Passed(f, mem[d]))
<1> DEFINE s == mem[d]
           e == Peer(d)
           r == OpeningRatchet(d, s, f)
<1>1. e \in Dev /\ e # d /\ Peer(e) = d
  BY Peers
<1>2. /\ f \in Frame /\ f.key \in ChainKey /\ f.key.i = f.n /\ f.dh \in Part /\ f.n \in Nat
      /\ f.dh \in {e} \X Nat /\ f.dh[2] > 0 /\ Len(f.key.root) \in Nat /\ Len(f.key.root) > 1
  BY <1>1, FrameFacts DEF Made
<1>3. s # None \/ BuildsFresh(s, f) => WithinLimits(r, f)
  BY DEF TooFar
<1>4. CASE BuildsFresh(s, f)
  <2>1. f.x3dh # None /\ f.key.root[1] = f.x3dh /\ f.x3dh[1] = e
    BY <1>1, <1>4, Prekey DEF BuildsFresh
  <2>2. ~LosesTie(d, s, f)
    <3> SUFFICES ASSUME s # None, s.pending, d = Low PROVE FALSE
      BY DEF LosesTie
    <3>1. s.secret[1] = d
      BY LiveFacts
    <3> QED
      BY <1>1, <2>1, <3>1 DEF Superseded
  <2> QED
    BY <1>4, <2>2, FreshOpens
<1>5. CASE s = None /\ ~BuildsFresh(s, f)
  <2>1. f.x3dh = None
    BY <1>5 DEF BuildsFresh
  <2>2. disk[d] # None
    BY <1>1, <2>1 DEF KeepInv, Secrets
  <2> QED
    BY <1>5, <2>2 DEF KeepInv, Saved
<1>6. CASE s # None /\ ~BuildsFresh(s, f)
  <2>1. f.key.root[1] = s.secret
    BY <1>6, Shared
  <2>2. r = s.ratchet /\ WithinLimits(r, f)
    BY <1>3, <1>6 DEF OpeningRatchet
  <2>3. ~LosesTie(d, s, f)
    BY <1>6 DEF LosesTie, BuildsFresh
  <2>4. Accepts(d, s, f) <=> Opens(r, f)
    BY <1>6, <2>3 DEF Accepts
  <2>5. /\ r \in RatchetState /\ Orderly(r) /\ Neat(r) /\ Deep(r) /\ r.Nr \in Nat
        /\ Len(r.RK) \in Nat
        /\ s.pending => Len(r.RK) = 2
        /\ ~s.pending => /\ r.CKr \in ChainKey /\ Len(r.CKr.root) \in Nat
                         /\ Len(r.RK) = Len(r.CKr.root) + 1
        /\ Shape(d, s) /\ r.skipped \in Seq(Entry)
    BY <1>6, <2>2, LiveFacts DEF RatchetState
  <2>6. Len(f.key.root) # Len(r.RK)
    BY <1>6, <2>1, <2>2, Parted
  <2>7. /\ Len(f.key.root) <= Len(r.RK) + 1
        /\ Len(f.key.root) = Len(r.RK) + 1 => f.key.root = MixRoot(r.RK, r.DHs, f.dh)
        /\ ~s.pending /\ Len(f.key.root) + 1 = Len(r.RK) => f.key.root = r.CKr.root
    BY <1>6, <2>1, <2>2 DEF KeepInv, Heard, Placed
  <2>8. /\ ~s.pending => (f.dh = r.DHr <=> f.key.root = r.CKr.root)
        /\ \A c \in Held(r.skipped) : f.dh = c.dh <=> f.key.root = c.key.root
    BY <1>6, <2>2, KnownChain
  <2>9. \A c \in Held(r.skipped) :
           /\ c.n \in Nat /\ Len(c.key.root) \in Nat /\ ~s.pending
           /\ \/ c.key.root = r.CKr.root /\ c.n < r.Nr
              \/ Len(c.key.root) < Len(r.CKr.root)
    <3>1. s.pending => Held(r.skipped) = {}
      BY <2>2, <2>5 DEF Shape, Held
    <3> QED
      BY <2>5, <3>1, HeldTyped DEF Neat
  <2> HIDE DEF r
  <2>13. /\ Len(f.key.root) \in Nat /\ Len(f.key.root) > 1 /\ Len(r.RK) \in Nat
         /\ s.pending => Len(r.RK) = 2
    BY <1>2, <2>5
  <2>10. CASE Len(f.key.root) = Len(r.RK) + 1
    <3>1. f.dh # r.DHr
      <4>1. CASE s.pending
        <5>1. r.DHr = <<e, 0>>
          BY <2>2, <2>5, <4>1 DEF Shape, SPK
        <5> QED
          BY <1>2, <5>1
      <4>2. CASE ~s.pending
        BY <2>5, <2>8, <2>10, <4>2
      <4> QED
        BY <4>1, <4>2
    <3>2. Absent(r, f)
      BY <2>5, <2>8, <2>9, <2>10 DEF Absent
    <3>3. f.key.root = MixRoot(r.RK, r.DHs, f.dh)
      BY <2>7, <2>10
    <3>4. Opens(r, f)
      BY <1>2, <2>2, <2>5, <3>1, <3>2, <3>3, OpensByTurn
    <3> QED
      BY <2>4, <3>4
  <2>11. CASE Len(f.key.root) + 1 = Len(r.RK)
    <3>1. ~s.pending /\ f.key.root = r.CKr.root /\ f.dh = r.DHr
      <4> DEFINE m == Len(f.key.root)
                 n == Len(r.RK)
      <4>2. m \in Nat /\ n \in Nat /\ m > 1 /\ m + 1 = n
        BY <2>11, <2>13
      <4> HIDE DEF m, n
      <4>3. n # 2
        BY <4>2
      <4>0. Len(r.RK) # 2
        BY <4>3 DEF n
      <4>1. ~s.pending
        BY <2>13, <4>0
      <4> QED
        BY <2>7, <2>8, <2>11, <4>1
    <3>2. CASE f.n < r.Nr
      <4>1. Passed(f, s)
        BY <2>1, <2>2, <3>1, <3>2 DEF Passed
      <4> QED
        BY <1>6, <4>1
    <3>3. CASE ~(f.n < r.Nr)
      <4>1. Absent(r, f)
        BY <2>5, <2>8, <2>9, <3>1, <3>3 DEF Absent
      <4>2. r.CKr # None /\ r.Nr <= f.n
        BY <1>2, <2>5, <3>1, <3>3, Symbols
      <4>3. Opens(r, f)
        BY <1>2, <2>2, <2>5, <3>1, <4>1, <4>2, OpensByChain
      <4> QED
        BY <2>4, <4>3
    <3> QED
      BY <3>2, <3>3
  <2>12. CASE Len(f.key.root) + 1 < Len(r.RK)
    <3>1. ~s.pending /\ Len(f.key.root) < Len(r.CKr.root)
      <4> DEFINE m == Len(f.key.root)
                 n == Len(r.RK)
      <4>2. m \in Nat /\ n \in Nat /\ m > 1 /\ m + 1 < n
        BY <2>12, <2>13
      <4> HIDE DEF m, n
      <4>3. n # 2
        BY <4>2
      <4>0. Len(r.RK) # 2
        BY <4>3 DEF n
      <4>1. ~s.pending
        BY <2>13, <4>0
      <4>4. Len(r.RK) = Len(r.CKr.root) + 1 /\ Len(r.CKr.root) \in Nat
        BY <2>5, <4>1
      <4> QED
        BY <1>2, <2>12, <4>1, <4>4
    <3>2. Passed(f, s)
      BY <2>1, <2>2, <3>1 DEF Passed
    <3> QED
      BY <1>6, <3>2
  <2> QED
    BY <2>6, <2>7, <2>10, <2>11, <2>12, <2>13
<1> QED
  BY <1>4, <1>5, <1>6

LEMMA CachedOpens ==
    ASSUME KeepInv, NEW d \in Dev, NEW f \in Released(Peer(d)), mem[d] # None,
           ~mem[d].pending, Cached(f, mem[d])
    PROVE  Accepts(d, mem[d], f)
<1>1. f \in Frame /\ mem[d].ratchet \in RatchetState
  BY FrameFacts, LiveFacts, Peers
<1>2. OpeningRatchet(d, mem[d], f) = mem[d].ratchet /\ ~LosesTie(d, mem[d], f)
  BY DEF OpeningRatchet, BuildsFresh, LosesTie
<1>3. Opens(mem[d].ratchet, f)
  BY <1>1, OpensByCache DEF Cached
<1> QED
  BY <1>2, <1>3 DEF Accepts

LEMMA AlikeOpens ==
    ASSUME NEW d \in Dev, NEW s \in Session, NEW t \in Session, Alike(s, t),
           Orderly(s.ratchet), Orderly(t.ratchet), NEW f \in Frame
    PROVE  /\ Accepts(d, s, f) <=> Accepts(d, t, f)
           /\ TooFar(d, s, f) <=> TooFar(d, t, f)
           /\ Superseded(d, s, f) <=> Superseded(d, t, f)
<1> DEFINE r == s.ratchet
           q == t.ratchet
<1>1. r \in RatchetState /\ q \in RatchetState /\ s # None /\ t # None
  BY Symbols DEF Session
<1>2. BuildsFresh(s, f) <=> BuildsFresh(t, f)
  BY <1>1 DEF BuildsFresh, Alike
<1>3. LosesTie(d, s, f) <=> LosesTie(d, t, f)
  BY <1>1 DEF LosesTie, Alike
<1>4. f.dh \in Part /\ f.n \in Nat
  BY DEF Frame
<1>5. Reached(r, f, f.dh).CKr = Reached(q, f, f.dh).CKr
  <2> DEFINE u == Turned(r, f, f.dh)
             v == Turned(q, f, f.dh)
  <2>1. /\ u \in RatchetState /\ v \in RatchetState /\ u.CKr = v.CKr /\ u.Nr = v.Nr
    <3>1. CASE f.dh = r.DHr
      <4>1. u = r /\ v = q
        BY <3>1 DEF Turned, Alike
      <4> QED
        BY <1>1, <4>1 DEF Alike
    <3>2. CASE f.dh # r.DHr
      <4>1. /\ u \in RatchetState /\ u.CKr = ChainOf(MixRoot(r.RK, r.DHs, f.dh)) /\ u.Nr = 0
        BY <1>1, <1>4, <3>2, Turning
      <4>2. f.dh # q.DHr
        BY <3>2 DEF Alike
      <4>3. /\ v \in RatchetState /\ v.CKr = ChainOf(MixRoot(q.RK, q.DHs, f.dh)) /\ v.Nr = 0
        BY <1>1, <1>4, <4>2, Turning
      <4> QED
        BY <4>1, <4>3 DEF Alike
    <3> QED
      BY <3>1, <3>2
  <2> HIDE DEF u, v
  <2>2. Skip(u, f.n).CKr = Skip(v, f.n).CKr
    BY <1>4, <2>1, SkippingAlike
  <2> QED
    BY <2>2 DEF Reached, u, v
<1>6. WithinLimits(r, f) <=> WithinLimits(q, f)
  BY DEF WithinLimits, SkipAllowed, Alike
<1>7. Opens(r, f) <=> Opens(q, f)
  <2>1. CachedAt(r, f) = CachedAt(q, f)
    BY DEF CachedAt, Alike
  <2> QED
    BY <1>5, <1>6, <2>1 DEF Opens, FromCache, Alike
<1>8. CASE BuildsFresh(s, f)
  <2>1. OpeningRatchet(d, s, f) = OpeningRatchet(d, t, f)
    BY <1>2, <1>8 DEF OpeningRatchet
  <2> QED
    BY <1>1, <1>2, <1>3, <2>1 DEF Accepts, TooFar, Superseded, Alike
<1>9. CASE ~BuildsFresh(s, f)
  <2>1. OpeningRatchet(d, s, f) = r /\ OpeningRatchet(d, t, f) = q
    BY <1>2, <1>9 DEF OpeningRatchet
  <2> HIDE DEF r, q
  <2> QED
    BY <1>1, <1>2, <1>3, <1>6, <1>7, <2>1 DEF Accepts, TooFar, Superseded, Alike
<1> QED
  BY <1>8, <1>9

LEMMA Undergone ==
    ASSUME NEW d \in Dev
    PROVE  Underway(d) = Released(Peer(d))
BY DEF Underway, Released

LEMMA KeepDeliverable == ASSUME KeepInv PROVE Deliverable
<1> SUFFICES ASSUME NEW d \in Dev, NEW f \in Released(Peer(d)), NEW s \in {mem[d], disk[d]},
                    ~Read(d, f), f.key \notin waived, ~Excluded(d, s, f)
             PROVE  Accepts(d, s, f)
  BY Undergone DEF Deliverable
<1>1. Peer(d) \in Dev /\ Peer(Peer(d)) = d
  BY Peers
<1>2. f \in Frame /\ f.key # Junk /\ ~TooFar(d, s, f) /\ ~Superseded(d, s, f)
  BY <1>1, FrameFacts DEF Excluded, Genuine
<1>3. ASSUME s = mem[d] PROVE Accepts(d, mem[d], f)
  <2>1. Accepts(d, mem[d], f) \/ (mem[d] # None /\ Passed(f, mem[d]))
    BY <1>2, <1>3, Openable
  <2>2. ASSUME mem[d] # None, Passed(f, mem[d]) PROVE Accepts(d, mem[d], f)
    <3>1. Cached(f, mem[d])
      BY <2>2 DEF KeepInv, Heard
    <3>2. ~mem[d].pending
      BY <2>2 DEF Passed
    <3> QED
      BY <2>2, <3>1, <3>2, CachedOpens
  <2> QED
    BY <2>1, <2>2
<1>4. ASSUME s = disk[d], s # mem[d], s # None PROVE Accepts(d, s, f)
  <2>1. mem[d] # None /\ Alike(mem[d], s)
    BY <1>4 DEF KeepInv, Saved
  <2>2. s \in Session /\ mem[d] \in Session /\ Orderly(s.ratchet) /\ Orderly(mem[d].ratchet)
    BY <1>4, <2>1, Facts DEF KeepInv, Fit
  <2>3. ~TooFar(d, mem[d], f) /\ ~Superseded(d, mem[d], f)
    BY <1>2, <2>1, <2>2, AlikeOpens
  <2>4. Accepts(d, mem[d], f)
    <3>1. Accepts(d, mem[d], f) \/ Passed(f, mem[d])
      BY <2>3, Openable
    <3>2. ASSUME Passed(f, mem[d]) PROVE Accepts(d, mem[d], f)
      <4>1. Cached(f, mem[d]) /\ ~mem[d].pending
        BY <2>1, <3>2 DEF KeepInv, Heard, Passed
      <4> QED
        BY <2>1, <4>1, CachedOpens
    <3> QED
      BY <3>1, <3>2
  <2> QED
    BY <1>2, <2>1, <2>2, <2>4, AlikeOpens
<1>5. ASSUME s = disk[d], s = None PROVE Accepts(d, s, f)
  <2>1. f.x3dh # None
    BY <1>1, <1>5 DEF KeepInv, Secrets
  <2>2. BuildsFresh(s, f) /\ ~LosesTie(d, s, f)
    BY <1>5, <2>1 DEF BuildsFresh, LosesTie
  <2> QED
    BY <1>2, <2>2, FreshOpens
<1> QED
  BY <1>3, <1>4, <1>5

-----------------------------------------------------------------------------
(* The commit of a candidate.                                                *)

LEMMA Committing ==
    ASSUME KeepInv, NEW d \in Dev, At(d, "commit")
    PROVE  LET s == mem[d]
               g == receiving[d].row.frame
               c == receiving[d].cand
               e == Peer(d)
           IN  /\ e \in Dev /\ e # d /\ Peer(e) = d /\ Dev = {d, e}
               /\ g \in sent /\ g.from = e /\ g \in Released(e) /\ Read(d, g)
               /\ Accepts(d, s, g) /\ c = Draft(d, s, g, <<d, minted[d]>>)
               /\ minted[d] > 0 /\ \A f \in Released(d) : f.dh # <<d, minted[d]>>
               /\ <<d, minted[d]>> \in Part
               /\ BuildsFresh(s, g) =>
                     /\ g.x3dh \in Key /\ g.x3dh[1] = e /\ c.secret = g.x3dh
                     /\ s = None \/ (s.pending /\ d = High)
               /\ ~BuildsFresh(s, g) => s # None /\ c.secret = s.secret
<1> DEFINE s == mem[d]
           g == receiving[d].row.frame
           c == receiving[d].cand
           e == Peer(d)
<1>1. e \in Dev /\ e # d /\ Peer(e) = d
  BY Peers
<1>2. Dev = {d, e}
  BY DEF Dev, Peer
<1>3. receiving[d] # None
  BY DEF At
<1>4. g \in sent /\ g.from = e
  BY <1>3 DEF KeepInv, Inv, Queues
<1>5. g \in Released(e)
  BY <1>4 DEF Released
<1>6. Read(d, g)
  BY DEF KeepInv, Books
<1>7. /\ Accepts(d, s, g) /\ c = Draft(d, s, g, <<d, minted[d]>>)
      /\ minted[d] > 0 /\ \A f \in Released(d) : f.dh # <<d, minted[d]>>
  BY DEF KeepInv, Drafted
<1>8. <<d, minted[d]>> \in Part
  BY Facts, Symbols DEF KeepInv, Key
<1>9. c.secret = IF BuildsFresh(s, g) THEN g.x3dh ELSE s.secret
  BY <1>7 DEF Draft
<1>10. ASSUME BuildsFresh(s, g)
       PROVE  /\ g.x3dh \in Key /\ g.x3dh[1] = e /\ c.secret = g.x3dh
              /\ s = None \/ (s.pending /\ d = High)
  <2>1. g.x3dh # None /\ (s = None \/ s.pending)
    BY <1>10 DEF BuildsFresh
  <2>2. g.x3dh \in Key /\ g.x3dh[1] = e
    BY <1>1, <1>5, <2>1, Prekey
  <2>3. ~LosesTie(d, s, g)
    BY <1>7 DEF Accepts
  <2>4. s = None \/ (s.pending /\ d = High)
    BY <2>1, <2>3 DEF LosesTie, Dev
  <2> QED
    BY <1>9, <1>10, <2>2, <2>4
<1>11. ~BuildsFresh(s, g) => s # None /\ c.secret = s.secret
  BY <1>7, <1>9 DEF Accepts
<1> QED
  BY <1>1, <1>2, <1>4, <1>5, <1>6, <1>7, <1>8, <1>10, <1>11

\* A session that is begun with a frame of the peer.
LEMMA TakenFresh ==
    ASSUME KeepInv, NEW d \in Dev, At(d, "commit"),
           BuildsFresh(mem[d], receiving[d].row.frame)
    PROVE  LET g == receiving[d].row.frame
               c == receiving[d].cand
               e == Peer(d)
               t == c.ratchet
           IN  /\ ~c.pending /\ c.secret = g.key.root[1] /\ c.secret[1] = e
               /\ t \in RatchetState /\ Orderly(t) /\ Neat(t)
               /\ Len(g.key.root) = 2
               /\ g.n <= MaxSkip
               /\ t.DHs = <<d, minted[d]>> /\ t.DHr = g.dh /\ t.PN = 0
               /\ t.RK = MixRoot(g.key.root, <<d, minted[d]>>, g.dh)
               /\ t.CKr = [root |-> g.key.root, i |-> g.n + 1] /\ t.Nr = g.n + 1
               /\ Grown(Span(g.dh, g.key.root, 0, g.n), t.skipped)
<1> DEFINE s == mem[d]
           g == receiving[d].row.frame
           c == receiving[d].cand
           e == Peer(d)
           r == InitResponder(g.x3dh, SPK(d))
           fresh == <<d, minted[d]>>
           t == AfterDecrypt(r, g, fresh)
<1>1. /\ e \in Dev /\ g \in Released(e) /\ Accepts(d, s, g) /\ c = Draft(d, s, g, fresh)
      /\ fresh \in Part /\ g.x3dh \in Key /\ g.x3dh[1] = e /\ c.secret = g.x3dh
  BY Committing
<1>2. g \in Frame /\ g.key.i = g.n /\ g.dh \in Part /\ g.n \in Nat /\ g.pn \in Nat
  BY <1>1, FrameFacts DEF Made
<1>3. g.key.root[1] = g.x3dh /\ Len(g.key.root) = 2
  BY <1>1, Prekey DEF BuildsFresh
<1>4. OpeningRatchet(d, s, g) = r /\ Opens(r, g)
  BY <1>1 DEF OpeningRatchet, Accepts
<1>5. /\ r \in RatchetState /\ Orderly(r) /\ Neat(r) /\ Deep(r)
      /\ Held(r.skipped) = {} /\ r.CKr = None /\ r.DHr = None /\ r.Ns = 0
  BY <1>1, Responder
<1>6. c = [secret |-> g.x3dh, pending |-> FALSE, ratchet |-> t]
  BY <1>1, <1>4 DEF Draft
<1> HIDE DEF r, t, c, fresh
<1>7. /\ t \in RatchetState /\ Orderly(t) /\ Neat(t)
      /\ ByCache(r, g, t) \/ ByChain(r, g, t) \/ ByTurn(r, g, fresh, t)
  BY <1>1, <1>2, <1>4, <1>5, Opened DEF t
<1>8. ByTurn(r, g, fresh, t)
  BY <1>5, <1>7 DEF ByCache, ByChain
<1>9. (Held(r.skipped) \union Skipped(r, g.pn)) \union Span(g.dh, g.key.root, 0, g.n)
         = Span(g.dh, g.key.root, 0, g.n)
  BY <1>5 DEF Skipped
<1>10. /\ g.n <= MaxSkip /\ t.DHs = fresh /\ t.DHr = g.dh /\ t.PN = 0
       /\ t.RK = MixRoot(g.key.root, fresh, g.dh)
       /\ t.CKr = [root |-> g.key.root, i |-> g.n + 1] /\ t.Nr = g.n + 1
       /\ Grown(Span(g.dh, g.key.root, 0, g.n), t.skipped)
  BY <1>5, <1>8, <1>9 DEF ByTurn
<1>11. ~c.pending /\ c.secret = g.x3dh /\ c.ratchet = t
  BY <1>6
<1>12. ~c.pending /\ c.secret = g.key.root[1] /\ c.secret[1] = e /\ Len(g.key.root) = 2
  BY <1>1, <1>3, <1>11
<1>13. c.ratchet \in RatchetState /\ Orderly(c.ratchet) /\ Neat(c.ratchet)
  BY <1>7, <1>11
<1>14. /\ g.n <= MaxSkip /\ c.ratchet.DHs = fresh /\ c.ratchet.DHr = g.dh /\ c.ratchet.PN = 0
       /\ c.ratchet.RK = MixRoot(g.key.root, fresh, g.dh)
       /\ c.ratchet.CKr = [root |-> g.key.root, i |-> g.n + 1] /\ c.ratchet.Nr = g.n + 1
       /\ Grown(Span(g.dh, g.key.root, 0, g.n), c.ratchet.skipped)
  BY <1>10, <1>11
<1> QED
  BY <1>12, <1>13, <1>14 DEF fresh, c

\* A session that takes a frame of its own.
LEMMA TakenOn ==
    ASSUME KeepInv, NEW d \in Dev, At(d, "commit"),
           ~BuildsFresh(mem[d], receiving[d].row.frame)
    PROVE  LET s == mem[d]
               g == receiving[d].row.frame
               c == receiving[d].cand
               r == s.ratchet
               t == c.ratchet
           IN  /\ ~c.pending /\ c.secret = s.secret /\ c.secret = g.key.root[1]
               /\ t \in RatchetState /\ Orderly(t) /\ Neat(t)
               /\ \/ ByCache(r, g, t) /\ ~s.pending
                  \/ ByChain(r, g, t) /\ ~s.pending
                  \/ ByTurn(r, g, <<d, minted[d]>>, t) /\ Len(g.key.root) = Len(r.RK) + 1
<1> DEFINE s == mem[d]
           g == receiving[d].row.frame
           c == receiving[d].cand
           e == Peer(d)
           r == s.ratchet
           fresh == <<d, minted[d]>>
           t == AfterDecrypt(r, g, fresh)
<1>1. /\ e \in Dev /\ g \in Released(e) /\ Accepts(d, s, g) /\ c = Draft(d, s, g, fresh)
      /\ fresh \in Part /\ s # None /\ c.secret = s.secret
  BY Committing
<1>2. g \in Frame /\ g.key.i = g.n /\ g.dh \in Part /\ g.n \in Nat /\ g.pn \in Nat
  BY <1>1, FrameFacts DEF Made
<1>3. OpeningRatchet(d, s, g) = r /\ Opens(r, g)
  BY <1>1 DEF OpeningRatchet, Accepts
<1>4. /\ r \in RatchetState /\ Orderly(r) /\ Neat(r) /\ Deep(r)
      /\ Shape(d, s) /\ r.RK \in Root /\ r.RK[1] = s.secret /\ Len(r.RK) \in Nat /\ Len(r.RK) > 1
      /\ r.DHs \in Part
      /\ ~s.pending => r.CKr.root \in Root /\ Len(r.CKr.root) \in Nat /\ r.DHr \in Part
                       /\ Len(r.RK) = Len(r.CKr.root) + 1
  BY <1>1, LiveFacts
<1>5. c = [secret |-> s.secret, pending |-> FALSE, ratchet |-> t]
  BY <1>1, <1>3 DEF Draft
<1> HIDE DEF r, t, c, fresh
<1>6. /\ t \in RatchetState /\ Orderly(t) /\ Neat(t)
      /\ ByCache(r, g, t) \/ ByChain(r, g, t) \/ ByTurn(r, g, fresh, t)
  BY <1>1, <1>2, <1>3, <1>4, Opened DEF t
<1>7. s.pending => r.skipped = <<>> /\ r.CKr = None
  BY <1>4 DEF Shape, r
<1>8. ASSUME ByCache(r, g, t) PROVE ~s.pending /\ g.key.root[1] = s.secret
  <2>1. PICK x \in Held(r.skipped) : x.key = g.key
    BY <1>8 DEF ByCache
  <2>2. ~s.pending
    BY <1>7, <2>1 DEF Held
  <2>3. x.key.root[1] = s.secret
    BY <1>4, <2>1 DEF Shape, r
  <2> QED
    BY <2>1, <2>2, <2>3
<1>9. ASSUME ByChain(r, g, t) PROVE ~s.pending /\ g.key.root[1] = s.secret
  <2>1. ~s.pending /\ g.key.root = r.CKr.root
    BY <1>7, <1>9 DEF ByChain
  <2>2. r.RK = MixRoot(r.CKr.root, r.DHs, r.DHr)
    BY <1>4, <2>1 DEF Shape, r
  <2>3. Len(r.CKr.root) > 0
    BY <1>4, <2>1
  <2>4. r.RK[1] = r.CKr.root[1]
    BY <1>4, <2>1, <2>2, <2>3, Mixing
  <2> QED
    BY <1>4, <2>1, <2>4
<1>10. ASSUME ByTurn(r, g, fresh, t)
       PROVE  g.key.root[1] = s.secret /\ Len(g.key.root) = Len(r.RK) + 1
  <2>1. g.key.root = MixRoot(r.RK, r.DHs, g.dh)
    BY <1>10 DEF ByTurn
  <2>2. Len(r.RK) > 0
    BY <1>4
  <2> QED
    BY <1>2, <1>4, <2>1, <2>2, Mixing
<1> QED
  BY <1>1, <1>5, <1>6, <1>8, <1>9, <1>10 DEF r, fresh, c

\* Whichever way the frame was opened.
LEMMA Taken ==
    ASSUME KeepInv, NEW d \in Dev, At(d, "commit")
    PROVE  LET s == mem[d]
               g == receiving[d].row.frame
               c == receiving[d].cand
               t == c.ratchet
               fresh == <<d, minted[d]>>
           IN  /\ ~c.pending /\ c.secret = g.key.root[1]
               /\ t \in RatchetState /\ Orderly(t) /\ Neat(t)
               /\ \/ /\ s # None /\ ~s.pending /\ c.secret = s.secret
                     /\ t.DHs = s.ratchet.DHs /\ t.DHr = s.ratchet.DHr /\ t.RK = s.ratchet.RK
                     /\ t.PN = s.ratchet.PN /\ t.CKr # None
                     /\ t.CKr.root = s.ratchet.CKr.root
                     /\ ~BuildsFresh(s, g)
                     /\ ByCache(s.ratchet, g, t) \/ ByChain(s.ratchet, g, t)
                  \/ /\ t.DHs = fresh /\ t.DHr = g.dh
                     /\ t.RK = MixRoot(g.key.root, fresh, g.dh)
                     /\ t.CKr = [root |-> g.key.root, i |-> g.n + 1] /\ t.Nr = g.n + 1
                     /\ t.CKr # None
                     /\ ~BuildsFresh(s, g) => ByTurn(s.ratchet, g, fresh, t)
                     /\ BuildsFresh(s, g) => Grown(Span(g.dh, g.key.root, 0, g.n), t.skipped)
<1> DEFINE s == mem[d]
           g == receiving[d].row.frame
           c == receiving[d].cand
           e == Peer(d)
           r == s.ratchet
           t == c.ratchet
           fresh == <<d, minted[d]>>
<1>1. e \in Dev /\ g \in Released(e)
  BY Committing
<1>2. g.key \in ChainKey /\ g.key.root \in Root /\ g.n \in Nat
  BY <1>1, FrameFacts
<1>3. [root |-> g.key.root, i |-> g.n + 1] \in ChainKey
  BY <1>2 DEF ChainKey
<1>4. CASE BuildsFresh(s, g)
  <2>1. /\ ~c.pending /\ c.secret = g.key.root[1]
        /\ t \in RatchetState /\ Orderly(t) /\ Neat(t)
        /\ t.DHs = fresh /\ t.DHr = g.dh
        /\ t.RK = MixRoot(g.key.root, fresh, g.dh)
        /\ t.CKr = [root |-> g.key.root, i |-> g.n + 1] /\ t.Nr = g.n + 1
        /\ Grown(Span(g.dh, g.key.root, 0, g.n), t.skipped)
    BY <1>4, TakenFresh
  <2> HIDE DEF s, g, t
  <2>2. t.CKr # None
    BY <1>3, <2>1, Symbols
  <2> QED
    BY <1>4, <2>1, <2>2 DEF s, g, t
<1>5. CASE ~BuildsFresh(s, g)
  <2>1. s # None
    BY <1>5, Committing
  <2>2. /\ ~c.pending /\ c.secret = s.secret /\ c.secret = g.key.root[1]
        /\ t \in RatchetState /\ Orderly(t) /\ Neat(t)
        /\ \/ ByCache(r, g, t) /\ ~s.pending
           \/ ByChain(r, g, t) /\ ~s.pending
           \/ ByTurn(r, g, fresh, t)
    BY <1>5, TakenOn
  <2>3. ~s.pending => r.CKr \in ChainKey
    BY <2>1, LiveFacts
  <2>4. r \in RatchetState
    BY <2>1, LiveFacts
  <2> HIDE DEF s, g, t, r, c, fresh
  <2>5. ASSUME ByCache(r, g, t), ~s.pending
        PROVE  /\ t.DHs = r.DHs /\ t.DHr = r.DHr /\ t.RK = r.RK /\ t.PN = r.PN /\ t.CKr # None
               /\ t.CKr.root = r.CKr.root
    <3>1. t = [r EXCEPT !.skipped = t.skipped]
      BY <2>5 DEF ByCache
    <3>2. t.DHs = r.DHs /\ t.DHr = r.DHr /\ t.RK = r.RK /\ t.PN = r.PN /\ t.CKr = r.CKr
      BY <2>2, <2>4, <3>1 DEF RatchetState
    <3> QED
      BY <2>3, <2>5, <3>2, Symbols
  <2>6. ASSUME ByChain(r, g, t), ~s.pending
        PROVE  /\ t.DHs = r.DHs /\ t.DHr = r.DHr /\ t.RK = r.RK /\ t.PN = r.PN /\ t.CKr # None
               /\ t.CKr.root = r.CKr.root
    <3>1. t.CKr = [root |-> g.key.root, i |-> g.n + 1] /\ g.key.root = r.CKr.root
      BY <2>6 DEF ByChain
    <3>2. t.CKr # None /\ t.CKr.root = r.CKr.root
      BY <1>3, <3>1, Symbols DEF g
    <3> QED
      BY <2>6, <3>2 DEF ByChain
  <2>7. ASSUME ByTurn(r, g, fresh, t)
        PROVE  /\ t.DHs = fresh /\ t.DHr = g.dh
               /\ t.RK = MixRoot(g.key.root, fresh, g.dh)
               /\ t.CKr = [root |-> g.key.root, i |-> g.n + 1] /\ t.Nr = g.n + 1
               /\ t.CKr # None
    <3>1. /\ t.DHs = fresh /\ t.DHr = g.dh
          /\ t.RK = MixRoot(g.key.root, fresh, g.dh)
          /\ t.CKr = [root |-> g.key.root, i |-> g.n + 1] /\ t.Nr = g.n + 1
      BY <2>7 DEF ByTurn
    <3>2. t.CKr # None
      BY <1>3, <3>1, Symbols DEF g
    <3> QED
      BY <3>1, <3>2
  <2> QED
    BY <1>5, <2>1, <2>2, <2>5, <2>6, <2>7 DEF s, g, t, r, c, fresh
<1> QED
  BY <1>4, <1>5

LEMMA CommitShape ==
    ASSUME KeepInv, NEW d \in Dev, At(d, "commit")
    PROVE  Shape(d, receiving[d].cand) /\ Numbered(receiving[d].cand.secret)
<1> DEFINE s == mem[d]
           g == receiving[d].row.frame
           c == receiving[d].cand
           e == Peer(d)
           t == c.ratchet
           fresh == <<d, minted[d]>>
<1>1. e \in Dev /\ g \in Released(e) /\ minted[d] > 0 /\ fresh \in Part
  BY Committing
<1>2. /\ g.key.root \in Root /\ g.dh \in Part /\ g.n \in Nat /\ Numbered(g.key.root[1])
      /\ Len(g.key.root) \in Nat /\ Len(g.key.root) > 1
  BY <1>1, FrameFacts
<1>3. /\ ~c.pending /\ c.secret = g.key.root[1]
      /\ t \in RatchetState /\ Neat(t)
  BY Taken
<1>4. Numbered(c.secret)
  BY <1>2, <1>3
<1>5. CASE /\ s # None /\ ~s.pending /\ c.secret = s.secret
           /\ t.DHs = s.ratchet.DHs /\ t.DHr = s.ratchet.DHr /\ t.RK = s.ratchet.RK
           /\ t.CKr # None /\ t.CKr.root = s.ratchet.CKr.root
           /\ ByCache(s.ratchet, g, t) \/ ByChain(s.ratchet, g, t)
  <2>1. /\ Shape(d, s) /\ s.ratchet.CKr.root \in Root /\ Len(s.ratchet.CKr.root) \in Nat
        /\ s.ratchet.RK[1] = s.secret
        /\ s.ratchet.DHs \in Part /\ s.ratchet.DHr \in Part
        /\ Len(s.ratchet.RK) = Len(s.ratchet.CKr.root) + 1 /\ Len(s.ratchet.RK) > 1
    BY <1>5, LiveFacts
  <2> HIDE DEF s, g, c, t
  <2>2. s.ratchet.CKr.root[1] = s.secret
    <3>1. s.ratchet.RK = MixRoot(s.ratchet.CKr.root, s.ratchet.DHs, s.ratchet.DHr)
      BY <1>5, <2>1 DEF Shape
    <3>2. Len(s.ratchet.CKr.root) > 0
      BY <2>1
    <3> QED
      BY <2>1, <3>1, <3>2, Mixing
  <2>3. ASSUME NEW x \in Held(t.skipped) PROVE x.key.root[1] = s.secret
    <3>1. CASE x \in Held(s.ratchet.skipped)
      BY <2>1, <3>1 DEF Shape
    <3>2. CASE x \in Skipped(s.ratchet, g.n)
      <4>1. x.key.root = s.ratchet.CKr.root
        BY <3>2 DEF Skipped, Span
      <4> QED
        BY <2>2, <4>1
    <3> QED
      BY <1>5, <2>3, <3>1, <3>2 DEF ByCache, ByChain, Grown
  <2>4. /\ s.ratchet.RK[1] = s.secret
        /\ s.ratchet.DHs \in Last(s.ratchet.RK) /\ s.ratchet.DHs[2] > 0
        /\ s.ratchet.RK = MixRoot(s.ratchet.CKr.root, s.ratchet.DHs, s.ratchet.DHr)
    BY <1>5, <2>1 DEF Shape
  <2>5. Shape(d, c)
    BY <1>3, <1>5, <2>3, <2>4 DEF Shape, t
  <2> QED
    BY <1>4, <2>5 DEF c
<1>6. CASE /\ t.DHs = fresh /\ t.DHr = g.dh
           /\ t.RK = MixRoot(g.key.root, fresh, g.dh)
           /\ t.CKr = [root |-> g.key.root, i |-> g.n + 1]
           /\ t.CKr # None
           /\ ~BuildsFresh(s, g) => ByTurn(s.ratchet, g, fresh, t)
           /\ BuildsFresh(s, g) => Grown(Span(g.dh, g.key.root, 0, g.n), t.skipped)
  <2>1. s # None /\ ~BuildsFresh(s, g) =>
           /\ Shape(d, s) /\ c.secret = s.secret
           /\ ~s.pending => /\ s.ratchet.CKr.root \in Root /\ Len(s.ratchet.CKr.root) \in Nat
                            /\ s.ratchet.RK[1] = s.secret
                            /\ s.ratchet.DHs \in Part /\ s.ratchet.DHr \in Part
                            /\ Len(s.ratchet.RK) = Len(s.ratchet.CKr.root) + 1
                            /\ Len(s.ratchet.RK) > 1
    BY LiveFacts, Committing
  <2>2. ~BuildsFresh(s, g) => s # None
    BY Committing
  <2> HIDE DEF s, g, c, t, fresh
  <2>3. ASSUME NEW x \in Held(t.skipped) PROVE x.key.root[1] = c.secret
    <3>1. ASSUME x \in Span(g.dh, g.key.root, 0, g.n) PROVE x.key.root[1] = c.secret
      <4>1. x.key.root = g.key.root
        BY <3>1 DEF Span
      <4> QED
        BY <1>3, <4>1
    <3>2. CASE BuildsFresh(s, g)
      BY <1>6, <2>3, <3>1, <3>2 DEF Grown
    <3>3. CASE ~BuildsFresh(s, g)
      <4>1. Shape(d, s) /\ c.secret = s.secret
        BY <2>1, <2>2, <3>3
      <4>2. CASE x \in Held(s.ratchet.skipped)
        BY <4>1, <4>2 DEF Shape
      <4>3. CASE x \in Skipped(s.ratchet, g.pn)
        <5>1. x.key.root = s.ratchet.CKr.root /\ s.ratchet.CKr # None
          BY <4>3 DEF Skipped, Span
        <5>2. ~s.pending
          BY <4>1, <5>1 DEF Shape
        <5>3. s.ratchet.RK = MixRoot(s.ratchet.CKr.root, s.ratchet.DHs, s.ratchet.DHr)
          BY <4>1, <5>2 DEF Shape
        <5>4. Len(s.ratchet.CKr.root) > 0
          BY <2>1, <2>2, <3>3, <5>2
        <5>5. s.ratchet.CKr.root[1] = s.ratchet.RK[1]
          BY <2>1, <2>2, <3>3, <5>2, <5>3, <5>4, Mixing
        <5> QED
          BY <2>1, <2>2, <3>3, <4>1, <5>1, <5>2, <5>5
      <4> QED
        BY <1>6, <2>3, <3>1, <3>3, <4>2, <4>3 DEF ByTurn, Grown
    <3> QED
      BY <3>2, <3>3
  <2>4. Len(g.key.root) > 0
    BY <1>2 DEF g
  <2>5. t.RK[1] = c.secret /\ fresh \in Last(t.RK) /\ fresh[2] > 0
    <3>1. t.RK[1] = g.key.root[1] /\ Last(t.RK) = {fresh, g.dh}
      BY <1>1, <1>2, <1>6, <2>4, Mixing
    <3>2. fresh[2] > 0
      BY <1>1 DEF fresh
    <3> QED
      BY <1>3, <3>1, <3>2
  <2>6. t.CKr.root = g.key.root
    BY <1>6
  <2>7. Shape(d, c)
    BY <1>3, <1>6, <2>3, <2>5, <2>6 DEF Shape, t
  <2> QED
    BY <1>4, <2>7 DEF c
<1> QED
  BY <1>5, <1>6, Taken

LEMMA CommitGrounded ==
    ASSUME KeepInv, NEW d \in Dev, At(d, "commit")
    PROVE  Grounded(d, receiving[d].cand)
<1> DEFINE s == mem[d]
           g == receiving[d].row.frame
           c == receiving[d].cand
           e == Peer(d)
           t == c.ratchet
           fresh == <<d, minted[d]>>
           From(dh, root) == \E w \in sent : w.from = e /\ w.dh = dh /\ w.key.root = root
<1>1. g \in sent /\ g.from = e /\ (~BuildsFresh(s, g) => s # None)
  BY Committing
<1>2. ~c.pending
  BY Taken
<1>3. s # None => Grounded(d, s) /\ Shape(d, s)
  BY LiveFacts
<1>4. \A dh, root, m, n : \A x \in Span(dh, root, m, n) : x.dh = dh /\ x.key.root = root
  BY DEF Span
<1>5. \A n : s # None => \A x \in Held(s.ratchet.skipped) \union Skipped(s.ratchet, n) :
                           From(x.dh, x.key.root)
  <2> SUFFICES ASSUME NEW n, s # None,
                      NEW x \in Held(s.ratchet.skipped) \union Skipped(s.ratchet, n)
               PROVE  From(x.dh, x.key.root)
    OBVIOUS
  <2>1. CASE x \in Held(s.ratchet.skipped)
    BY <1>3, <2>1 DEF Grounded
  <2>2. CASE x \in Skipped(s.ratchet, n)
    <3>1. s.ratchet.CKr # None /\ x.dh = s.ratchet.DHr /\ x.key.root = s.ratchet.CKr.root
      BY <1>4, <2>2 DEF Skipped
    <3>2. ~s.pending
      BY <1>3, <3>1 DEF Shape
    <3> QED
      BY <1>3, <3>1, <3>2 DEF Grounded
  <2> QED
    BY <2>1, <2>2
<1>6. CASE /\ s # None /\ ~s.pending
           /\ t.DHr = s.ratchet.DHr /\ t.CKr.root = s.ratchet.CKr.root
           /\ ByCache(s.ratchet, g, t) \/ ByChain(s.ratchet, g, t)
  <2>1. ASSUME NEW x \in Held(t.skipped) PROVE From(x.dh, x.key.root)
    <3>1. x \in Held(s.ratchet.skipped) \union Skipped(s.ratchet, g.n)
      BY <1>6 DEF ByCache, ByChain, Grown
    <3> QED
      BY <1>5, <1>6, <3>1
  <2>2. \E w \in sent : /\ w.from = e /\ w.dh = t.DHr
                        /\ w.key.root = t.CKr.root /\ w.n + 1 = t.Nr
    <3>1. CASE ByCache(s.ratchet, g, t)
      <4>1. t.Nr = s.ratchet.Nr
        <5>1. s.ratchet \in RatchetState /\ t = [s.ratchet EXCEPT !.skipped = t.skipped]
          BY <1>6, <3>1, LiveFacts DEF ByCache
        <5> HIDE DEF s, t
        <5> QED
          BY <5>1 DEF RatchetState
      <4> QED
        BY <1>3, <1>6, <4>1 DEF Grounded
    <3>2. CASE ByChain(s.ratchet, g, t)
      <4>1. t.Nr = g.n + 1 /\ g.dh = t.DHr /\ g.key.root = t.CKr.root
        BY <1>6, <3>2 DEF ByChain
      <4> QED
        BY <1>1, <4>1
    <3> QED
      BY <1>6, <3>1, <3>2
  <2> QED
    BY <2>1, <2>2 DEF Grounded
<1>7. CASE /\ t.DHr = g.dh
           /\ t.CKr = [root |-> g.key.root, i |-> g.n + 1] /\ t.Nr = g.n + 1
           /\ ~BuildsFresh(s, g) => ByTurn(s.ratchet, g, fresh, t)
           /\ BuildsFresh(s, g) => Grown(Span(g.dh, g.key.root, 0, g.n), t.skipped)
  <2>1. ASSUME NEW x \in Held(t.skipped) PROVE From(x.dh, x.key.root)
    <3>1. \/ x \in Span(g.dh, g.key.root, 0, g.n)
          \/ s # None /\ x \in Held(s.ratchet.skipped) \union Skipped(s.ratchet, g.pn)
      BY <1>1, <1>7 DEF ByTurn, Grown
    <3>2. CASE x \in Span(g.dh, g.key.root, 0, g.n)
      <4>1. x.dh = g.dh /\ x.key.root = g.key.root
        BY <1>4, <3>2
      <4> QED
        BY <1>1, <4>1
    <3> QED
      BY <1>5, <3>1, <3>2
  <2>2. t.CKr.root = g.key.root
    BY <1>7
  <2> QED
    BY <1>1, <1>7, <2>1, <2>2 DEF Grounded
<1> QED
  BY <1>6, <1>7, Taken

\* A device that takes the peer's session has none of its own, or one that the
\* peer's answers; and the peer has not heard it on either.
LEMMA FreshTie ==
    ASSUME KeepInv, NEW d \in Dev, At(d, "commit"),
           BuildsFresh(mem[d], receiving[d].row.frame)
    PROVE  LET s == mem[d]
               c == receiving[d].cand
               e == Peer(d)
           IN  /\ disk[e] # None /\ disk[e].secret = c.secret
               /\ mem[e] # None /\ mem[e].secret = c.secret /\ mem[e].pending
               /\ disk[d] # None =>
                     /\ s # None /\ disk[d].secret = s.secret /\ disk[d].secret # c.secret
                     /\ d = High /\ s.secret[1] = d
<1> DEFINE s == mem[d]
           g == receiving[d].row.frame
           c == receiving[d].cand
           e == Peer(d)
<1>1. /\ e \in Dev /\ e # d /\ Peer(e) = d /\ Dev = {d, e} /\ g \in Released(e)
      /\ g.x3dh[1] = e /\ c.secret = g.x3dh
      /\ s = None \/ (s.pending /\ d = High)
  BY Committing
<1>2. c.secret = g.key.root[1]
  BY Taken
<1>3. ASSUME disk[d] # None
      PROVE  /\ s # None /\ disk[d].secret = s.secret /\ disk[d].secret # c.secret
             /\ d = High /\ s.secret[1] = d
  <2>1. s # None /\ Alike(s, disk[d])
    BY <1>3 DEF KeepInv, Saved
  <2>2. s.pending /\ d = High /\ s.secret[1] = d
    BY <1>1, <2>1, LiveFacts
  <2> QED
    BY <1>1, <2>1, <2>2 DEF Alike
<1>4. disk[e] # None /\ disk[e].secret = c.secret
  <2>1. disk[e] # None /\ (g.key.root[1] = disk[e].secret \/ (e = High /\ ~disk[e].pending))
    BY <1>1 DEF KeepInv, Secrets
  <2>2. ASSUME e = High, ~disk[e].pending PROVE FALSE
    <3>1. disk[d] # None
      BY <1>1, <2>1, <2>2 DEF KeepInv, Converged
    <3> QED
      BY <1>1, <1>3, <2>2, <3>1
  <2> QED
    BY <1>2, <2>1, <2>2
<1>5. mem[e] # None /\ mem[e].secret = c.secret
  BY <1>1, <1>4 DEF KeepInv, Saved, Alike
<1>6. mem[e].pending
  <2> SUFFICES ASSUME ~mem[e].pending PROVE FALSE
    OBVIOUS
  <2>1. disk[d] # None /\ disk[d].secret = c.secret
    BY <1>1, <1>5 DEF KeepInv, Converged
  <2> QED
    BY <1>3, <2>1
<1> QED
  BY <1>3, <1>4, <1>5, <1>6

\* Where its own frames are.
LEMMA CommitBehind ==
    ASSUME KeepInv, NEW d \in Dev, At(d, "commit"), NEW f \in Released(d)
    PROVE  Behind(f, receiving[d].cand)
<1> DEFINE s == mem[d]
           g == receiving[d].row.frame
           c == receiving[d].cand
           e == Peer(d)
           t == c.ratchet
           fresh == <<d, minted[d]>>
<1>1. s # None /\ Behind(f, s) /\ f.dh \in {d} \X Nat /\ f.dh \in Last(f.key.root)
      /\ f.key \in ChainKey /\ f.key.i = f.n /\ f.n \in Nat /\ Len(f.key.root) \in Nat
  BY FrameFacts DEF Made
<1>2. /\ e \in Dev /\ e # d /\ g \in Released(e) /\ f.dh # fresh /\ fresh \in Part
  BY Committing
<1>3. g.dh \in {e} \X Nat /\ g.dh \in Part /\ g.key.root \in Root /\ Len(g.key.root) \in Nat
  BY <1>2, FrameFacts
<1>4. CASE /\ c.secret = s.secret
           /\ t.DHs = s.ratchet.DHs /\ t.RK = s.ratchet.RK /\ t.PN = s.ratchet.PN
  BY <1>1, <1>4 DEF Behind
<1>5. CASE /\ t.DHs = fresh
           /\ t.RK = MixRoot(g.key.root, fresh, g.dh)
           /\ ~BuildsFresh(s, g) => ByTurn(s.ratchet, g, fresh, t)
  <2>1. f.dh # t.DHs
    BY <1>2, <1>5
  <2>2. f.key.root # t.RK
    <3> HIDE DEF g, t, fresh
    <3>1. Last(t.RK) = {fresh, g.dh}
      BY <1>2, <1>3, <1>5, Mixing
    <3>2. f.dh # g.dh
      BY <1>1, <1>2, <1>3
    <3> QED
      BY <1>1, <1>2, <3>1, <3>2
  <2>3. CASE BuildsFresh(s, g)
    <3>1. f.key.root[1] # c.secret
      <4>1. disk[d] # None /\ disk[d].secret # c.secret /\ d = High /\ disk[d].secret = s.secret
        BY <2>3, FrameFacts, FreshTie
      <4>2. f.key.root[1] = disk[d].secret \/ ~disk[d].pending
        BY DEF KeepInv, Secrets
      <4>3. disk[d].pending
        <5>1. s.pending
          BY <1>1, <2>3 DEF BuildsFresh
        <5>2. Alike(s, disk[d])
          BY <1>1, <4>1 DEF KeepInv, Saved
        <5> QED
          BY <5>1, <5>2 DEF Alike
      <4> QED
        BY <4>1, <4>2, <4>3
    <3> QED
      BY <2>1, <2>2, <3>1 DEF Behind
  <2>4. CASE ~BuildsFresh(s, g)
    <3>1. ByTurn(s.ratchet, g, fresh, t)
      BY <1>5, <2>4
    <3>2. c.secret = s.secret
      BY <2>4, Committing
    <3>3. /\ s.ratchet.RK \in Root /\ Len(s.ratchet.RK) \in Nat /\ s.ratchet.DHs \in Part
          /\ s.ratchet.Ns \in Nat /\ Fit(d, minted[d], s)
      BY <1>1, LiveFacts
    <3>4. t.PN = s.ratchet.Ns /\ g.key.root = MixRoot(s.ratchet.RK, s.ratchet.DHs, g.dh)
      BY <3>1 DEF ByTurn
    <3> HIDE DEF s, g, c, t, fresh
    <3>5. Len(g.key.root) = Len(s.ratchet.RK) + 1
      BY <1>3, <3>3, <3>4, Mixing DEF g
    <3>6. Len(t.RK) = Len(g.key.root) + 1
      BY <1>2, <1>3, <1>5, Mixing
    <3>7. ASSUME f.key.root[1] = s.secret PROVE Len(f.key.root) <= Len(s.ratchet.RK)
          /\ (Len(f.key.root) = Len(s.ratchet.RK) => f.key.root = s.ratchet.RK)
      BY <1>1, <3>7 DEF Behind
    <3>8. ASSUME f.key.root = s.ratchet.RK PROVE f.n < t.PN
      <4>1. Past(s, f.key)
        BY <1>1, Facts DEF KeepInv, Inv, Ahead, s
      <4>2. s.ratchet.CKs.root = s.ratchet.RK /\ s.ratchet.CKs.i = s.ratchet.Ns
        BY <3>3 DEF Fit
      <4> QED
        BY <1>1, <3>4, <3>8, <4>1, <4>2 DEF Past
    <3> DEFINE m == Len(f.key.root)
               n == Len(s.ratchet.RK)
               k == Len(t.RK)
    <3>9. m \in Nat /\ n \in Nat /\ k = n + 2
      BY <1>1, <3>3, <3>5, <3>6
    <3>10. f.key.root[1] = c.secret => m <= n
      BY <3>2, <3>7
    <3>11. f.key.root[1] = c.secret /\ m = n => f.n < t.PN
      BY <3>2, <3>7, <3>8
    <3> HIDE DEF m, n, k
    <3>12. f.key.root[1] = c.secret => m <= k /\ m # k /\ (m + 2 = k => f.n < t.PN)
      BY <3>9, <3>10, <3>11
    <3>13. f.key.root[1] = c.secret =>
              /\ Len(f.key.root) <= Len(t.RK) /\ Len(f.key.root) # Len(t.RK)
              /\ (Len(f.key.root) + 2 = Len(t.RK) => f.n < t.PN)
      BY <3>12 DEF m, k
    <3> QED
      BY <2>1, <2>2, <3>13 DEF Behind, t, c
  <2> QED
    BY <2>3, <2>4
<1> QED
  BY <1>4, <1>5, Taken

\* A frame that turns the ratchet is of the last chain of its sender.
LEMMA Foremost ==
    ASSUME KeepInv, NEW d \in Dev, At(d, "commit"),
           \/ BuildsFresh(mem[d], receiving[d].row.frame)
           \/ ByTurn(mem[d].ratchet, receiving[d].row.frame, <<d, minted[d]>>,
                     receiving[d].cand.ratchet),
           NEW f \in Released(Peer(d)), f.key.root[1] = receiving[d].cand.secret
    PROVE  Len(f.key.root) <= Len(receiving[d].row.frame.key.root)
<1> DEFINE s == mem[d]
           g == receiving[d].row.frame
           c == receiving[d].cand
           e == Peer(d)
<1>1. e \in Dev /\ g \in Released(e)
  BY Committing
<1>2. CASE BuildsFresh(s, g)
  <2>1. Len(g.key.root) = 2
    BY <1>2, TakenFresh
  <2>2. mem[e] # None /\ mem[e].secret = c.secret /\ mem[e].pending
    BY <1>2, FreshTie
  <2>3. Len(mem[e].ratchet.RK) = 2
    BY <1>1, <2>2, LiveFacts
  <2>4. Behind(f, mem[e])
    BY <1>1, FrameFacts
  <2> QED
    BY <2>1, <2>2, <2>3, <2>4 DEF Behind
<1>3. CASE ~BuildsFresh(s, g)
  <2>1. s # None /\ c.secret = s.secret /\ s.ratchet.RK \in Root /\ s.ratchet.DHs \in Part
    BY <1>3, Committing, LiveFacts
  <2>2. g.key.root = MixRoot(s.ratchet.RK, s.ratchet.DHs, g.dh)
    BY <1>3 DEF ByTurn
  <2>3. g.dh \in Part
    BY <1>1, FrameFacts
  <2>4. Len(g.key.root) = Len(s.ratchet.RK) + 1
    BY <2>1, <2>2, <2>3, Mixing
  <2>5. Placed(f, s)
    BY <2>1 DEF KeepInv, Heard
  <2> QED
    BY <2>1, <2>4, <2>5 DEF Placed
<1> QED
  BY <1>2, <1>3

LEMMA CommitSecrets ==
    ASSUME KeepInv, NEW d \in Dev, At(d, "commit")
    PROVE  LET c == receiving[d].cand
           IN  /\ \A f \in Released(d) : f.key.root[1] = c.secret \/ (d = High /\ f.x3dh # None)
               /\ \A f \in Released(Peer(d)) : f.x3dh = None => c.secret = f.key.root[1]
<1> DEFINE s == mem[d]
           g == receiving[d].row.frame
           c == receiving[d].cand
           e == Peer(d)
<1>1. e \in Dev /\ e # d /\ Peer(e) = d /\ Dev = {d, e} /\ g \in Released(e)
  BY Committing
<1>2. c.secret = g.key.root[1]
  BY Taken
<1>3. CASE BuildsFresh(s, g)
  <2>1. /\ disk[e] # None /\ disk[e].secret = c.secret
        /\ disk[d] # None =>
              s # None /\ disk[d].secret = s.secret /\ disk[d].secret # c.secret
              /\ d = High /\ s.secret[1] = d
    BY <1>3, FreshTie
  <2>2. ASSUME NEW f \in Released(d) PROVE d = High /\ f.x3dh # None
    <3>1. disk[d] # None
      BY <2>2 DEF KeepInv, Secrets
    <3>2. disk[d].pending
      <4>1. s # None /\ Alike(s, disk[d])
        BY <2>1, <3>1 DEF KeepInv, Saved
      <4>2. s.pending
        BY <1>3, <4>1 DEF BuildsFresh
      <4> QED
        BY <4>1, <4>2 DEF Alike
    <3>3. f.key.root[1] = disk[d].secret
      BY <2>2, <3>2 DEF KeepInv, Secrets
    <3>4. f.x3dh = None => disk[e].secret = f.key.root[1]
      BY <2>2 DEF KeepInv, Secrets
    <3> QED
      BY <2>1, <3>1, <3>3, <3>4
  <2>3. ASSUME NEW f \in Released(e), f.x3dh = None PROVE FALSE
    <3>1. disk[d] # None /\ disk[d].secret = f.key.root[1]
      BY <1>1, <2>3 DEF KeepInv, Secrets
    <3>2. d = High /\ e = Low /\ e # High
      BY <1>1, <2>1, <3>1 DEF Dev
    <3>3. f.key.root[1] = disk[e].secret
      BY <1>1, <2>3, <3>2 DEF KeepInv, Secrets
    <3> QED
      BY <2>1, <3>1, <3>3
  <2> QED
    BY <2>2, <2>3
<1>4. CASE ~BuildsFresh(s, g)
  <2>1. s # None /\ c.secret = s.secret
    BY <1>4, Committing
  <2>2. disk[d] # None => disk[d].secret = c.secret
    BY <2>1 DEF KeepInv, Saved, Alike
  <2>3. ASSUME NEW f \in Released(d) PROVE f.key.root[1] = c.secret \/ (d = High /\ f.x3dh # None)
    BY <2>2, <2>3 DEF KeepInv, Secrets
  <2>4. ASSUME NEW f \in Released(e), f.x3dh = None PROVE c.secret = f.key.root[1]
    BY <1>1, <2>2, <2>4 DEF KeepInv, Secrets
  <2> QED
    BY <2>3, <2>4
<1> QED
  BY <1>3, <1>4

LEMMA CommitConverged ==
    ASSUME KeepInv, NEW d \in Dev, At(d, "commit")
    PROVE  LET c == receiving[d].cand
               e == Peer(d)
           IN  /\ disk[e] # None /\ disk[e].secret = c.secret
               /\ \A t \in {mem[e], disk[e]} \ {None} : ~t.pending => c.secret = t.secret
<1> DEFINE s == mem[d]
           g == receiving[d].row.frame
           c == receiving[d].cand
           e == Peer(d)
<1>1. e \in Dev /\ e # d /\ Peer(e) = d /\ Dev = {d, e} /\ g \in Released(e)
  BY Committing
<1>2. c.secret = g.key.root[1]
  BY Taken
<1>3. CASE BuildsFresh(s, g)
  <2>1. /\ disk[e] # None /\ disk[e].secret = c.secret
        /\ mem[e] # None /\ mem[e].secret = c.secret
    BY <1>3, FreshTie
  <2> QED
    BY <2>1
<1>4. CASE ~BuildsFresh(s, g)
  <2>1. s # None /\ c.secret = s.secret
    BY <1>4, Committing
  <2>2. disk[d] # None => disk[d].secret = c.secret
    BY <2>1 DEF KeepInv, Saved, Alike
  <2>3. \A t \in {mem[e], disk[e]} \ {None} : ~t.pending => c.secret = t.secret
    BY <1>1, <2>2 DEF KeepInv, Converged
  <2>4. disk[e] # None /\ (g.key.root[1] = disk[e].secret \/ (e = High /\ ~disk[e].pending))
    BY <1>1 DEF KeepInv, Secrets
  <2>5. disk[e].secret = c.secret
    BY <1>2, <2>3, <2>4
  <2> QED
    BY <2>3, <2>4, <2>5
<1> QED
  BY <1>3, <1>4

\* A turn is on the key that the peer sends under.
LEMMA CommitMet ==
    ASSUME KeepInv, NEW d \in Dev, At(d, "commit"),
           mem[Peer(d)] # None, mem[Peer(d)].secret = receiving[d].cand.secret
    PROVE  \/ Follows(receiving[d].cand, mem[Peer(d)])
           \/ Follows(mem[Peer(d)], receiving[d].cand)
<1> DEFINE s == mem[d]
           g == receiving[d].row.frame
           c == receiving[d].cand
           e == Peer(d)
           p == mem[e]
           t == c.ratchet
           fresh == <<d, minted[d]>>
<1>1. e \in Dev /\ e # d /\ Peer(e) = d /\ Dev = {d, e} /\ g \in Released(e)
      /\ (~BuildsFresh(s, g) => s # None /\ c.secret = s.secret)
  BY Committing
<1>2. /\ Behind(g, p) /\ g.key.root[1] = p.secret
      /\ g.key.root \in Root /\ Len(g.key.root) \in Nat /\ g.dh \in Part
  BY <1>1, Taken, FrameFacts
<1>3. p.ratchet.RK \in Root /\ Len(p.ratchet.RK) \in Nat /\ p.ratchet.DHs \in Part
  BY <1>1, LiveFacts
<1>4. CASE /\ s # None /\ c.secret = s.secret
           /\ t.DHs = s.ratchet.DHs /\ t.DHr = s.ratchet.DHr /\ t.RK = s.ratchet.RK
           /\ t.CKr # None /\ t.CKr.root = s.ratchet.CKr.root
           /\ ~s.pending
  <2>1. Follows(s, p) \/ Follows(p, s)
    BY <1>1, <1>4 DEF KeepInv, Met
  <2> QED
    BY <1>4, <2>1 DEF Follows
<1>5. CASE /\ t.DHs = fresh /\ t.DHr = g.dh
           /\ t.RK = MixRoot(g.key.root, fresh, g.dh)
           /\ t.CKr = [root |-> g.key.root, i |-> g.n + 1]
           /\ t.CKr # None
           /\ ~BuildsFresh(s, g) => ByTurn(s.ratchet, g, fresh, t)
  <2>1. Len(g.key.root) = Len(p.ratchet.RK)
    <3>1. CASE BuildsFresh(s, g)
      <4>1. Len(g.key.root) = 2
        BY <3>1, TakenFresh
      <4>2. Len(p.ratchet.RK) = 2
        BY <1>1, <3>1, FreshTie, LiveFacts
      <4> QED
        BY <4>1, <4>2
    <3>2. CASE ~BuildsFresh(s, g)
      <4>1. s # None /\ c.secret = s.secret
        BY <1>1, <3>2
      <4>2. Follows(s, p) \/ Follows(p, s)
        BY <1>1, <4>1 DEF KeepInv, Met
      <4>3. s.ratchet.RK \in Root /\ Len(s.ratchet.RK) \in Nat /\ s.ratchet.DHs \in Part
        BY <4>1, LiveFacts
      <4>4. g.key.root = MixRoot(s.ratchet.RK, s.ratchet.DHs, g.dh)
        BY <1>5, <3>2 DEF ByTurn
      <4>5. Len(g.key.root) <= Len(p.ratchet.RK)
        BY <1>2 DEF Behind
      <4> HIDE DEF s, p, g
      <4>6. Len(g.key.root) = Len(s.ratchet.RK) + 1
        BY <1>2, <4>3, <4>4, Mixing
      <4>7. ~Follows(s, p)
        <5> SUFFICES ASSUME Follows(s, p) PROVE FALSE
          OBVIOUS
        <5>1. Len(s.ratchet.RK) = Len(p.ratchet.RK) + 1
          BY <1>3, <4>3, Mixing DEF Follows
        <5> QED
          BY <1>3, <4>3, <4>5, <4>6, <5>1
      <4>8. Len(p.ratchet.RK) = Len(s.ratchet.RK) + 1
        <5>1. p.ratchet.RK = MixRoot(s.ratchet.RK, s.ratchet.DHs, p.ratchet.DHs)
          BY <4>2, <4>7 DEF Follows
        <5> QED
          BY <1>3, <4>3, <5>1, Mixing
      <4> QED
        BY <4>6, <4>8
    <3> QED
      BY <3>1, <3>2
  <2>2. g.key.root = p.ratchet.RK /\ g.dh = p.ratchet.DHs
    BY <1>2, <2>1 DEF Behind
  <2>3. t.CKr.root = g.key.root
    BY <1>5
  <2>4. t.RK = MixRoot(g.key.root, g.dh, fresh)
    BY <1>5, MixBoth
  <2>5. Follows(c, p)
    BY <1>5, <2>2, <2>3, <2>4 DEF Follows
  <2> QED
    BY <2>5
<1> QED
  BY <1>4, <1>5, Taken

LEMMA CommitPlaced ==
    ASSUME KeepInv, NEW d \in Dev, At(d, "commit"), NEW f \in Released(Peer(d))
    PROVE  Placed(f, receiving[d].cand)
<1> DEFINE s == mem[d]
           g == receiving[d].row.frame
           c == receiving[d].cand
           e == Peer(d)
           t == c.ratchet
           fresh == <<d, minted[d]>>
<1>1. e \in Dev /\ g \in Released(e) /\ ~c.pending /\ c.secret = g.key.root[1] /\ fresh \in Part
  BY Committing, Taken
<1>2. CASE /\ s # None /\ ~s.pending /\ c.secret = s.secret
           /\ t.DHs = s.ratchet.DHs /\ t.RK = s.ratchet.RK
           /\ t.CKr.root = s.ratchet.CKr.root
  <2>1. Placed(f, s)
    BY <1>2 DEF KeepInv, Heard
  <2> QED
    BY <1>1, <1>2, <2>1 DEF Placed
<1>3. CASE /\ t.DHs = fresh
           /\ t.RK = MixRoot(g.key.root, fresh, g.dh)
           /\ t.CKr = [root |-> g.key.root, i |-> g.n + 1]
           /\ ~BuildsFresh(s, g) => ByTurn(s.ratchet, g, fresh, t)
  <2> SUFFICES ASSUME f.key.root[1] = c.secret
               PROVE  /\ Len(f.key.root) < Len(t.RK) + 1
                      /\ Len(f.key.root) + 1 = Len(t.RK) => f.key.root = t.CKr.root
    <3>1. Len(f.key.root) \in Nat
      BY <1>1, FrameFacts
    <3>2. Len(t.RK) \in Nat
      BY Taken DEF RatchetState, Root
    <3> QED
      BY <3>1, <3>2 DEF Placed
  <2>1. Len(f.key.root) <= Len(g.key.root)
    BY <1>3, Foremost
  <2>2. /\ Len(f.key.root) \in Nat /\ Len(g.key.root) \in Nat
        /\ g.key.root \in Root /\ g.dh \in Part
    BY <1>1, FrameFacts
  <2>3. InLine(f, g)
    BY <1>1, FrameFacts
  <2>4. Len(f.key.root) = Len(g.key.root) => f.key.root = g.key.root
    BY <1>1, <2>3 DEF InLine
  <2>5. t.CKr.root = g.key.root
    BY <1>3
  <2> HIDE DEF g, t, c, fresh
  <2>6. Len(t.RK) = Len(g.key.root) + 1
    BY <1>1, <1>3, <2>2, Mixing
  <2> QED
    BY <2>1, <2>2, <2>4, <2>5, <2>6
<1> QED
  BY <1>2, <1>3, Taken

\* A frame that is behind a session, and whose key its cache gave up, opens no more.
LEMMA GoneBy ==
    ASSUME KeepInv, NEW d \in Dev, At(d, "commit"), NEW f \in Released(Peer(d)),
           Passed(f, receiving[d].cand), NEW x, x.key = f.key, x.n = f.n,
           GaveUp(receiving[d].cand.ratchet.skipped, x)
    PROVE  ~Accepts(d, receiving[d].cand, f)
<1> DEFINE g == receiving[d].row.frame
           c == receiving[d].cand
           t == c.ratchet
           fresh == <<d, minted[d]>>
<1>1. Peer(d) \in Dev /\ fresh \in Part
  BY Committing
<1>2. f \in Frame /\ f.key.i = f.n /\ f.n \in Nat /\ f.dh \in Part /\ Len(f.key.root) \in Nat
  BY <1>1, FrameFacts DEF Made
<1>3. ~c.pending /\ t \in RatchetState /\ Orderly(t) /\ Neat(t) /\ c # None
  <2>1. ~c.pending /\ t \in RatchetState /\ Orderly(t) /\ Neat(t)
    BY Taken
  <2>2. c # None
    BY Symbols, Committing DEF KeepInv, Inv, Types, At, Receipt
  <2> QED
    BY <2>1, <2>2
<1>4. Shape(d, c)
  BY CommitShape
<1>5. /\ t.CKr \in ChainKey /\ t.RK = MixRoot(t.CKr.root, t.DHs, t.DHr) /\ t.DHs \in Part
      /\ t.RK \in Root /\ Len(t.RK) \in Nat /\ t.Nr \in Nat /\ t.skipped \in Seq(Entry)
  BY <1>3, <1>4 DEF Shape, RatchetState, Root
<1>6. t.CKr.root \in Root /\ Len(t.CKr.root) \in Nat
  BY <1>5 DEF ChainKey, Root
<1>7. t.DHr \in Part
  <2>1. PICK w \in sent : w.dh = t.DHr
    BY <1>3, CommitGrounded DEF Grounded
  <2> QED
    BY <2>1 DEF KeepInv, Inv, Types, Frame
<1>8. Len(t.RK) = Len(t.CKr.root) + 1
  <2> HIDE DEF t
  <2> QED
    BY <1>5, <1>6, <1>7, Mixing
<1>9. Deep(t)
  <2> HIDE DEF t
  <2> QED
    BY <1>6, <1>8 DEF Deep
<1>10. ~BuildsFresh(c, f) /\ OpeningRatchet(d, c, f) = t
  <2>1. ~BuildsFresh(c, f)
    BY <1>3 DEF BuildsFresh
  <2> QED
    BY <2>1 DEF OpeningRatchet
<1> SUFFICES ASSUME Opens(t, f) PROVE FALSE
  BY <1>10 DEF Accepts
<1> DEFINE u == AfterDecrypt(t, f, fresh)
<1> HIDE DEF t, u, fresh
<1>11. ByCache(t, f, u) \/ ByChain(t, f, u) \/ ByTurn(t, f, fresh, u)
  BY <1>1, <1>2, <1>3, <1>9, Opened DEF u
<1>12. \/ f.key.root = t.CKr.root /\ f.n < t.Nr
       \/ Len(f.key.root) < Len(t.CKr.root)
  BY DEF Passed, t
<1>13. CASE ByCache(t, f, u)
  <2>1. PICK y \in Held(t.skipped) : y.n = f.n /\ y.key = f.key
    BY <1>13 DEF ByCache
  <2>2. x.n < y.n
    BY <2>1 DEF GaveUp, t
  <2> QED
    BY <1>2, <2>1, <2>2
<1>14. CASE ByChain(t, f, u)
  BY <1>2, <1>5, <1>6, <1>12, <1>14 DEF ByChain
<1>15. CASE ByTurn(t, f, fresh, u)
  <2>1. Len(f.key.root) = Len(t.RK) + 1
    BY <1>2, <1>5, <1>15, Mixing DEF ByTurn
  <2>2. Len(f.key.root) = Len(t.CKr.root) + 2
    BY <1>5, <1>6, <1>8, <2>1
  <2>3. Len(f.key.root) # Len(t.CKr.root) /\ ~(Len(f.key.root) < Len(t.CKr.root))
    BY <1>2, <1>6, <2>2
  <2> QED
    BY <1>12, <2>3
<1> QED
  BY <1>11, <1>13, <1>14, <1>15

\* A key that should be in the cache is there, or was evicted.
LEMMA InCache ==
    ASSUME KeepInv, NEW d \in Dev, At(d, "commit"), NEW f \in Released(Peer(d)),
           f # receiving[d].row.frame, Passed(f, receiving[d].cand), Accepts(d, mem[d], f),
           NEW x, x.dh = f.dh, x.key = f.key, x.n = f.n,
           \/ x \in Held(receiving[d].cand.ratchet.skipped)
           \/ GaveUp(receiving[d].cand.ratchet.skipped, x)
    PROVE  \/ Cached(f, receiving[d].cand)
           \/ f.key \in Evicted(d, receiving[d].row.frame, receiving[d].cand)
<1> DEFINE g == receiving[d].row.frame
           c == receiving[d].cand
           cache == c.ratchet.skipped
<1>1. CASE x \in Held(cache)
  BY <1>1 DEF Cached
<1>2. CASE GaveUp(cache, x)
  <2>1. f \in Underway(d) \ {g}
    BY Undergone
  <2>2. ~Accepts(d, c, f)
    BY <1>2, GoneBy
  <2>3. Peer(d) \in Dev /\ f.key.i = f.n
    BY Peers, FrameFacts DEF Made
  <2>4. Neat(c.ratchet)
    BY Taken
  <2>5. ASSUME NEW k \in DOMAIN cache, cache[k].key.root = f.key.root
        PROVE  f.key.i < cache[k].key.i
    <3>1. cache[k] \in Held(cache)
      BY DEF Held
    <3>2. x.n < cache[k].n
      BY <1>2, <2>5, <3>1 DEF GaveUp
    <3>3. cache[k].key.i = cache[k].n
      BY <2>4, <3>1 DEF Neat
    <3> QED
      BY <2>3, <3>2, <3>3
  <2>6. Len(cache) = MaxSkipSession
    BY <1>2 DEF GaveUp
  <2> QED
    BY <2>1, <2>2, <2>5, <2>6 DEF Evicted
<1> QED
  BY <1>1, <1>2

\* Two frames of one chain with one number are one frame.
LEMMA SameFrame ==
    ASSUME KeepInv, NEW d \in Dev, NEW f \in Released(d), NEW g \in Released(d),
           f.key.root = g.key.root, f.n = g.n
    PROVE  f = g
<1>1. f.key \in ChainKey /\ g.key \in ChainKey /\ f.key.i = f.n /\ g.key.i = g.n
  BY FrameFacts DEF Made
<1>2. f.key = g.key
  BY <1>1 DEF ChainKey
<1> QED
  BY <1>2 DEF KeepInv, Inv, Apart

\* A frame's entry is among those of its chain.
LEMMA InSpan ==
    ASSUME KeepInv, NEW d \in Dev, NEW f \in Released(d),
           NEW m \in Nat, NEW n \in Nat, m <= f.n, f.n < n
    PROVE  [dh |-> f.dh, n |-> f.n, key |-> f.key] \in Span(f.dh, f.key.root, m, n)
<1>1. f.key \in ChainKey /\ f.key.i = f.n /\ f.n \in Nat
  BY FrameFacts DEF Made
<1>2. f.key = [root |-> f.key.root, i |-> f.n]
  BY <1>1 DEF ChainKey
<1>3. f.n \in m .. (n - 1)
  BY <1>1
<1> QED
  BY <1>2, <1>3 DEF Span

\* A frame of the session, not gone by, opens if it is near.
LEMMA NearOpens ==
    ASSUME KeepInv, NEW d \in Dev, mem[d] # None, NEW f \in Released(Peer(d)),
           f.key.root[1] = mem[d].secret, WithinLimits(mem[d].ratchet, f), ~Passed(f, mem[d])
    PROVE  Accepts(d, mem[d], f)
<1> DEFINE s == mem[d]
<1>1. ~BuildsFresh(s, f)
  <2> SUFFICES ASSUME f.x3dh # None, s.pending PROVE FALSE
    BY DEF BuildsFresh
  <2>1. Peer(d) \in Dev /\ Peer(d) # d
    BY Peers
  <2>2. f.key.root[1] = f.x3dh /\ f.x3dh[1] = Peer(d)
    BY <2>1, Prekey
  <2>3. s.secret[1] = d
    BY LiveFacts
  <2> QED
    BY <2>1, <2>2, <2>3
<1>2. ~TooFar(d, s, f)
  BY <1>1 DEF TooFar, OpeningRatchet
<1>3. ~Superseded(d, s, f)
  BY DEF Superseded
<1> QED
  BY <1>2, <1>3, Openable

\* What a session has gone by was cached: by this step or before.
LEMMA PassedBefore ==
    ASSUME KeepInv, NEW d \in Dev, At(d, "commit"),
           ~BuildsFresh(mem[d], receiving[d].row.frame),
           NEW f \in Released(Peer(d)), ~Read(d, f), f.key \notin waived,
           Passed(f, receiving[d].cand), Passed(f, mem[d])
    PROVE  \/ Cached(f, receiving[d].cand)
           \/ f.key \in Evicted(d, receiving[d].row.frame, receiving[d].cand)
<1> DEFINE s == mem[d]
           g == receiving[d].row.frame
           c == receiving[d].cand
           e == Peer(d)
           t == c.ratchet
<1>1. e \in Dev /\ g \in Released(e) /\ Read(d, g) /\ s # None
  BY Committing
<1>2. f # g
  BY <1>1
<1>3. Cached(f, s)
  BY <1>1 DEF KeepInv, Heard
<1>4. PICK x \in Held(s.ratchet.skipped) : x.dh = f.dh /\ x.n = f.n /\ x.key = f.key
  BY <1>3 DEF Cached
<1>5. Accepts(d, s, f)
  <2>1. ~s.pending
    BY DEF Passed
  <2> QED
    BY <1>1, <1>3, <2>1, CachedOpens
<1>6. ~(x.dh = g.dh /\ x.n = g.n)
  <2> SUFFICES ASSUME f.dh = g.dh, f.n = g.n PROVE FALSE
    BY <1>4
  <2>1. InLine(f, g)
    BY <1>1, FrameFacts
  <2>2. f.key.root = g.key.root
    BY <2>1 DEF InLine
  <2> QED
    BY <1>1, <1>2, <2>2, SameFrame
<1>7. x \in Held(t.skipped) \/ GaveUp(t.skipped, x)
  <2>1. \/ ByCache(s.ratchet, g, t)
        \/ ByChain(s.ratchet, g, t)
        \/ ByTurn(s.ratchet, g, <<d, minted[d]>>, t)
    BY TakenOn
  <2> QED
    BY <1>4, <1>6, <2>1 DEF ByCache, ByChain, ByTurn, Grown
<1> QED
  BY <1>2, <1>4, <1>5, <1>7, InCache

LEMMA PassedFresh ==
    ASSUME KeepInv, NEW d \in Dev, At(d, "commit"),
           BuildsFresh(mem[d], receiving[d].row.frame),
           NEW f \in Released(Peer(d)), ~Read(d, f), Passed(f, receiving[d].cand)
    PROVE  \/ Cached(f, receiving[d].cand)
           \/ f.key \in Evicted(d, receiving[d].row.frame, receiving[d].cand)
<1> DEFINE s == mem[d]
           g == receiving[d].row.frame
           c == receiving[d].cand
           e == Peer(d)
           t == c.ratchet
           x == [dh |-> f.dh, n |-> f.n, key |-> f.key]
<1>1. e \in Dev /\ Peer(e) = d /\ g \in Released(e) /\ Read(d, g)
      /\ c.secret = g.x3dh /\ g.x3dh[1] = e /\ Accepts(d, s, g)
  BY Committing
<1>2. f # g
  BY <1>1
<1>3. /\ Len(g.key.root) = 2 /\ g.n <= MaxSkip /\ c.secret = g.key.root[1]
      /\ t.CKr.root = g.key.root /\ t.Nr = g.n + 1
      /\ Grown(Span(g.dh, g.key.root, 0, g.n), t.skipped)
  <2>1. /\ Len(g.key.root) = 2 /\ g.n <= MaxSkip /\ c.secret = g.key.root[1]
        /\ t.CKr = [root |-> g.key.root, i |-> g.n + 1] /\ t.Nr = g.n + 1
        /\ Grown(Span(g.dh, g.key.root, 0, g.n), t.skipped)
    BY TakenFresh
  <2> HIDE DEF t, g, c
  <2> QED
    BY <2>1
<1>4. /\ f.n \in Nat /\ g.n \in Nat /\ Len(f.key.root) > 1 /\ Len(f.key.root) \in Nat
      /\ InLine(f, g) /\ f.dh \in Part
  BY <1>1, FrameFacts
<1>5. f.key.root = g.key.root /\ f.n < g.n
  <2>1. f.key.root = g.key.root /\ f.n < g.n + 1
    <3> DEFINE m == Len(f.key.root)
    <3>1. \/ f.key.root = g.key.root /\ f.n < g.n + 1
          \/ m < Len(g.key.root)
      BY <1>3 DEF Passed
    <3>2. m > 1 /\ m \in Nat /\ Len(g.key.root) = 2
      BY <1>3, <1>4
    <3> HIDE DEF m
    <3>3. ~(m < 2)
      BY <3>2
    <3> QED
      BY <3>1, <3>2, <3>3
  <2>2. f.n # g.n
    BY <1>1, <1>2, <2>1, SameFrame
  <2> QED
    BY <1>4, <2>1, <2>2
<1>6. x \in Span(g.dh, g.key.root, 0, g.n)
  <2>1. f.dh = g.dh
    BY <1>4, <1>5 DEF InLine
  <2>2. x \in Span(f.dh, f.key.root, 0, g.n)
    BY <1>1, <1>4, <1>5, InSpan
  <2> QED
    BY <1>5, <2>1, <2>2
<1>7. f.x3dh # None
  <2> SUFFICES ASSUME f.x3dh = None PROVE FALSE
    OBVIOUS
  <2>1. disk[d] # None /\ disk[d].secret = f.key.root[1]
    BY <1>1 DEF KeepInv, Secrets
  <2>2. disk[d].secret # c.secret
    BY <2>1, FreshTie
  <2> QED
    BY <1>3, <1>5, <2>1, <2>2
<1>8. Accepts(d, s, f)
  <2>1. BuildsFresh(s, f) /\ g.x3dh # None
    BY <1>7 DEF BuildsFresh
  <2>2. ~LosesTie(d, s, f)
    BY <1>1, <2>1 DEF Accepts, LosesTie
  <2>3. f.x3dh \in Key /\ f.pn = 0
    BY <1>1, <1>7, Prekey
  <2>4. WithinLimits(OpeningRatchet(d, s, f), f)
    <3> DEFINE r == OpeningRatchet(d, s, f)
    <3>1. r = InitResponder(f.x3dh, SPK(d))
      BY <2>1 DEF OpeningRatchet
    <3>2. r.DHr = None /\ r.Nr = 0
      BY <2>3, <3>1, Responder
    <3> HIDE DEF r
    <3>3. f.dh # r.DHr
      BY <1>4, <3>2, Symbols
    <3>4. f.n <= MaxSkip
      <4> DEFINE n == f.n
                 m == g.n
      <4>1. n \in Nat /\ m \in Nat /\ n < m /\ m <= MaxSkip /\ MaxSkip \in Nat
        BY <1>3, <1>4, <1>5, Symbols
      <4> HIDE DEF n, m
      <4>2. n <= MaxSkip
        BY <4>1
      <4> QED
        BY <4>2 DEF n
    <3> QED
      BY <2>3, <3>2, <3>3, <3>4, Symbols DEF WithinLimits, SkipAllowed, r
  <2>5. ~TooFar(d, s, f)
    BY <2>4 DEF TooFar
  <2> QED
    BY <2>1, <2>2, <2>5, FreshOpens
<1>9. x \in Held(t.skipped) \/ GaveUp(t.skipped, x)
  BY <1>3, <1>6 DEF Grown
<1> DEFINE y == x
<1>10. y.dh = f.dh /\ y.key = f.key /\ y.n = f.n
  OBVIOUS
<1> HIDE DEF x
<1> QED
  BY <1>2, <1>8, <1>9, <1>10, InCache

\* What a step along the chain goes by.
LEMMA PassedChain ==
    ASSUME KeepInv, NEW d \in Dev, At(d, "commit"),
           ~BuildsFresh(mem[d], receiving[d].row.frame),
           ByChain(mem[d].ratchet, receiving[d].row.frame, receiving[d].cand.ratchet),
           NEW f \in Released(Peer(d)), ~Read(d, f),
           Passed(f, receiving[d].cand), ~Passed(f, mem[d])
    PROVE  \/ Cached(f, receiving[d].cand)
           \/ f.key \in Evicted(d, receiving[d].row.frame, receiving[d].cand)
<1> DEFINE s == mem[d]
           g == receiving[d].row.frame
           c == receiving[d].cand
           e == Peer(d)
           r == s.ratchet
           t == c.ratchet
           x == [dh |-> f.dh, n |-> f.n, key |-> f.key]
<1>1. e \in Dev /\ g \in Released(e) /\ Read(d, g) /\ s # None /\ c.secret = s.secret
  BY Committing
<1>2. f # g
  BY <1>1
<1>3. r.CKr # None
  BY DEF ByChain
<1>4. ~s.pending
  BY <1>1, <1>3, LiveFacts DEF Shape
<1>5. /\ g.dh = r.DHr /\ g.key.root = r.CKr.root /\ r.Nr <= g.n /\ g.n <= r.Nr + MaxSkip
      /\ t.CKr = [root |-> r.CKr.root, i |-> g.n + 1] /\ t.Nr = g.n + 1
      /\ Grown(Held(r.skipped) \union Skipped(r, g.n), t.skipped)
  BY DEF ByChain
<1>6. /\ f.n \in Nat /\ g.n \in Nat /\ f.dh \in Part /\ r.Nr \in Nat /\ MaxSkip \in Nat
      /\ f.dh = r.DHr <=> f.key.root = r.CKr.root
  BY <1>1, <1>4, FrameFacts, LiveFacts, KnownChain, Symbols
<1>7. f.key.root = r.CKr.root /\ r.Nr <= f.n /\ f.n < g.n
  <2>1. t.CKr.root = r.CKr.root
    <3> HIDE DEF t, r
    <3> QED
      BY <1>5
  <2>2. f.key.root[1] = s.secret
    BY <1>1 DEF Passed
  <2>3. f.key.root = r.CKr.root /\ f.n < g.n + 1 /\ ~(f.n < r.Nr)
    BY <1>4, <1>5, <2>1, <2>2 DEF Passed
  <2>4. f.n # g.n
    BY <1>1, <1>2, <1>5, <2>3, SameFrame
  <2> QED
    BY <1>6, <2>3, <2>4
<1>8. x \in Skipped(r, g.n)
  <2>1. x \in Span(f.dh, f.key.root, r.Nr, g.n)
    BY <1>1, <1>6, <1>7, InSpan
  <2> QED
    BY <1>3, <1>6, <1>7, <2>1 DEF Skipped
<1>9. Accepts(d, s, f)
  <2>1. f.dh = r.DHr
    BY <1>6, <1>7
  <2>2. f.n <= r.Nr + MaxSkip
    <3> DEFINE n == f.n
               m == g.n
               k == r.Nr
    <3>1. n \in Nat /\ m \in Nat /\ k \in Nat /\ MaxSkip \in Nat /\ n < m /\ m <= k + MaxSkip
      BY <1>5, <1>6, <1>7
    <3> HIDE DEF n, m, k
    <3>2. n <= k + MaxSkip
      BY <3>1
    <3> QED
      BY <3>2 DEF n, k
  <2>3. WithinLimits(r, f)
    BY <2>1, <2>2 DEF WithinLimits
  <2>4. f.key.root[1] = s.secret
    BY <1>1 DEF Passed
  <2> QED
    BY <1>1, <2>3, <2>4, NearOpens
<1>10. x \in Held(t.skipped) \/ GaveUp(t.skipped, x)
  BY <1>5, <1>8 DEF Grown
<1>11. x.dh = f.dh /\ x.key = f.key /\ x.n = f.n
  OBVIOUS
<1> HIDE DEF x
<1> QED
  BY <1>2, <1>9, <1>10, <1>11, InCache

\* What a turn goes by: the rest of the chain before, and the start of the new one.
LEMMA PassedTurn ==
    ASSUME KeepInv, NEW d \in Dev, At(d, "commit"),
           ~BuildsFresh(mem[d], receiving[d].row.frame),
           ByTurn(mem[d].ratchet, receiving[d].row.frame, <<d, minted[d]>>,
                  receiving[d].cand.ratchet),
           NEW f \in Released(Peer(d)), ~Read(d, f),
           Passed(f, receiving[d].cand), ~Passed(f, mem[d])
    PROVE  \/ Cached(f, receiving[d].cand)
           \/ f.key \in Evicted(d, receiving[d].row.frame, receiving[d].cand)
<1> DEFINE s == mem[d]
           g == receiving[d].row.frame
           c == receiving[d].cand
           e == Peer(d)
           r == s.ratchet
           t == c.ratchet
           x == [dh |-> f.dh, n |-> f.n, key |-> f.key]
<1>1. /\ e \in Dev /\ g \in Released(e) /\ Read(d, g) /\ s # None /\ c.secret = s.secret
      /\ c.secret = g.key.root[1]
  BY Committing, Taken
<1>2. f # g /\ f.key.root[1] = s.secret
  BY <1>1 DEF Passed
<1>3. /\ g.dh # r.DHr /\ g.n <= MaxSkip /\ g.pn <= r.Nr + MaxSkip
      /\ t.CKr = [root |-> g.key.root, i |-> g.n + 1] /\ t.Nr = g.n + 1
      /\ Grown((Held(r.skipped) \union Skipped(r, g.pn))
               \union Span(g.dh, g.key.root, 0, g.n), t.skipped)
  BY DEF ByTurn
<1>4. /\ f.n \in Nat /\ g.n \in Nat /\ g.pn \in Nat /\ f.dh \in Part /\ InLine(f, g)
      /\ Len(f.key.root) \in Nat /\ Len(f.key.root) > 1
  BY <1>1, FrameFacts
<1>5. /\ r.Nr \in Nat /\ MaxSkip \in Nat /\ Len(r.RK) \in Nat
      /\ r.RK \in Root /\ r.DHs \in Part /\ Shape(d, s)
      /\ s.pending => Len(r.RK) = 2
      /\ ~s.pending => Len(r.CKr.root) \in Nat /\ Len(r.RK) = Len(r.CKr.root) + 1
      /\ ~s.pending => (f.dh = r.DHr <=> f.key.root = r.CKr.root)
  BY <1>1, LiveFacts, KnownChain, Symbols
<1>6. Len(g.key.root) = Len(r.RK) + 1
  <2>1. g.key.root = MixRoot(r.RK, r.DHs, g.dh) /\ g.dh \in Part
    BY <1>1, FrameFacts DEF ByTurn
  <2> HIDE DEF r, g
  <2> QED
    BY <1>5, <2>1, Mixing
<1>7. t.CKr.root = g.key.root
  <2> HIDE DEF t, g
  <2> QED
    BY <1>3
<1>8. CASE f.key.root = g.key.root
  <2>1. f.n < g.n
    <3>1. f.n < g.n + 1
      <4>1. ~(Len(f.key.root) < Len(t.CKr.root))
        <5> DEFINE m == Len(f.key.root)
        <5>1. m \in Nat /\ Len(t.CKr.root) = m
          BY <1>4, <1>7, <1>8
        <5> HIDE DEF m
        <5>2. ~(m < Len(t.CKr.root))
          BY <5>1
        <5> QED
          BY <5>2 DEF m
      <4> QED
        BY <1>3, <4>1 DEF Passed
    <3>2. f.n # g.n
      BY <1>1, <1>2, <1>8, SameFrame
    <3> QED
      BY <1>4, <3>1, <3>2
  <2>2. f.dh = g.dh /\ f.pn = g.pn
    BY <1>4, <1>8 DEF InLine
  <2>3. x \in Span(g.dh, g.key.root, 0, g.n)
    <3>1. x \in Span(f.dh, f.key.root, 0, g.n)
      BY <1>1, <1>4, <2>1, InSpan
    <3> QED
      BY <1>8, <2>2, <3>1
  <2>4. WithinLimits(r, f)
    <3> DEFINE n == f.n
               m == g.n
    <3>1. n \in Nat /\ m \in Nat /\ MaxSkip \in Nat /\ n < m /\ m <= MaxSkip
      BY <1>3, <1>4, <1>5, <2>1
    <3> HIDE DEF n, m
    <3>2. n <= MaxSkip
      BY <3>1
    <3>3. f.n <= MaxSkip
      BY <3>2 DEF n
    <3>4. f.n <= 0 + MaxSkip
      BY <1>5, <3>3
    <3> QED
      BY <1>3, <2>2, <3>4 DEF WithinLimits, SkipAllowed
  <2>5. Accepts(d, s, f)
    BY <1>1, <1>2, <2>4, NearOpens
  <2>6. x \in Held(t.skipped) \/ GaveUp(t.skipped, x)
    BY <1>3, <2>3 DEF Grown
  <2>7. x.dh = f.dh /\ x.key = f.key /\ x.n = f.n
    OBVIOUS
  <2> HIDE DEF x
  <2> QED
    BY <1>2, <2>5, <2>6, <2>7, InCache
<1>9. CASE f.key.root # g.key.root
  <2>1. Len(f.key.root) < Len(g.key.root)
    BY <1>7, <1>9 DEF Passed
  <2>2. Len(f.key.root) # Len(r.RK)
    BY <1>1, <1>2, Parted
  <2>3. Len(f.key.root) < Len(r.RK)
    <3> DEFINE m == Len(f.key.root)
               n == Len(r.RK)
    <3>1. m \in Nat /\ n \in Nat /\ m < n + 1 /\ m # n
      BY <1>4, <1>5, <1>6, <2>1, <2>2
    <3> HIDE DEF m, n
    <3>2. m < n
      BY <3>1
    <3> QED
      BY <3>2 DEF m, n
  <2>4. ~s.pending
    <3> DEFINE m == Len(f.key.root)
               n == Len(r.RK)
    <3>1. m \in Nat /\ n \in Nat /\ m > 1 /\ m < n
      BY <1>4, <1>5, <2>3
    <3> HIDE DEF m, n
    <3>2. n # 2
      BY <3>1
    <3>3. Len(r.RK) # 2
      BY <3>2 DEF n
    <3> QED
      BY <1>5, <3>3
  <2>5. ~(Len(f.key.root) < Len(r.CKr.root)) /\ ~(f.key.root = r.CKr.root /\ f.n < r.Nr)
    BY <1>2, <2>4 DEF Passed
  <2>6. Len(f.key.root) + 1 = Len(r.RK) /\ Len(f.key.root) + 2 = Len(g.key.root)
    <3> DEFINE m == Len(f.key.root)
               n == Len(r.RK)
               k == Len(r.CKr.root)
    <3>1. m \in Nat /\ n \in Nat /\ k \in Nat /\ n = k + 1 /\ m < n /\ ~(m < k)
      BY <1>4, <1>5, <2>3, <2>4, <2>5
    <3>2. Len(g.key.root) = n + 1
      BY <1>6
    <3> HIDE DEF m, n, k
    <3>3. m + 1 = n /\ m + 2 = n + 1
      BY <3>1
    <3> QED
      BY <3>2, <3>3 DEF m, n
  <2>7. f.key.root = r.CKr.root /\ f.dh = r.DHr /\ ~(f.n < r.Nr)
    <3>1. Placed(f, s)
      BY <1>1 DEF KeepInv, Heard
    <3>2. f.key.root = r.CKr.root
      BY <1>2, <2>4, <2>6, <3>1 DEF Placed
    <3> QED
      BY <1>5, <2>4, <2>5, <3>2
  <2>8. f.n < g.pn
    <3>1. InLine(f, g) /\ f.key.root[1] = g.key.root[1]
      BY <1>1, <1>2, <1>4
    <3> QED
      BY <2>6, <3>1 DEF InLine
  <2>9. x \in Skipped(r, g.pn)
    <3>1. r.Nr <= f.n
      BY <1>4, <1>5, <2>7
    <3>2. x \in Span(f.dh, f.key.root, r.Nr, g.pn)
      BY <1>1, <1>4, <1>5, <2>8, <3>1, InSpan
    <3>3. r.CKr # None
      BY <1>5, <2>4 DEF Shape
    <3> QED
      BY <2>7, <3>2, <3>3 DEF Skipped
  <2>10. WithinLimits(r, f)
    <3> DEFINE n == f.n
               m == g.pn
               k == r.Nr
    <3>1. n \in Nat /\ m \in Nat /\ k \in Nat /\ MaxSkip \in Nat /\ n < m /\ m <= k + MaxSkip
      BY <1>3, <1>4, <1>5, <2>8
    <3> HIDE DEF n, m, k
    <3>2. n <= k + MaxSkip
      BY <3>1
    <3>3. f.n <= r.Nr + MaxSkip
      BY <3>2 DEF n, k
    <3> QED
      BY <2>7, <3>3 DEF WithinLimits
  <2>11. Accepts(d, s, f)
    BY <1>1, <1>2, <2>10, NearOpens
  <2>12. x \in Held(t.skipped) \/ GaveUp(t.skipped, x)
    BY <1>3, <2>9 DEF Grown
  <2>13. x.dh = f.dh /\ x.key = f.key /\ x.n = f.n
    OBVIOUS
  <2> HIDE DEF x
  <2> QED
    BY <1>2, <2>11, <2>12, <2>13, InCache
<1> QED
  BY <1>8, <1>9

LEMMA CommitHeard ==
    ASSUME KeepInv, NEW d \in Dev, At(d, "commit"), NEW f \in Released(Peer(d)),
           Passed(f, receiving[d].cand)
    PROVE  \/ Read(d, f) \/ f.key \in waived \/ Cached(f, receiving[d].cand)
           \/ f.key \in Evicted(d, receiving[d].row.frame, receiving[d].cand)
<1> DEFINE s == mem[d]
           g == receiving[d].row.frame
           c == receiving[d].cand
           r == s.ratchet
           t == c.ratchet
<1> SUFFICES ASSUME ~Read(d, f), f.key \notin waived
             PROVE  Cached(f, c) \/ f.key \in Evicted(d, g, c)
  OBVIOUS
<1>1. CASE BuildsFresh(s, g)
  BY <1>1, PassedFresh
<1>2. CASE ~BuildsFresh(s, g) /\ Passed(f, s)
  BY <1>2, PassedBefore
<1>3. CASE ~BuildsFresh(s, g) /\ ~Passed(f, s)
  <2>1. /\ s # None /\ c.secret = s.secret
        /\ \/ ByCache(r, g, t) /\ ~s.pending
           \/ ByChain(r, g, t)
           \/ ByTurn(r, g, <<d, minted[d]>>, t)
    BY <1>3, Committing, TakenOn
  <2>2. ASSUME ByCache(r, g, t), ~s.pending PROVE FALSE
    <3>1. r \in RatchetState
      BY <2>1, LiveFacts
    <3>2. t.CKr = r.CKr /\ t.Nr = r.Nr
      <4>1. t = [r EXCEPT !.skipped = t.skipped]
        BY <2>2 DEF ByCache
      <4> HIDE DEF t, r
      <4> QED
        BY <3>1, <4>1 DEF RatchetState
    <3>3. Passed(f, s)
      BY <2>1, <2>2, <3>2 DEF Passed
    <3> QED
      BY <1>3, <3>3
  <2> QED
    BY <1>3, <2>1, <2>2, PassedChain, PassedTurn
<1> QED
  BY <1>1, <1>2, <1>3

-----------------------------------------------------------------------------
(* What steps have in common, for the second invariant.                      *)

LEMMA AlikeAll ==
    ASSUME NEW s, NEW t, Alike(s, t), NEW d, NEW f, NEW p
    PROVE  /\ Shape(d, s) => Shape(d, t)
           /\ Behind(f, s) => Behind(f, t)
           /\ Grounded(d, s) => Grounded(d, t)
           /\ Placed(f, s) => Placed(f, t)
           /\ Passed(f, t) => Passed(f, s)
           /\ Cached(f, s) => Cached(f, t)
           /\ Follows(s, p) => Follows(t, p)
           /\ Follows(p, s) => Follows(p, t)
<1>1. Shape(d, s) => Shape(d, t)
  BY DEF Shape, Alike, Neat
<1>2. Behind(f, s) => Behind(f, t)
  BY DEF Behind, Alike
<1>3. Grounded(d, s) => Grounded(d, t)
  BY DEF Grounded, Alike
<1>4. (Placed(f, s) => Placed(f, t)) /\ (Passed(f, t) => Passed(f, s))
  BY DEF Placed, Passed, Alike
<1>5. Cached(f, s) => Cached(f, t)
  BY DEF Cached, Alike
<1>6. (Follows(s, p) => Follows(t, p)) /\ (Follows(p, s) => Follows(p, t))
  BY DEF Follows, Alike
<1> QED
  BY <1>1, <1>2, <1>3, <1>4, <1>5, <1>6

LEMMA NumberedLater ==
    ASSUME minted \in [Dev -> Nat], minted' \in [Dev -> Nat],
           \A d \in Dev : minted[d] <= minted'[d], NEW k \in Key, Numbered(k)
    PROVE  Numbered(k)'
<1>1. k[1] \in Dev /\ k[2] \in Nat
  BY DEF Key
<1>2. minted[k[1]] \in Nat /\ minted'[k[1]] \in Nat /\ minted[k[1]] <= minted'[k[1]]
  BY <1>1
<1> QED
  BY <1>1, <1>2 DEF Numbered

\* A step that saves no session, gives out no frame, and leaves each live session as
\* it is, or as it is but for what it has sealed, or forgets one never saved.
LEMMA Quiet ==
    ASSUME KeepInv, Inv', disk' = disk, waived \subseteq waived', sent \subseteq sent',
           \A d \in Dev : Released(d)' \subseteq Released(d),
           \A d \in Dev : minted[d] <= minted'[d],
           \A d \in Dev : \A f : Read(d, f) => Read(d, f)',
           \A d \in Dev : IF mem'[d] = None THEN disk[d] = None
                          ELSE mem[d] # None /\ Alike(mem[d], mem'[d]),
           \A d \in Dev : sending'[d] # None =>
               mem'[d] # None /\ LastSealed(d, sending'[d], mem'[d])
    PROVE  Saved' /\ Shapes' /\ Lines' /\ Secrets' /\ Converged' /\ Met' /\ Heard'
<1>1. minted \in [Dev -> Nat] /\ minted' \in [Dev -> Nat]
  BY DEF KeepInv, Inv, Types
<1>2. \A d \in Dev : Released(d)' # {} => mem'[d] # None
  BY DEF KeepInv, Secrets
<1>3. Saved'
  <2> SUFFICES ASSUME NEW d \in Dev
               PROVE  /\ mem'[d] = None => disk[d] = None
                      /\ mem'[d] # None => IF disk[d] = None THEN mem'[d].pending
                                           ELSE Alike(mem'[d], disk[d])
    BY DEF Saved
  <2> SUFFICES ASSUME mem'[d] # None
               PROVE  IF disk[d] = None THEN mem'[d].pending ELSE Alike(mem'[d], disk[d])
    OBVIOUS
  <2>1. mem[d] # None /\ Alike(mem[d], mem'[d])
    OBVIOUS
  <2>2. IF disk[d] = None THEN mem[d].pending ELSE Alike(mem[d], disk[d])
    BY <2>1 DEF KeepInv, Saved
  <2> QED
    BY <2>1, <2>2 DEF Alike
<1>4. Shapes'
  <2> SUFFICES ASSUME NEW d \in Dev, mem'[d] # None
               PROVE  Shape(d, mem'[d]) /\ Numbered(mem[d].secret)'
    BY DEF Shapes
  <2>1. mem[d] # None /\ Alike(mem[d], mem'[d])
    OBVIOUS
  <2>2. Shape(d, mem[d]) /\ Numbered(mem[d].secret) /\ mem[d].secret \in Key
    BY <2>1, LiveFacts
  <2>3. Shape(d, mem'[d])
    BY <2>1, <2>2, AlikeAll
  <2>4. Numbered(mem[d].secret)'
    <3> PICK k : k = mem[d].secret
      OBVIOUS
    <3>1. Numbered(k)'
      BY <1>1, <2>2, NumberedLater
    <3>2. mem'[d].secret = k
      BY <2>1 DEF Alike
    <3> QED
      BY <3>1, <3>2 DEF Numbered
  <2> QED
    BY <2>3, <2>4
<1>5. Lines'
  <2>1. ASSUME NEW d \in Dev, NEW f \in Released(d)'
        PROVE  Made(d, f) /\ Numbered(f.key.root[1])' /\ mem'[d] # None /\ Behind(f, mem'[d])
    <3>1. f \in Released(d)
      BY <2>1
    <3>2. Made(d, f) /\ Numbered(f.key.root[1]) /\ f.key.root[1] \in Key /\ Behind(f, mem[d])
      BY <3>1, FrameFacts
    <3>3. mem'[d] # None /\ Alike(mem[d], mem'[d])
      BY <1>2, <2>1
    <3>4. Numbered(f.key.root[1])'
      BY <1>1, <3>2, NumberedLater
    <3>5. Behind(f, mem'[d])
      BY <3>2, <3>3, AlikeAll
    <3> QED
      BY <3>2, <3>3, <3>4, <3>5
  <2>2. ASSUME NEW d \in Dev, NEW f \in Released(d)', NEW g \in Released(d)' PROVE InLine(f, g)
    BY <2>2 DEF KeepInv, Lines
  <2> QED
    BY <2>1, <2>2 DEF Lines
<1>6. Secrets'
  BY DEF KeepInv, Secrets
<1>7. Converged'
  <2> SUFFICES ASSUME NEW d \in Dev, NEW s \in {mem'[d], disk[d]} \ {None}, ~s.pending
               PROVE  disk[Peer(d)] # None /\ disk[Peer(d)].secret = s.secret
    BY DEF Converged
  <2>1. CASE s = disk[d]
    BY <2>1 DEF KeepInv, Converged
  <2>2. CASE s = mem'[d]
    <3>1. mem[d] # None /\ Alike(mem[d], s)
      BY <2>2
    <3>2. ~mem[d].pending /\ mem[d].secret = s.secret
      BY <3>1 DEF Alike
    <3> QED
      BY <3>1, <3>2 DEF KeepInv, Converged
  <2> QED
    BY <2>1, <2>2
<1>8. Met'
  <2> SUFFICES ASSUME NEW d \in Dev, mem'[d] # None, mem'[Peer(d)] # None,
                      mem'[d].secret = mem'[Peer(d)].secret
               PROVE  Follows(mem'[d], mem'[Peer(d)]) \/ Follows(mem'[Peer(d)], mem'[d])
    BY DEF Met
  <2>1. Peer(d) \in Dev
    BY Peers
  <2>2. /\ mem[d] # None /\ Alike(mem[d], mem'[d])
        /\ mem[Peer(d)] # None /\ Alike(mem[Peer(d)], mem'[Peer(d)])
    BY <2>1
  <2>3. Follows(mem[d], mem[Peer(d)]) \/ Follows(mem[Peer(d)], mem[d])
    BY <2>2 DEF KeepInv, Met, Alike
  <2>4. Follows(mem[d], mem'[Peer(d)]) \/ Follows(mem'[Peer(d)], mem[d])
    BY <2>2, <2>3, AlikeAll
  <2> QED
    BY <2>2, <2>4, AlikeAll
<1>9. Heard'
  <2> SUFFICES ASSUME NEW d \in Dev, mem'[d] # None
               PROVE  /\ Grounded(d, mem[d])'
                      /\ \A f \in Released(Peer(d))' :
                            /\ Placed(f, mem'[d])
                            /\ Passed(f, mem'[d]) =>
                                  Read(d, f)' \/ f.key \in waived' \/ Cached(f, mem'[d])
    BY DEF Heard
  <2>1. mem[d] # None /\ Alike(mem[d], mem'[d]) /\ Peer(d) \in Dev
    BY Peers
  <2>2. Grounded(d, mem[d])'
    <3>1. Grounded(d, mem[d])
      BY <2>1 DEF KeepInv, Heard
    <3> PICK s : s = mem'[d]
      OBVIOUS
    <3>2. Grounded(d, s)
      BY <2>1, <3>1, AlikeAll
    <3> QED
      BY <3>2 DEF Grounded
  <2>3. ASSUME NEW f \in Released(Peer(d))'
        PROVE  /\ Placed(f, mem'[d])
               /\ Passed(f, mem'[d]) => Read(d, f)' \/ f.key \in waived' \/ Cached(f, mem'[d])
    <3>1. f \in Released(Peer(d))
      BY <2>1
    <3>2. /\ Placed(f, mem[d])
          /\ Passed(f, mem[d]) => Read(d, f) \/ f.key \in waived \/ Cached(f, mem[d])
      BY <2>1, <3>1 DEF KeepInv, Heard
    <3>3. /\ Placed(f, mem[d]) => Placed(f, mem'[d])
          /\ Passed(f, mem'[d]) => Passed(f, mem[d])
          /\ Cached(f, mem[d]) => Cached(f, mem'[d])
      BY <2>1, AlikeAll
    <3> QED
      BY <3>2, <3>3
  <2> QED
    BY <2>2, <2>3
<1> QED
  BY <1>3, <1>4, <1>5, <1>6, <1>7, <1>8, <1>9

LEMMA AlikeSelf == \A s : Alike(s, s)
BY DEF Alike

\* A draft that is left alone.
LEMMA DraftKept ==
    ASSUME KeepInv,
           \A d \in Dev : At(d, "apply")' \/ At(d, "commit")' =>
               /\ At(d, "apply") \/ At(d, "commit")
               /\ receiving'[d].row = receiving[d].row /\ receiving'[d].cand = receiving[d].cand
               /\ mem'[d] = mem[d] /\ minted'[d] = minted[d]
               /\ Released(d)' \subseteq Released(d)
    PROVE  Drafted'
BY DEF KeepInv, Drafted

\* A step that moves no row.
LEMMA BooksKept ==
    ASSUME KeepInv, rows' = rows, sent' = sent, waived \subseteq waived',
           \A d \in Dev : seen'[d] \subseteq seen[d],
           \A d \in Dev : abandoned[d] \subseteq abandoned'[d],
           \A d \in Dev : \A f : Read(d, f) => Read(d, f)',
           \A d \in Dev : receiving'[d] # None =>
               /\ receiving'[d].row \in rows[d]
               /\ At(d, "commit")' \/ At(d, "ack")' => Read(d, receiving[d].row.frame)'
    PROVE  Books' /\ NothingLost'
<1>1. \A d \in Dev : \A f : Forgone(d, f) => Forgone(d, f)'
  BY DEF Forgone
<1>2. Books'
  <2> SUFFICES ASSUME NEW d \in Dev
               PROVE  /\ \A row, other \in rows[d] : row.id = other.id => row = other
                      /\ receiving'[d] # None => receiving'[d].row \in rows[d]
                      /\ At(d, "commit")' \/ At(d, "ack")' => Read(d, receiving[d].row.frame)'
                      /\ \A row \in rows[d] : row.id \in seen'[d] /\ row.frame \in sent =>
                            Read(d, row.frame)' \/ Forgone(d, row.frame)'
    BY DEF Books
  <2>1. /\ \A row, other \in rows[d] : row.id = other.id => row = other
        /\ \A row \in rows[d] : row.id \in seen[d] /\ row.frame \in sent =>
              Read(d, row.frame) \/ Forgone(d, row.frame)
    BY DEF KeepInv, Books
  <2>2. At(d, "commit")' \/ At(d, "ack")' => receiving'[d] # None
    BY DEF At
  <2> QED
    BY <1>1, <2>1, <2>2
<1>3. NothingLost'
  <2> SUFFICES ASSUME NEW f \in sent
               PROVE  \/ Read(Peer(f.from), f)' \/ Forgone(Peer(f.from), f)'
                      \/ \E row \in rows[Peer(f.from)] : row.frame = f
    BY DEF NothingLost
  <2>1. Peer(f.from) \in Dev
    BY Peers DEF KeepInv, Inv, Types, Frame
  <2> QED
    BY <1>1, <2>1 DEF KeepInv, NothingLost
<1> QED
  BY <1>2, <1>3

LEMMA Still ==
    ASSUME KeepInv, Inv', mem' = mem, disk' = disk, waived \subseteq waived', sent \subseteq sent',
           \A d \in Dev : Released(d)' \subseteq Released(d),
           \A d \in Dev : minted[d] <= minted'[d],
           \A d \in Dev : \A f : Read(d, f) => Read(d, f)',
           \A d \in Dev : sending'[d] # None => sending'[d] = sending[d]
    PROVE  Saved' /\ Shapes' /\ Lines' /\ Secrets' /\ Converged' /\ Met' /\ Heard'
<1>1. \A d \in Dev : IF mem'[d] = None THEN disk[d] = None
                     ELSE mem[d] # None /\ Alike(mem[d], mem'[d])
  BY AlikeSelf DEF KeepInv, Saved
<1>2. \A d \in Dev : sending'[d] # None => mem'[d] # None /\ LastSealed(d, sending'[d], mem'[d])
  BY DEF KeepInv, Lines
<1> QED
  BY <1>1, <1>2, Quiet

LEMMA LogKept == ASSUME log' = log PROVE \A d \in Dev : \A f : Read(d, f) => Read(d, f)'
BY DEF Read, Logged

LEMMA MintedKept ==
    ASSUME KeepInv, minted' = minted PROVE \A d \in Dev : minted[d] <= minted'[d]
BY DEF KeepInv, Inv, Types

-----------------------------------------------------------------------------
(* Each action keeps the second invariant.                                   *)

LEMMA InitKeep == Init => KeepInv
<1> SUFFICES ASSUME Init PROVE KeepInv
  OBVIOUS
<1>1. \A d \in Dev : /\ mem[d] = None /\ disk[d] = None /\ sending[d] = None
                     /\ receiving[d] = None /\ rows[d] = {} /\ Released(d) = {}
  BY DEF Init, Released
<1>2. sent = {}
  BY DEF Init
<1>3. Inv
  BY InitInv
<1>4. Saved /\ Shapes /\ Converged /\ Met /\ Heard /\ Secrets
  BY <1>1 DEF Saved, Shapes, Converged, Met, Heard, Secrets
<1>5. Drafted /\ Books
  BY <1>1 DEF Drafted, Books, At
<1>6. Lines /\ NothingLost
  BY <1>1, <1>2 DEF Lines, NothingLost
<1> QED
  BY <1>3, <1>4, <1>5, <1>6 DEF KeepInv, Init

LEMMA ApplyKeep == ASSUME KeepInv, NEW d \in Dev, Apply(d) PROVE KeepInv'
<1>1. /\ receiving' = [receiving EXCEPT ![d].at = "commit"] /\ At(d, "apply")
      /\ mem' = mem /\ disk' = disk /\ sending' = sending /\ sealed' = sealed /\ rows' = rows
      /\ seen' = seen /\ minted' = minted /\ sent' = sent /\ waived' = waived
      /\ abandoned' = abandoned
  BY DEF Apply, history
<1>2. Inv'
  BY ApplyInv DEF KeepInv
<1> DEFINE f == receiving[d].row.frame
<1>3. log' = [log EXCEPT ![d] = IF Logged(d, f.mid) THEN @ ELSE Append(@, f.mid)]
  BY DEF Apply
<1>4. log \in [Dev -> Seq(Dev \X Nat)] /\ receiving \in [Dev -> Receipt \union {None}]
  BY DEF KeepInv, Inv, Types
<1>5. receiving[d] # None /\ receiving[d] \in Receipt /\ f.mid \in Dev \X Nat
  <2>1. receiving[d] # None /\ receiving[d] \in Receipt
    BY <1>1, <1>4 DEF At
  <2> QED
    BY <2>1 DEF Receipt, Row, Frame
<1>6. /\ \A e \in Dev : \A g : Read(e, g) => Read(e, g)'
      /\ Read(d, f)'
  <2> PICK mid : mid = f.mid
    OBVIOUS
  <2>1. CASE Logged(d, mid)
    <3>1. log' = log
      BY <1>3, <1>4, <2>1
    <3>2. \A e \in Dev : \A g : Read(e, g) => Read(e, g)'
      BY <3>1 DEF Read, Logged
    <3>3. Read(d, f)'
      <4> PICK g : g = f
        OBVIOUS
      <4>1. Read(d, g)'
        BY <2>1, <3>1 DEF Read, Logged
      <4>2. receiving'[d].row.frame = g
        BY <1>1, <1>4, <1>5 DEF Receipt
      <4> QED
        BY <4>1, <4>2 DEF Read, Logged
    <3> QED
      BY <3>2, <3>3
  <2>2. CASE ~Logged(d, mid)
    <3>1. log'[d] = Append(log[d], mid) /\ \A e \in Dev \ {d} : log'[e] = log[e]
      BY <1>3, <1>4, <2>2
    <3>2. /\ DOMAIN log[d] = 1 .. Len(log[d]) /\ Len(log[d]) \in Nat
          /\ DOMAIN log'[d] = 1 .. Len(log[d]) + 1
          /\ log'[d][Len(log[d]) + 1] = mid
          /\ \A k \in DOMAIN log[d] : log'[d][k] = log[d][k]
      BY <1>4, <1>5, <3>1
    <3>3. \A k \in DOMAIN log[d] : k \in DOMAIN log'[d]
      BY <3>2
    <3>4. \A g : Read(d, g) => Read(d, g)'
      BY <3>2, <3>3 DEF Read, Logged
    <3>5. Len(log[d]) + 1 \in DOMAIN log'[d]
      BY <3>2
    <3>6. Read(d, f)'
      <4> PICK g : g = f
        OBVIOUS
      <4>1. Read(d, g)'
        BY <3>2, <3>5 DEF Read, Logged
      <4>2. receiving'[d].row.frame = g
        BY <1>1, <1>4, <1>5 DEF Receipt
      <4> QED
        BY <4>1, <4>2 DEF Read, Logged
    <3> QED
      BY <3>1, <3>4, <3>6 DEF Read, Logged
  <2> QED
    BY <2>1, <2>2
<1>7. \A e \in Dev : Released(e)' = Released(e)
  BY <1>1 DEF Released
<1>8. Saved' /\ Shapes' /\ Lines' /\ Secrets' /\ Converged' /\ Met' /\ Heard'
  BY <1>1, <1>2, <1>6, <1>7, MintedKept, Still
<1>9. /\ receiving'[d].row = receiving[d].row /\ receiving'[d].cand = receiving[d].cand
      /\ receiving'[d].at = "commit"
      /\ \A e \in Dev \ {d} : receiving'[e] = receiving[e]
  BY <1>1, <1>4, <1>5 DEF Receipt
<1>10. Drafted'
  BY <1>1, <1>7, <1>9, DraftKept DEF At
<1>11. Books' /\ NothingLost'
  <2>1. ASSUME NEW e \in Dev, receiving'[e] # None
        PROVE  /\ receiving'[e].row \in rows[e]
               /\ At(e, "commit")' \/ At(e, "ack")' => Read(e, receiving[e].row.frame)'
    <3>1. CASE e = d
      BY <1>5, <1>6, <1>9, <3>1 DEF KeepInv, Books
    <3>2. CASE e # d
      <4>1. receiving'[e] = receiving[e]
        BY <1>9, <3>2
      <4>2. /\ receiving[e].row \in rows[e]
            /\ At(e, "commit") \/ At(e, "ack") => Read(e, receiving[e].row.frame)
        BY <2>1, <4>1 DEF KeepInv, Books
      <4>3. At(e, "commit")' \/ At(e, "ack")' => At(e, "commit") \/ At(e, "ack")
        BY <4>1 DEF At
      <4>4. Read(e, receiving[e].row.frame) => Read(e, receiving[e].row.frame)'
        <5> PICK g : g = receiving[e].row.frame
          OBVIOUS
        <5>1. Read(e, g) => Read(e, g)'
          BY <1>6
        <5> QED
          BY <4>1, <5>1 DEF Read, Logged
      <4> QED
        BY <4>1, <4>2, <4>3, <4>4
    <3> QED
      BY <3>1, <3>2
  <2> QED
    BY <1>1, <1>6, <2>1, BooksKept
<1> QED
  BY <1>1, <1>2, <1>8, <1>10, <1>11 DEF KeepInv

\* A step that at most ends a task, or gives a frame up.
LEMMA EndKeep ==
    ASSUME KeepInv, Inv',
           UNCHANGED <<mem, disk, log, rows, minted, sent, waived, abandoned>>,
           \A d \in Dev : seen'[d] \subseteq seen[d],
           \A d \in Dev : sealed'[d] \subseteq sealed[d],
           \A d \in Dev : sending'[d] # None => sending'[d] = sending[d],
           \A d \in Dev : receiving'[d] # None => receiving'[d] = receiving[d]
    PROVE  KeepInv'
<1>1. /\ mem' = mem /\ disk' = disk /\ log' = log /\ rows' = rows /\ minted' = minted
      /\ sent' = sent /\ waived' = waived /\ abandoned' = abandoned
  OBVIOUS
<1>2. \A d \in Dev : Released(d)' \subseteq Released(d)
  BY <1>1 DEF Released
<1>3. \A d \in Dev : \A f : Read(d, f) => Read(d, f)'
  BY <1>1, LogKept
<1>4. Saved' /\ Shapes' /\ Lines' /\ Secrets' /\ Converged' /\ Met' /\ Heard'
  BY <1>1, <1>2, <1>3, MintedKept, Still
<1>5. Drafted'
  BY <1>1, <1>2, DraftKept DEF At
<1>6. Books' /\ NothingLost'
  <2>1. ASSUME NEW d \in Dev, receiving'[d] # None
        PROVE  /\ receiving'[d].row \in rows[d]
               /\ At(d, "commit")' \/ At(d, "ack")' => Read(d, receiving[d].row.frame)'
    <3>1. receiving'[d] = receiving[d] /\ receiving[d] # None
      BY <2>1
    <3>2. /\ receiving[d].row \in rows[d]
          /\ At(d, "commit") \/ At(d, "ack") => Read(d, receiving[d].row.frame)
      BY <3>1 DEF KeepInv, Books
    <3>3. At(d, "commit")' \/ At(d, "ack")' => At(d, "commit") \/ At(d, "ack")
      BY <3>1 DEF At
    <3>4. Read(d, receiving[d].row.frame) => Read(d, receiving[d].row.frame)'
      BY <1>1, <3>1 DEF Read, Logged
    <3> QED
      BY <3>1, <3>2, <3>3, <3>4
  <2> QED
    BY <1>1, <1>3, <2>1, BooksKept
<1> QED
  BY <1>1, <1>4, <1>5, <1>6 DEF KeepInv

LEMMA ReceiveFailsKeep == ASSUME KeepInv, NEW d \in Dev, ReceiveFails(d) PROVE KeepInv'
<1>1. Inv'
  BY ReceiveFailsInv DEF KeepInv
<1>2. receiving \in [Dev -> Receipt \union {None}]
  BY DEF KeepInv, Inv, Types
<1>3. \A e \in Dev : receiving'[e] # None => receiving'[e] = receiving[e]
  BY <1>2 DEF ReceiveFails
<1>4. /\ UNCHANGED <<mem, disk, log, rows, minted, sent, waived, abandoned>>
      /\ seen' = seen /\ sealed' = sealed /\ sending' = sending
  BY DEF ReceiveFails, history
<1> QED
  BY <1>1, <1>3, <1>4, EndKeep

LEMMA SendFailsKeep == ASSUME KeepInv, NEW d \in Dev, SendFails(d) PROVE KeepInv'
<1>1. Inv'
  BY SendFailsInv DEF KeepInv
<1>2. sending \in [Dev -> Frame \union {None}]
  BY DEF KeepInv, Inv, Types
<1>3. \A e \in Dev : sending'[e] # None => sending'[e] = sending[e]
  BY <1>2 DEF SendFails
<1>4. /\ UNCHANGED <<mem, disk, log, rows, minted, sent, waived, abandoned>>
      /\ seen' = seen /\ sealed' = sealed /\ receiving' = receiving
  BY DEF SendFails, history
<1> QED
  BY <1>1, <1>3, <1>4, EndKeep

LEMMA FenceKeep == ASSUME KeepInv, NEW d \in Dev, Suspend(d) \/ Resume(d) PROVE KeepInv'
<1>1. Inv'
  BY FenceInv DEF KeepInv
<1>2. sealed \in [Dev -> SUBSET Frame]
  BY DEF KeepInv, Inv, Types
<1>3. \A e \in Dev : sealed'[e] \subseteq sealed[e]
  BY <1>2 DEF Suspend, Resume
<1>4. /\ UNCHANGED <<mem, disk, log, rows, minted, sent, waived, abandoned>>
      /\ seen' = seen /\ sending' = sending /\ receiving' = receiving
  BY DEF Suspend, Resume, history, tasks
<1> QED
  BY <1>1, <1>3, <1>4, EndKeep

LEMMA StutterKeep == ASSUME KeepInv, UNCHANGED vars PROVE KeepInv'
<1>1. Inv'
  BY StepInv DEF KeepInv
<1>2. /\ UNCHANGED <<mem, disk, log, rows, minted, sent, waived, abandoned>>
      /\ seen' = seen /\ sealed' = sealed /\ sending' = sending /\ receiving' = receiving
  BY DEF vars, history, tasks
<1> QED
  BY <1>1, <1>2, EndKeep

LEMMA CrashKeep == ASSUME KeepInv, NEW d \in Dev, Crash(d) PROVE KeepInv'
<1>1. /\ mem' = [mem EXCEPT ![d] = disk[d]] /\ sending' = [sending EXCEPT ![d] = None]
      /\ receiving' = [receiving EXCEPT ![d] = None] /\ sealed' = [sealed EXCEPT ![d] = {}]
      /\ seen' = [seen EXCEPT ![d] = {}]
      /\ disk' = disk /\ log' = log /\ rows' = rows /\ minted' = minted
      /\ sent' = sent /\ waived' = waived /\ abandoned' = abandoned
  BY DEF Crash, history
<1>2. Inv'
  BY CrashInv DEF KeepInv
<1>3. /\ mem \in [Dev -> Session \union {None}] /\ sending \in [Dev -> Frame \union {None}]
      /\ receiving \in [Dev -> Receipt \union {None}] /\ sealed \in [Dev -> SUBSET Frame]
      /\ DOMAIN seen = Dev
  BY DEF KeepInv, Inv, Types
<1>4. \A e \in Dev : sealed'[e] \subseteq sealed[e]
  BY <1>1, <1>3
<1>5. \A e \in Dev : Released(e)' \subseteq Released(e)
  BY <1>1, <1>4 DEF Released
<1>6. \A e \in Dev : seen'[e] \subseteq seen[e]
  <2>1. ASSUME NEW e \in Dev PROVE seen'[e] \subseteq seen[e]
    <3>1. CASE e = d
      BY <1>1, <1>3, <3>1
    <3>2. CASE e # d
      BY <1>1, <1>3, <3>2
    <3> QED
      BY <3>1, <3>2
  <2> QED
    BY <2>1
<1>7. \A e \in Dev : \A f : Read(e, f) => Read(e, f)'
  BY <1>1, LogKept
<1>8. mem'[d] = disk[d] /\ sending'[d] = None /\ receiving'[d] = None
      /\ \A e \in Dev \ {d} : /\ mem'[e] = mem[e] /\ sending'[e] = sending[e]
                              /\ receiving'[e] = receiving[e]
  BY <1>1, <1>3
<1>9. \A e \in Dev : IF mem'[e] = None THEN disk[e] = None
                     ELSE mem[e] # None /\ Alike(mem[e], mem'[e])
  <2>1. ASSUME NEW e \in Dev
        PROVE  IF mem'[e] = None THEN disk[e] = None
               ELSE mem[e] # None /\ Alike(mem[e], mem'[e])
    <3>1. CASE e = d
      BY <1>8, <3>1 DEF KeepInv, Saved
    <3>2. CASE e # d
      BY <1>8, <3>2, AlikeSelf DEF KeepInv, Saved
    <3> QED
      BY <3>1, <3>2
  <2> QED
    BY <2>1
<1>10. \A e \in Dev : sending'[e] # None => mem'[e] # None /\ LastSealed(e, sending'[e], mem'[e])
  BY <1>8 DEF KeepInv, Lines
<1>11. Saved' /\ Shapes' /\ Lines' /\ Secrets' /\ Converged' /\ Met' /\ Heard'
  BY <1>1, <1>2, <1>5, <1>7, <1>9, <1>10, MintedKept, Quiet
<1>12. Drafted'
  BY <1>1, <1>5, <1>8, DraftKept DEF At
<1>13. Books' /\ NothingLost'
  <2>1. ASSUME NEW e \in Dev, receiving'[e] # None
        PROVE  /\ receiving'[e].row \in rows[e]
               /\ At(e, "commit")' \/ At(e, "ack")' => Read(e, receiving[e].row.frame)'
    <3>1. receiving'[e] = receiving[e] /\ receiving[e] # None
      BY <1>8, <2>1
    <3>2. /\ receiving[e].row \in rows[e]
          /\ At(e, "commit") \/ At(e, "ack") => Read(e, receiving[e].row.frame)
      BY <3>1 DEF KeepInv, Books
    <3>3. At(e, "commit")' \/ At(e, "ack")' => At(e, "commit") \/ At(e, "ack")
      BY <3>1 DEF At
    <3>4. Read(e, receiving[e].row.frame) => Read(e, receiving[e].row.frame)'
      BY <1>1, <3>1 DEF Read, Logged
    <3> QED
      BY <3>1, <3>2, <3>3, <3>4
  <2> QED
    BY <1>1, <1>6, <1>7, <2>1, BooksKept
<1> QED
  BY <1>1, <1>2, <1>11, <1>12, <1>13 DEF KeepInv

LEMMA OpenKeep == ASSUME KeepInv, NEW d \in Dev, NEW row \in rows[d], Open(d, row) PROVE KeepInv'
<1> PICK q : q = [at |-> "apply", row |-> row, cand |-> Candidate(d, mem[d], row.frame)]
  OBVIOUS
<1>1. /\ receiving' = [receiving EXCEPT ![d] = q] /\ minted' = [minted EXCEPT ![d] = @ + 1]
      /\ Accepts(d, mem[d], row.frame) /\ QueueFree(d)
      /\ mem' = mem /\ disk' = disk /\ log' = log /\ sending' = sending /\ sealed' = sealed
      /\ rows' = rows /\ seen' = seen /\ sent' = sent /\ waived' = waived
      /\ abandoned' = abandoned
  BY DEF Open, history
<1>2. Inv'
  BY OpenInv DEF KeepInv
<1>3. minted \in [Dev -> Nat] /\ receiving \in [Dev -> Receipt \union {None}]
  BY DEF KeepInv, Inv, Types
<1>4. /\ receiving'[d] = q /\ minted'[d] = minted[d] + 1 /\ minted[d] \in Nat
      /\ \A e \in Dev \ {d} : receiving'[e] = receiving[e] /\ minted'[e] = minted[e]
  BY <1>1, <1>3
<1>5. \A e \in Dev : minted[e] <= minted'[e]
  BY <1>3, <1>4
<1>6. \A e \in Dev : Released(e)' = Released(e)
  BY <1>1 DEF Released
<1>7. \A e \in Dev : \A f : Read(e, f) => Read(e, f)'
  BY <1>1, LogKept
<1>8. Saved' /\ Shapes' /\ Lines' /\ Secrets' /\ Converged' /\ Met' /\ Heard'
  BY <1>1, <1>2, <1>5, <1>6, <1>7, Still
<1>9. Drafted'
  <2> SUFFICES ASSUME NEW e \in Dev, At(e, "apply")' \/ At(e, "commit")'
               PROVE  /\ Accepts(e, mem'[e], receiving'[e].row.frame)
                      /\ receiving'[e].cand
                           = Draft(e, mem'[e], receiving'[e].row.frame, <<e, minted'[e]>>)
                      /\ minted'[e] > 0
                      /\ \A g \in Released(e)' : g.dh # <<e, minted'[e]>>
    BY DEF Drafted
  <2>1. CASE e = d
    <3>1. receiving'[e].row = row /\ receiving'[e].cand = Candidate(d, mem[d], row.frame)
      BY <1>4, <2>1
    <3>2. KeyOf(d) = <<d, minted'[d]>>
      BY <1>4 DEF KeyOf
    <3>3. Candidate(d, mem[d], row.frame) = Draft(d, mem[d], row.frame, <<d, minted'[d]>>)
      BY <3>2 DEF Candidate, Draft
    <3>4. minted'[d] > 0
      BY <1>4
    <3>5. ASSUME NEW g \in Released(d) PROVE g.dh # <<d, minted'[d]>>
      <4>1. Made(d, g) /\ Own(d, minted[d], g)
        BY FrameFacts, Facts DEF KeepInv
      <4>2. g.dh \in Last(g.key.root) /\ \A k \in Nat : <<d, k>> \in Last(g.key.root) => k <= minted[d]
        BY <4>1 DEF Made, Own, OwnRoot
      <4>3. ASSUME g.dh = <<d, minted'[d]>> PROVE FALSE
        <5>1. minted'[d] <= minted[d] /\ minted'[d] \in Nat
          BY <1>4, <4>2, <4>3
        <5> QED
          BY <1>4, <5>1
      <4> QED
        BY <4>3
    <3> QED
      BY <1>1, <1>6, <2>1, <3>1, <3>3, <3>4, <3>5
  <2>2. CASE e # d
    <3>1. receiving'[e] = receiving[e] /\ minted'[e] = minted[e] /\ mem'[e] = mem[e]
      BY <1>1, <1>4, <2>2
    <3>2. At(e, "apply") \/ At(e, "commit")
      BY <3>1 DEF At
    <3> QED
      BY <1>6, <3>1, <3>2 DEF KeepInv, Drafted
  <2> QED
    BY <2>1, <2>2
<1>10. Books' /\ NothingLost'
  <2>1. ASSUME NEW e \in Dev, receiving'[e] # None
        PROVE  /\ receiving'[e].row \in rows[e]
               /\ At(e, "commit")' \/ At(e, "ack")' => Read(e, receiving[e].row.frame)'
    <3>1. CASE e = d
      <4>1. receiving'[e].row = row /\ receiving'[e].at = "apply"
        BY <1>4, <3>1
      <4>2. ~(At(e, "commit")' \/ At(e, "ack")')
        BY <4>1 DEF At
      <4> QED
        BY <3>1, <4>1, <4>2
    <3>2. CASE e # d
      <4>1. receiving'[e] = receiving[e] /\ receiving[e] # None
        BY <1>4, <2>1, <3>2
      <4>2. /\ receiving[e].row \in rows[e]
            /\ At(e, "commit") \/ At(e, "ack") => Read(e, receiving[e].row.frame)
        BY <4>1 DEF KeepInv, Books
      <4>3. At(e, "commit")' \/ At(e, "ack")' => At(e, "commit") \/ At(e, "ack")
        BY <4>1 DEF At
      <4>4. Read(e, receiving[e].row.frame) => Read(e, receiving[e].row.frame)'
        BY <1>1, <4>1 DEF Read, Logged
      <4> QED
        BY <4>1, <4>2, <4>3, <4>4
    <3> QED
      BY <3>1, <3>2
  <2> QED
    BY <1>1, <1>7, <2>1, BooksKept
<1> QED
  BY <1>1, <1>2, <1>8, <1>9, <1>10 DEF KeepInv

-----------------------------------------------------------------------------
(* Rows come and go.                                                         *)

\* A step that moves rows only: what it takes away is done with, and what it
\* brings has an id of its own.
LEMMA RowsKeep ==
    ASSUME KeepInv, Inv',
           UNCHANGED <<mem, disk, log, sending, minted>>, DOMAIN abandoned' = Dev,
           waived \subseteq waived', sent \subseteq sent',
           \A d \in Dev : Released(d)' = Released(d),
           \A d \in Dev : abandoned[d] \subseteq abandoned'[d],
           \A d \in Dev : receiving'[d] # None =>
               receiving'[d] = receiving[d] /\ receiving[d].row \in rows'[d],
           \A d \in Dev : \A row, other \in rows'[d] : row.id = other.id => row = other,
           \A d \in Dev : \A row \in rows'[d] : row.id \in seen'[d] /\ row.frame \in sent' =>
               Read(d, row.frame) \/ Forgone(d, row.frame)',
           \A f \in sent' : \/ \E row \in rows'[Peer(f.from)] : row.frame = f
                            \/ Read(Peer(f.from), f) \/ Forgone(Peer(f.from), f)'
    PROVE  KeepInv'
<1>1. mem' = mem /\ disk' = disk /\ log' = log /\ sending' = sending /\ minted' = minted
  OBVIOUS
<1>2. \A d \in Dev : \A f : Read(d, f) => Read(d, f)'
  BY <1>1, LogKept
<1>3. Saved' /\ Shapes' /\ Lines' /\ Secrets' /\ Converged' /\ Met' /\ Heard'
  BY <1>1, <1>2, MintedKept, Still
<1>4. Drafted'
  BY <1>1, DraftKept DEF At
<1>5. Books'
  <2>1. ASSUME NEW d \in Dev, receiving'[d] # None
        PROVE  /\ receiving'[d].row \in rows'[d]
               /\ At(d, "commit")' \/ At(d, "ack")' => Read(d, receiving[d].row.frame)'
    <3>1. receiving'[d] = receiving[d] /\ receiving[d].row \in rows'[d]
      BY <2>1
    <3>2. At(d, "commit") \/ At(d, "ack") => Read(d, receiving[d].row.frame)
      BY DEF KeepInv, Books
    <3>3. At(d, "commit")' \/ At(d, "ack")' => At(d, "commit") \/ At(d, "ack")
      BY <3>1 DEF At
    <3>4. Read(d, receiving[d].row.frame) => Read(d, receiving[d].row.frame)'
      BY <1>1, <3>1 DEF Read, Logged
    <3> QED
      BY <3>1, <3>2, <3>3, <3>4
  <2>2. \A d \in Dev : At(d, "commit")' \/ At(d, "ack")' => receiving'[d] # None
    BY DEF At
  <2>3. \A d \in Dev : \A row \in rows'[d] : row.id \in seen'[d] /\ row.frame \in sent' =>
           Read(d, row.frame)' \/ Forgone(d, row.frame)'
    BY <1>2
  <2> QED
    BY <2>1, <2>2, <2>3 DEF Books
<1>6. NothingLost'
  <2> SUFFICES ASSUME NEW f \in sent'
               PROVE  \/ Read(Peer(f.from), f)' \/ Forgone(Peer(f.from), f)'
                      \/ \E row \in rows'[Peer(f.from)] : row.frame = f
    BY DEF NothingLost
  <2>1. Peer(f.from) \in Dev
    BY Peers DEF Inv, Types, Frame
  <2> QED
    BY <1>2, <2>1
<1> QED
  BY <1>3, <1>4, <1>5, <1>6 DEF KeepInv

LEMMA ForgoneLater ==
    ASSUME waived \subseteq waived', \A d \in Dev : abandoned[d] \subseteq abandoned'[d]
    PROVE  \A d \in Dev : \A f : Forgone(d, f) => Forgone(d, f)'
BY DEF Forgone

\* A row that is acknowledged when it is done with.
LEMMA AckKeep ==
    ASSUME KeepInv, Inv', NEW d \in Dev, NEW row \in rows[d], Acknowledge(d, row),
           UNCHANGED <<mem, disk, log, sending, sealed, minted, sent>>, DOMAIN abandoned' = Dev,
           waived \subseteq waived', \A e \in Dev : abandoned[e] \subseteq abandoned'[e],
           receiving'[d] = None, \A e \in Dev \ {d} : receiving'[e] = receiving[e],
           row.frame \in sent => Read(d, row.frame) \/ Forgone(d, row.frame)'
    PROVE  KeepInv'
<1>1. /\ seen' = [seen EXCEPT ![d] = @ \union {row.id}]
      /\ rows' = rows \/ rows' = [rows EXCEPT ![d] = @ \ {row}]
  BY DEF Acknowledge
<1>2. rows \in [Dev -> SUBSET Row] /\ DOMAIN seen = Dev
  BY DEF KeepInv, Inv, Types
<1>3. /\ seen'[d] = seen[d] \union {row.id}
      /\ \A e \in Dev \ {d} : seen'[e] = seen[e] /\ rows'[e] = rows[e]
      /\ rows[d] \ {row} \subseteq rows'[d] /\ rows'[d] \subseteq rows[d]
  <2>1. seen'[d] = seen[d] \union {row.id} /\ \A e \in Dev \ {d} : seen'[e] = seen[e]
    BY <1>1, <1>2
  <2>2. CASE rows' = rows
    BY <2>1, <2>2
  <2>3. CASE rows' = [rows EXCEPT ![d] = @ \ {row}]
    BY <1>2, <2>1, <2>3
  <2> QED
    BY <1>1, <2>2, <2>3
<1>4. \A e \in Dev : \A f : Forgone(e, f) => Forgone(e, f)'
  BY ForgoneLater
<1>5. \A e \in Dev : \A r, other \in rows'[e] : r.id = other.id => r = other
  BY <1>3 DEF KeepInv, Books
<1>6. ASSUME NEW e \in Dev, NEW r \in rows'[e], r.id \in seen'[e], r.frame \in sent
      PROVE  Read(e, r.frame) \/ Forgone(e, r.frame)'
  <2>1. r \in rows[e]
    BY <1>3, <1>6
  <2>2. CASE r.id \in seen[e]
    <3>1. Read(e, r.frame) \/ Forgone(e, r.frame)
      BY <1>6, <2>1, <2>2 DEF KeepInv, Books
    <3> QED
      BY <1>4, <3>1
  <2>3. CASE r.id \notin seen[e]
    <3>1. e = d /\ r.id = row.id
      BY <1>3, <1>6, <2>3
    <3>2. r = row
      BY <2>1, <3>1 DEF KeepInv, Books
    <3> QED
      BY <1>6, <3>1, <3>2
  <2> QED
    BY <2>2, <2>3
<1>7. ASSUME NEW f \in sent
      PROVE  \/ \E r \in rows'[Peer(f.from)] : r.frame = f
             \/ Read(Peer(f.from), f) \/ Forgone(Peer(f.from), f)'
  <2>1. Peer(f.from) \in Dev
    BY Peers DEF KeepInv, Inv, Types, Frame
  <2>2. \/ Read(Peer(f.from), f) \/ Forgone(Peer(f.from), f)
        \/ \E r \in rows[Peer(f.from)] : r.frame = f
    BY DEF KeepInv, NothingLost
  <2>3. CASE Read(Peer(f.from), f) \/ Forgone(Peer(f.from), f)
    BY <1>4, <2>1, <2>3
  <2>4. ASSUME NEW r \in rows[Peer(f.from)], r.frame = f
        PROVE  \/ \E x \in rows'[Peer(f.from)] : x.frame = f
               \/ Read(Peer(f.from), f) \/ Forgone(Peer(f.from), f)'
    <3>1. CASE Peer(f.from) = d /\ r = row
      BY <2>4, <3>1
    <3>2. CASE ~(Peer(f.from) = d /\ r = row)
      <4>1. r \in rows'[Peer(f.from)]
        BY <1>3, <2>1, <3>2
      <4> QED
        BY <2>4, <4>1
    <3> QED
      BY <3>1, <3>2
  <2> QED
    BY <2>2, <2>3, <2>4
<1>8. \A e \in Dev : Released(e)' = Released(e)
  BY DEF Released
<1>9. ASSUME NEW e \in Dev, receiving'[e] # None
      PROVE  receiving'[e] = receiving[e] /\ receiving[e].row \in rows'[e]
  BY <1>3, <1>9 DEF KeepInv, Books
<1>10. /\ \A e \in Dev : \A r \in rows'[e] : r.id \in seen'[e] /\ r.frame \in sent' =>
             Read(e, r.frame) \/ Forgone(e, r.frame)'
       /\ \A f \in sent' : \/ \E r \in rows'[Peer(f.from)] : r.frame = f
                           \/ Read(Peer(f.from), f) \/ Forgone(Peer(f.from), f)'
  BY <1>6, <1>7
<1> QED
  BY <1>5, <1>8, <1>9, <1>10, RowsKeep

LEMMA AckAgainKeep ==
    ASSUME KeepInv, NEW d \in Dev, NEW row \in rows[d], AckAgain(d, row) PROVE KeepInv'
<1>1. /\ QueueFree(d) /\ row.id \in seen[d] /\ Acknowledge(d, row)
      /\ UNCHANGED <<mem, disk, log, sending, sealed, minted, sent>>
      /\ waived' = waived /\ abandoned' = abandoned /\ receiving' = receiving
  BY DEF AckAgain, tasks, history
<1>2. Inv'
  BY AckAgainInv DEF KeepInv
<1>3. receiving'[d] = None
  BY <1>1 DEF QueueFree
<1>4. row.frame \in sent => Read(d, row.frame) \/ Forgone(d, row.frame)
  BY <1>1 DEF KeepInv, Books
<1>5. row.frame \in sent => Read(d, row.frame) \/ Forgone(d, row.frame)'
  BY <1>1, <1>4, ForgoneLater
<1>6. DOMAIN abandoned' = Dev
  BY <1>1 DEF KeepInv
<1> QED
  BY <1>1, <1>2, <1>3, <1>5, <1>6, AckKeep

LEMMA DropKeep ==
    ASSUME KeepInv, NEW d \in Dev, NEW row \in rows[d], Drop(d, row) PROVE KeepInv'
<1> DEFINE f == row.frame
<1>1. /\ QueueFree(d) /\ ~Accepts(d, mem[d], f) /\ Acknowledge(d, row)
      /\ UNCHANGED <<mem, disk, log, sending, sealed, minted, sent>>
      /\ waived' = IF Genuine(f) /\ Excluded(d, mem[d], f) THEN waived \union {f.key} ELSE waived
      /\ abandoned' = abandoned /\ receiving' = receiving
  BY DEF Drop, tasks
<1>2. Inv'
  BY DropInv DEF KeepInv
<1>3. receiving'[d] = None /\ DOMAIN abandoned' = Dev /\ waived \subseteq waived'
  BY <1>1 DEF QueueFree, KeepInv
<1>4. ASSUME f \in sent PROVE Read(d, f) \/ Forgone(d, f)'
  <2>1. f.from = Peer(d) /\ f \in Underway(d)
    BY <1>4 DEF KeepInv, Inv, Queues, Underway
  <2>2. Read(d, f) \/ f.key \in waived \/ Excluded(d, mem[d], f) \/ Accepts(d, mem[d], f)
    BY <2>1, KeepDeliverable DEF Deliverable
  <2>3. f \in Released(Peer(d)) /\ Peer(d) \in Dev
    BY <1>4, <2>1, Peers DEF Released
  <2>4. Genuine(f)
    BY <2>3, FrameFacts DEF Genuine
  <2>5. Read(d, f) \/ f.key \in waived'
    BY <1>1, <2>2, <2>4
  <2> QED
    BY <2>5 DEF Forgone
<1> QED
  BY <1>1, <1>2, <1>3, <1>4, AckKeep

LEMMA RefuseKeep == ASSUME KeepInv, NEW d \in Dev, Refuse(d) PROVE KeepInv'
<1> PICK row : row = receiving[d].row
  OBVIOUS
<1>1. /\ At(d, "apply") /\ Acknowledge(d, row)
      /\ UNCHANGED <<mem, disk, log, sending, sealed, minted, sent>>
      /\ waived' = waived
      /\ abandoned' = [abandoned EXCEPT ![d] = @ \union {row}]
      /\ receiving' = [receiving EXCEPT ![d] = None]
  BY DEF Refuse
<1>2. Inv'
  BY RefuseInv DEF KeepInv
<1>3. receiving \in [Dev -> Receipt \union {None}] /\ DOMAIN abandoned = Dev
  BY DEF KeepInv, Inv, Types
<1>4. receiving'[d] = None /\ \A e \in Dev \ {d} : receiving'[e] = receiving[e]
  BY <1>1, <1>3
<1>5. DOMAIN abandoned' = Dev /\ row \in abandoned'[d]
  BY <1>1, <1>3
<1>6. \A e \in Dev : abandoned[e] \subseteq abandoned'[e]
  <2>1. ASSUME NEW e \in Dev PROVE abandoned[e] \subseteq abandoned'[e]
    <3>1. CASE e = d
      BY <1>1, <1>3, <3>1
    <3>2. CASE e # d
      BY <1>1, <1>3, <3>2
    <3> QED
      BY <3>1, <3>2
  <2> QED
    BY <2>1
<1>7. row \in rows[d]
  BY <1>1 DEF KeepInv, Books, At
<1>8. Forgone(d, row.frame)'
  BY <1>5 DEF Forgone
<1> QED
  BY <1>1, <1>2, <1>4, <1>5, <1>6, <1>7, <1>8, AckKeep

LEMMA FinishKeep == ASSUME KeepInv, NEW d \in Dev, Finish(d) PROVE KeepInv'
<1> PICK row : row = receiving[d].row
  OBVIOUS
<1>1. /\ At(d, "ack") /\ Acknowledge(d, row)
      /\ UNCHANGED <<mem, disk, log, sending, sealed, minted, sent>>
      /\ waived' = waived /\ abandoned' = abandoned
      /\ receiving' = [receiving EXCEPT ![d] = None]
  BY DEF Finish, history
<1>2. Inv'
  BY FinishInv DEF KeepInv
<1>3. receiving \in [Dev -> Receipt \union {None}] /\ DOMAIN abandoned' = Dev
  BY <1>1 DEF KeepInv, Inv, Types
<1>4. receiving'[d] = None /\ \A e \in Dev \ {d} : receiving'[e] = receiving[e]
  BY <1>1, <1>3
<1>5. row \in rows[d] /\ Read(d, row.frame)
  BY <1>1 DEF KeepInv, Books, At
<1> QED
  BY <1>1, <1>2, <1>3, <1>4, <1>5, AckKeep

\* A row that comes: a frame given to the relay, or one of another's.
LEMMA ArriveKeep ==
    ASSUME KeepInv, Inv', NEW d \in Dev, NEW f,
           rows' = [rows EXCEPT ![d] = @ \union {[id |-> nextId, frame |-> f]}],
           UNCHANGED <<mem, disk, log, sending, receiving, seen, minted, waived, abandoned>>,
           \A e \in Dev : Released(e)' = Released(e),
           sent' = sent \/ (sent' = sent \union {f} /\ Peer(f.from) = d)
    PROVE  KeepInv'
<1> PICK new : new = [id |-> nextId, frame |-> f]
  OBVIOUS
<1>1. /\ new.id = nextId /\ new.frame = f
      /\ rows' = [rows EXCEPT ![d] = @ \union {new}]
      /\ rows \in [Dev -> SUBSET Row] /\ nextId \in Nat \ {0}
      /\ \A e \in Dev : seen[e] \subseteq 1 .. nextId - 1
      /\ \A e \in Dev : \A row \in rows[e] : row.id \in 1 .. nextId - 1
  BY DEF KeepInv, Inv, Types
<1>2. /\ \A e \in Dev : seen'[e] = seen[e]
      /\ mem' = mem /\ disk' = disk /\ log' = log /\ sending' = sending /\ minted' = minted
      /\ receiving' = receiving /\ waived' = waived /\ abandoned' = abandoned
      /\ sent \subseteq sent'
  OBVIOUS
<1>3. rows'[d] = rows[d] \union {new} /\ \A e \in Dev \ {d} : rows'[e] = rows[e]
  BY <1>1
<1>4. \A e \in Dev : rows[e] \subseteq rows'[e]
  BY <1>3
<1>5. \A e \in Dev : nextId \notin seen[e] /\ \A row \in rows[e] : row.id # nextId
  <2>1. nextId \notin 1 .. nextId - 1
    BY <1>1
  <2> QED
    BY <1>1, <2>1
<1>6. \A e \in Dev : \A row, other \in rows'[e] : row.id = other.id => row = other
  BY <1>1, <1>3, <1>5 DEF KeepInv, Books
<1>7. ASSUME NEW e \in Dev, NEW row \in rows'[e], row.id \in seen'[e], row.frame \in sent'
      PROVE  Read(e, row.frame) \/ Forgone(e, row.frame)
  <2>1. row \in rows[e] /\ row.id \in seen[e]
    BY <1>1, <1>2, <1>3, <1>5, <1>7
  <2>2. row.frame.from = Peer(e) /\ (row.frame.key = Junk \/ row.frame \in sent)
    BY <2>1 DEF KeepInv, Inv, Queues
  <2>3. Peer(e) \in Dev /\ row.frame \in Released(Peer(e))'
    BY <1>7, <2>2, Peers DEF Released
  <2>4. row.frame \in sent
    BY <2>2, <2>3, FrameFacts
  <2> QED
    BY <2>1, <2>4 DEF KeepInv, Books
<1>8. \A e \in Dev : \A g : Forgone(e, g) => Forgone(e, g)'
  BY <1>2, ForgoneLater
<1>9. ASSUME NEW g \in sent'
      PROVE  \/ \E row \in rows'[Peer(g.from)] : row.frame = g
             \/ Read(Peer(g.from), g) \/ Forgone(Peer(g.from), g)'
  <2>1. CASE g \in sent
    <3>1. Peer(g.from) \in Dev
      BY <2>1, Peers DEF KeepInv, Inv, Types, Frame
    <3>2. \/ Read(Peer(g.from), g) \/ Forgone(Peer(g.from), g)
          \/ \E row \in rows[Peer(g.from)] : row.frame = g
      BY <2>1 DEF KeepInv, NothingLost
    <3> QED
      BY <1>4, <1>8, <3>1, <3>2
  <2>2. CASE g \notin sent
    BY <1>1, <1>3, <1>9, <2>2
  <2> QED
    BY <2>1, <2>2
<1>10. \A e \in Dev : receiving'[e] # None =>
           receiving'[e] = receiving[e] /\ receiving[e].row \in rows'[e]
  BY <1>2, <1>4 DEF KeepInv, Books
<1>11. DOMAIN abandoned' = Dev
  BY <1>2 DEF KeepInv
<1>12. \A e \in Dev : \A row \in rows'[e] : row.id \in seen'[e] /\ row.frame \in sent' =>
           Read(e, row.frame) \/ Forgone(e, row.frame)'
  BY <1>7, <1>8
<1> QED
  BY <1>2, <1>6, <1>9, <1>10, <1>11, <1>12, RowsKeep

LEMMA WireKeep ==
    ASSUME KeepInv, NEW d \in Dev, NEW f \in sealed[d], Wire(d, f) PROVE KeepInv'
<1>1. /\ sealed' = [sealed EXCEPT ![d] = @ \ {f}] /\ sent' = sent \union {f}
      /\ rows' = [rows EXCEPT ![Peer(d)] = @ \union {[id |-> nextId, frame |-> f]}]
      /\ UNCHANGED <<mem, disk, log, sending, receiving, seen, minted, waived, abandoned>>
  BY DEF Wire, tasks
<1>2. Inv'
  BY WireInv DEF KeepInv
<1>3. sealed \in [Dev -> SUBSET Frame] /\ Peer(d) \in Dev
  BY Peers DEF KeepInv, Inv, Types
<1>4. f \in Released(d) /\ f.from = d
  BY FrameFacts DEF Released
<1>5. Peer(f.from) = Peer(d)
  BY <1>4
<1>6. ASSUME NEW e \in Dev PROVE Released(e)' = Released(e)
  <2>1. CASE e = d
    <3>1. sealed'[d] = sealed[d] \ {f}
      BY <1>1, <1>3
    <3> QED
      BY <1>1, <1>4, <2>1, <3>1 DEF Released
  <2>2. CASE e # d
    <3>1. sealed'[e] = sealed[e]
      BY <1>1, <1>3, <2>2
    <3> QED
      BY <1>1, <1>4, <2>2, <3>1 DEF Released
  <2> QED
    BY <2>1, <2>2
<1> QED
  BY <1>1, <1>2, <1>3, <1>5, <1>6, ArriveKeep

LEMMA ForeignKeep ==
    ASSUME KeepInv, Inv', NEW d \in Dev, NEW f, Arrive(d, f) PROVE KeepInv'
<1>1. /\ rows' = [rows EXCEPT ![d] = @ \union {[id |-> nextId, frame |-> f]}]
      /\ UNCHANGED <<mem, disk, log, sending, receiving, seen, minted, waived, abandoned>>
      /\ sent' = sent /\ sealed' = sealed
  BY DEF Arrive, tasks, history
<1>2. \A e \in Dev : Released(e)' = Released(e)
  BY <1>1 DEF Released
<1> QED
  BY <1>1, <1>2, ArriveKeep

LEMMA CopyKeep == ASSUME KeepInv, NEW d \in Dev, NEW f \in sent, Copy(d, f) PROVE KeepInv'
<1>1. Inv'
  BY CopyInv DEF KeepInv
<1> QED
  BY <1>1, ForeignKeep DEF Copy

LEMMA DamageKeep ==
    ASSUME KeepInv, NEW d \in Dev, NEW f \in Damaged(d), Damage(d, f) PROVE KeepInv'
<1>1. Inv'
  BY DamageInv DEF KeepInv
<1> QED
  BY <1>1, ForeignKeep DEF Damage

-----------------------------------------------------------------------------
(* A send is saved.                                                          *)

\* The frame it gives out is the last of its line.
LEMMA LastInLine ==
    ASSUME KeepInv, NEW d \in Dev, sending[d] # None
    PROVE  LET h == sending[d]
               s == mem[d]
           IN  /\ h.from = d /\ Made(d, h) /\ h.key.root[1] = s.secret /\ Behind(h, s)
               /\ Numbered(h.key.root[1])
               /\ InLine(h, h) /\ \A f \in Released(d) : InLine(f, h) /\ InLine(h, f)
               /\ h.x3dh = None => ~s.pending
<1> DEFINE h == sending[d]
           s == mem[d]
           r == s.ratchet
           n == Len(r.RK)
<1>1. s # None /\ LastSealed(d, h, s)
  BY DEF KeepInv, Lines
<1>2. /\ Shape(d, s) /\ Numbered(s.secret) /\ n \in Nat /\ r.RK[1] = s.secret /\ s.secret \in Key
      /\ r.Ns \in Nat /\ s.pending \in BOOLEAN
  BY <1>1, LiveFacts
<1>3. ASSUME NEW f \in Released(d)
      PROVE  Behind(f, s) /\ Len(f.key.root) \in Nat
  BY <1>3, FrameFacts
<1> HIDE DEF h, s
<1>4. /\ h.from = d /\ h.dh = r.DHs /\ h.pn = r.PN /\ h.n = r.Ns - 1
      /\ h.key = [root |-> r.RK, i |-> r.Ns - 1]
      /\ h.x3dh = IF s.pending THEN s.secret ELSE None
  BY <1>1 DEF LastSealed
<1>5. h.key.root = r.RK /\ h.key.i = h.n
  BY <1>4
<1>6. h.x3dh = None => ~s.pending
  BY <1>2, <1>4, Symbols
<1>7. Made(d, h)
  <2>1. h.key.i = h.n /\ h.dh \in Last(h.key.root) /\ h.dh[2] > 0
    BY <1>2, <1>4, <1>5 DEF Shape
  <2>2. ASSUME h.x3dh # None
        PROVE  h.key.root = MixRoot(<<h.x3dh>>, h.dh, SPK(Peer(d))) /\ h.pn = 0
    BY <1>2, <1>4, <1>5, <2>2 DEF Shape
  <2> QED
    BY <2>1, <2>2 DEF Made
<1> HIDE DEF n
<1>8. Behind(h, s) /\ InLine(h, h)
  <2>1. Len(h.key.root) = n /\ n <= n /\ ~(n + 2 = n)
    BY <1>2, <1>5 DEF n
  <2> QED
    BY <1>4, <1>5, <2>1 DEF Behind, InLine, n
<1>9. ASSUME NEW f \in Released(d) PROVE InLine(f, h) /\ InLine(h, f)
  <2> DEFINE m == Len(f.key.root)
  <2>1. Behind(f, s) /\ m \in Nat
    BY <1>3
  <2>2. h.key.root[1] = s.secret /\ Len(h.key.root) = n
    BY <1>2, <1>5 DEF n
  <2>3. /\ f.dh = h.dh <=> f.key.root = h.key.root
        /\ f.key.root = h.key.root => f.pn = h.pn
        /\ f.key.root[1] = s.secret =>
              /\ m <= n
              /\ m = n => f.key.root = h.key.root
              /\ m + 2 = n => f.n < h.pn
    BY <1>4, <1>5, <2>1 DEF Behind, n
  <2> HIDE DEF m
  <2>4. m <= n => ~(n + 2 = m)
    BY <1>2, <2>1
  <2> QED
    BY <2>2, <2>3, <2>4 DEF InLine, m
<1> QED
  BY <1>2, <1>4, <1>5, <1>6, <1>7, <1>8, <1>9 DEF h, s

\* It is ahead of all that the peer has heard.
LEMMA LastUnheard ==
    ASSUME KeepInv, NEW d \in Dev, sending[d] # None, mem[Peer(d)] # None
    PROVE  Placed(sending[d], mem[Peer(d)]) /\ ~Passed(sending[d], mem[Peer(d)])
<1> DEFINE h == sending[d]
           s == mem[d]
           e == Peer(d)
           p == mem[e]
           n == Len(s.ratchet.RK)
           m == Len(p.ratchet.RK)
           k == Len(p.ratchet.CKr.root)
<1>1. s # None /\ LastSealed(d, h, s) /\ e \in Dev /\ Peer(e) = d
  BY Peers DEF KeepInv, Lines
<1>2. /\ n \in Nat /\ s.ratchet.RK \in Root /\ s.ratchet.RK[1] = s.secret /\ s.ratchet.Ns \in Nat
      /\ s.ratchet.DHs \in Part /\ Fit(d, minted[d], s)
  BY <1>1, LiveFacts
<1>3. /\ m \in Nat /\ p.ratchet.RK \in Root /\ p.ratchet.DHs \in Part
      /\ ~p.pending => k \in Nat /\ m = k + 1 /\ p.ratchet.DHr \in Part
      /\ Grounded(e, p) /\ p.ratchet.Nr \in Nat
  BY <1>1, LiveFacts
<1>4. s.secret = p.secret => Follows(s, p) \/ Follows(p, s)
  BY <1>1 DEF KeepInv, Met
<1>5. /\ \A f \in Released(d) : Past(s, f.key) /\ f.key # h.key
  BY <1>1, Facts DEF KeepInv, Inv, Ahead
<1> HIDE DEF h, s, p, e
<1>6. h.key.root = s.ratchet.RK /\ h.dh = s.ratchet.DHs /\ h.n = s.ratchet.Ns - 1
      /\ h.key = [root |-> s.ratchet.RK, i |-> s.ratchet.Ns - 1]
  BY <1>1 DEF LastSealed
<1>7. CASE s.secret # p.secret
  BY <1>2, <1>6, <1>7 DEF Placed, Passed, h, p, e
<1>8. CASE s.secret = p.secret /\ Follows(s, p)
  <2>1. s.ratchet.RK = MixRoot(p.ratchet.RK, p.ratchet.DHs, s.ratchet.DHs)
    BY <1>8 DEF Follows
  <2>2. n = m + 1
    BY <1>2, <1>3, <2>1, Mixing
  <2>3. Placed(h, p)
    <3>1. n <= m + 1 /\ ~(n + 1 = m)
      <4> HIDE DEF n, m
      <4> QED
        BY <1>3, <2>2
    <3> QED
      BY <1>6, <2>1, <3>1 DEF Placed
  <2>4. ~Passed(h, p)
    <3>1. ~p.pending => n # k /\ ~(n < k)
      <4> HIDE DEF n, m, k
      <4> QED
        BY <1>3, <2>2
    <3> QED
      BY <1>6, <3>1 DEF Passed
  <2> QED
    BY <2>3, <2>4 DEF h, p, e
<1>9. CASE s.secret = p.secret /\ Follows(p, s)
  <2>1. /\ p.ratchet.CKr # None /\ p.ratchet.CKr.root = s.ratchet.RK
        /\ p.ratchet.RK = MixRoot(s.ratchet.RK, s.ratchet.DHs, p.ratchet.DHs)
    BY <1>9 DEF Follows
  <2>2. m = n + 1
    BY <1>2, <1>3, <2>1, Mixing
  <2>3. Placed(h, p)
    <3>1. n <= m + 1 /\ ~(n = m + 1)
      <4> HIDE DEF n, m
      <4> QED
        BY <1>2, <2>2
    <3> QED
      BY <1>6, <2>1, <3>1 DEF Placed
  <2>4. ASSUME Passed(h, p) PROVE FALSE
    <3>1. ~p.pending /\ (h.n < p.ratchet.Nr \/ n < k)
      BY <1>6, <2>4 DEF Passed
    <3>2. k = n
      BY <2>1
    <3>3. h.n < p.ratchet.Nr
      <4> HIDE DEF n, k
      <4> QED
        BY <1>2, <3>1, <3>2
    <3>4. PICK w \in sent : /\ w.from = d /\ w.key.root = p.ratchet.CKr.root
                            /\ w.n + 1 = p.ratchet.Nr
      BY <1>1, <1>3, <3>1 DEF Grounded
    <3>5. w \in Released(d)
      BY <3>4 DEF Released
    <3>6. w.key \in ChainKey /\ w.n \in Nat /\ Made(d, w)
      BY <3>5, FrameFacts
    <3>7. w.key = [root |-> s.ratchet.RK, i |-> w.n]
      BY <2>1, <3>4, <3>6 DEF Made, ChainKey
    <3>8. w.key.i < s.ratchet.CKs.i /\ s.ratchet.CKs.i = s.ratchet.Ns
      BY <1>2, <1>5, <3>5, <3>7 DEF Past, Fit
    <3>9. w.key.i = w.n
      BY <3>7
    <3>10. w.n = s.ratchet.Ns - 1
      BY <1>2, <1>6, <3>3, <3>4, <3>6, <3>8, <3>9
    <3> QED
      BY <1>5, <1>6, <3>5, <3>7, <3>10
  <2> QED
    BY <2>3, <2>4 DEF h, p, e
<1> QED
  BY <1>4, <1>7, <1>8, <1>9

LEMMA SendSavedKeep == ASSUME KeepInv, NEW d \in Dev, SendSaved(d) PROVE KeepInv'
<1> PICK h, s, e : h = sending[d] /\ s = mem[d] /\ e = Peer(d)
  OBVIOUS
<1>1. /\ h # None
      /\ disk' = [disk EXCEPT ![d] = mem[d]]
      /\ sealed' = [sealed EXCEPT ![d] = IF fenced[d] = None THEN @ \union {h} ELSE @]
      /\ sending' = [sending EXCEPT ![d] = None]
      /\ mem' = mem /\ log' = log /\ receiving' = receiving /\ rows' = rows /\ seen' = seen
      /\ minted' = minted /\ sent' = sent /\ waived' = waived /\ abandoned' = abandoned
  BY DEF SendSaved, history
<1>2. Inv'
  BY SendSavedInv DEF KeepInv
<1>3. /\ disk \in [Dev -> Session \union {None}] /\ sending \in [Dev -> Frame \union {None}]
      /\ sealed \in [Dev -> SUBSET Frame]
      /\ receiving[d] = None
  BY <1>1 DEF KeepInv, Inv, Types
<1>4. e \in Dev /\ e # d /\ Dev = {d, e} /\ Peer(e) = d
  BY Peers DEF Dev
<1>5. /\ disk'[d] = s /\ disk'[e] = disk[e] /\ sending'[d] = None /\ sending'[e] = sending[e]
      /\ sealed'[d] \subseteq sealed[d] \union {h} /\ sealed'[e] = sealed[e]
  BY <1>1, <1>3, <1>4
<1>6. Released(d)' \subseteq Released(d) \union {h} /\ Released(e)' = Released(e)
  BY <1>1, <1>5 DEF Released
<1>7. /\ s # None /\ h.from = d /\ Made(d, h) /\ h.key.root[1] = s.secret /\ Behind(h, s)
      /\ Numbered(h.key.root[1])
      /\ InLine(h, h) /\ \A f \in Released(d) : InLine(f, h) /\ InLine(h, f)
      /\ h.x3dh = None => ~s.pending
  <2>1. s # None
    BY <1>1 DEF KeepInv, Lines
  <2> QED
    BY <1>1, <2>1, LastInLine
<1>8. disk[d] # None => s.secret = disk[d].secret /\ s.pending = disk[d].pending
  BY <1>7 DEF KeepInv, Saved, Alike
<1>9. \A c \in Dev : \A f : Read(c, f) => Read(c, f)'
  BY <1>1, LogKept
<1>10. Saved'
  BY <1>1, <1>4, <1>5, <1>7, AlikeSelf DEF KeepInv, Saved
<1>11. Shapes'
  BY <1>1 DEF KeepInv, Shapes, Numbered
<1>12. Lines'
  <2>1. ASSUME NEW c \in Dev, NEW f \in Released(c)'
        PROVE  Made(c, f) /\ Numbered(f.key.root[1])' /\ mem'[c] # None /\ Behind(f, mem'[c])
    <3>1. CASE f \in Released(c)
      <4>1. Made(c, f) /\ Numbered(f.key.root[1]) /\ mem[c] # None /\ Behind(f, mem[c])
        BY <3>1 DEF KeepInv, Lines
      <4> QED
        BY <1>1, <4>1 DEF Numbered
    <3>2. CASE f \notin Released(c)
      <4>1. c = d /\ f = h
        BY <1>4, <1>6, <2>1, <3>2
      <4> QED
        BY <1>1, <1>7, <4>1 DEF Numbered
    <3> QED
      BY <3>1, <3>2
  <2>2. ASSUME NEW c \in Dev, NEW f \in Released(c)', NEW g \in Released(c)' PROVE InLine(f, g)
    <3>1. CASE c = d
      BY <1>6, <1>7, <2>2, <3>1 DEF KeepInv, Lines
    <3>2. CASE c = e
      BY <1>6, <2>2, <3>2 DEF KeepInv, Lines
    <3> QED
      BY <1>4, <3>1, <3>2
  <2>3. ASSUME NEW c \in Dev, sending'[c] # None
        PROVE  mem'[c] # None /\ LastSealed(c, sending'[c], mem'[c])
    BY <1>1, <1>4, <1>5, <2>3 DEF KeepInv, Lines
  <2> QED
    BY <2>1, <2>2, <2>3 DEF Lines
<1>13. Secrets'
  <2>1. ASSUME NEW f \in Released(d)'
        PROVE  /\ f.key.root[1] = s.secret \/ (d = High /\ ~s.pending /\ f.x3dh # None)
               /\ f.x3dh = None => disk[e] # None /\ disk[e].secret = f.key.root[1]
    <3>1. CASE f \in Released(d)
      BY <1>4, <1>8, <3>1 DEF KeepInv, Secrets
    <3>2. CASE f \notin Released(d)
      <4>1. f = h
        BY <1>6, <2>1, <3>2
      <4>2. h.x3dh = None => disk[e] # None /\ disk[e].secret = s.secret
        BY <1>7 DEF KeepInv, Converged
      <4> QED
        BY <1>7, <4>1, <4>2
    <3> QED
      BY <3>1, <3>2
  <2>2. ASSUME NEW f \in Released(e)'
        PROVE  /\ disk[e] # None
               /\ \/ f.key.root[1] = disk[e].secret
                  \/ e = High /\ ~disk[e].pending /\ f.x3dh # None
               /\ f.x3dh = None => s.secret = f.key.root[1]
    <3>1. f \in Released(e)
      BY <1>6, <2>2
    <3>2. /\ disk[e] # None
          /\ \/ f.key.root[1] = disk[e].secret
             \/ e = High /\ ~disk[e].pending /\ f.x3dh # None
          /\ f.x3dh = None => disk[d] # None /\ disk[d].secret = f.key.root[1]
      BY <1>4, <3>1 DEF KeepInv, Secrets
    <3> QED
      BY <1>8, <3>2
  <2>3. ASSUME NEW c \in Dev, NEW f \in Released(c)'
        PROVE  /\ disk'[c] # None
               /\ \/ f.key.root[1] = disk'[c].secret
                  \/ c = High /\ ~disk'[c].pending /\ f.x3dh # None
               /\ f.x3dh = None => disk'[Peer(c)] # None /\ disk'[Peer(c)].secret = f.key.root[1]
    <3>1. CASE c = d
      BY <1>4, <1>5, <1>7, <2>1, <2>3, <3>1
    <3>2. CASE c = e
      BY <1>4, <1>5, <1>7, <2>2, <2>3, <3>2
    <3> QED
      BY <1>4, <3>1, <3>2
  <2> QED
    BY <2>3 DEF Secrets
<1>14. Converged'
  <2> SUFFICES ASSUME NEW c \in Dev, NEW t \in {mem'[c], disk'[c]} \ {None}, ~t.pending
               PROVE  disk'[Peer(c)] # None /\ disk'[Peer(c)].secret = t.secret
    BY DEF Converged
  <2>1. CASE c = d
    <3>1. t = mem[d]
      BY <1>1, <1>5, <2>1
    <3> QED
      BY <1>4, <1>5, <2>1, <3>1 DEF KeepInv, Converged
  <2>2. CASE c = e
    <3>1. t \in {mem[e], disk[e]} \ {None}
      BY <1>1, <1>5, <2>2
    <3>2. disk[d] # None /\ disk[d].secret = t.secret
      BY <1>4, <3>1 DEF KeepInv, Converged
    <3> QED
      BY <1>4, <1>5, <1>7, <1>8, <2>2, <3>2
  <2> QED
    BY <1>4, <2>1, <2>2
<1>15. Met'
  BY <1>1 DEF KeepInv, Met
<1>16. Heard'
  <2> SUFFICES ASSUME NEW c \in Dev, mem'[c] # None
               PROVE  /\ Grounded(c, mem[c])'
                      /\ \A f \in Released(Peer(c))' :
                            /\ Placed(f, mem'[c])
                            /\ Passed(f, mem'[c]) =>
                                  Read(c, f)' \/ f.key \in waived' \/ Cached(f, mem'[c])
    BY DEF Heard
  <2>1. mem[c] # None /\ Grounded(c, mem[c])
    BY <1>1 DEF KeepInv, Heard
  <2>2. Grounded(c, mem[c])'
    BY <1>1, <2>1 DEF Grounded
  <2>3. ASSUME NEW f \in Released(Peer(c))'
        PROVE  /\ Placed(f, mem[c])
               /\ Passed(f, mem[c]) => Read(c, f) \/ f.key \in waived \/ Cached(f, mem[c])
    <3>1. CASE f \in Released(Peer(c))
      BY <2>1, <3>1 DEF KeepInv, Heard
    <3>2. CASE f \notin Released(Peer(c))
      <4>1. c = e /\ f = h
        BY <1>4, <1>6, <2>3, <3>2
      <4> QED
        BY <1>1, <2>1, <4>1, LastUnheard
    <3> QED
      BY <3>1, <3>2
  <2> QED
    BY <1>1, <1>9, <2>2, <2>3
<1>17. Drafted'
  <2>1. ASSUME NEW c \in Dev, At(c, "apply")' \/ At(c, "commit")'
        PROVE  /\ At(c, "apply") \/ At(c, "commit")
               /\ receiving'[c].row = receiving[c].row /\ receiving'[c].cand = receiving[c].cand
               /\ mem'[c] = mem[c] /\ minted'[c] = minted[c]
               /\ Released(c)' \subseteq Released(c)
    <3>1. receiving'[c] = receiving[c] /\ receiving[c] # None
      BY <1>1, <2>1 DEF At
    <3>2. c = e
      BY <1>3, <1>4, <3>1
    <3> QED
      BY <1>1, <1>6, <2>1, <3>1, <3>2 DEF At
  <2> QED
    BY <2>1, DraftKept
<1>18. Books' /\ NothingLost'
  <2>1. ASSUME NEW c \in Dev, receiving'[c] # None
        PROVE  /\ receiving'[c].row \in rows[c]
               /\ At(c, "commit")' \/ At(c, "ack")' => Read(c, receiving[c].row.frame)'
    BY <1>1, <2>1 DEF KeepInv, Books, At, Read, Logged
  <2> QED
    BY <1>1, <1>9, <2>1, BooksKept
<1> QED
  BY <1>1, <1>2, <1>10, <1>11, <1>12, <1>13, <1>14, <1>15, <1>16, <1>17, <1>18 DEF KeepInv

-----------------------------------------------------------------------------
(* A message is sealed.                                                      *)

LEMMA SealedLast ==
    ASSUME NEW d \in Dev, NEW m \in Nat, NEW s \in Session, Fit(d, m, s)
    PROVE  LET t == [s EXCEPT !.ratchet = AfterEncrypt(s.ratchet)]
           IN  Alike(s, t) /\ LastSealed(d, FrameOf(d, s), t)
<1> DEFINE r == s.ratchet
           q == AfterEncrypt(r)
           t == [s EXCEPT !.ratchet = q]
           f == FrameOf(d, s)
<1>1. r \in RatchetState /\ r.CKs \in ChainKey /\ r.Ns \in Nat
      /\ r.CKs.root = r.RK /\ r.CKs.i = r.Ns
  BY DEF Session, RatchetState, Fit
<1>2. /\ q.DHs = r.DHs /\ q.DHr = r.DHr /\ q.RK = r.RK /\ q.CKr = r.CKr /\ q.Nr = r.Nr
      /\ q.PN = r.PN /\ q.skipped = r.skipped /\ q.Ns = r.Ns + 1
  BY <1>1 DEF AfterEncrypt, RatchetState
<1>3. t.secret = s.secret /\ t.pending = s.pending /\ t.ratchet = q
  BY DEF Session
<1>4. /\ f.from = d /\ f.x3dh = IF s.pending THEN s.secret ELSE None
      /\ f.dh = r.DHs /\ f.pn = r.PN /\ f.n = r.Ns /\ f.key = r.CKs
  BY DEF FrameOf
<1>5. r.CKs = [root |-> r.RK, i |-> r.Ns]
  BY <1>1 DEF ChainKey
<1> HIDE DEF q, t, f, r
<1>6. q.Ns > 0 /\ q.Ns - 1 = r.Ns
  BY <1>1, <1>2
<1>7. Alike(s, t)
  BY <1>2, <1>3 DEF Alike, r
<1>8. LastSealed(d, f, t)
  BY <1>2, <1>3, <1>4, <1>5, <1>6 DEF LastSealed
<1> QED
  BY <1>7, <1>8 DEF t, q, f, r

\* A session that is begun is in shape.
LEMMA BegunShape ==
    ASSUME KeepInv, NEW d \in Dev
    PROVE  LET s == Initiated(d)
           IN  /\ Shape(d, s) /\ s.pending /\ s.secret = KeyOf(d) /\ Grounded(d, s)
               /\ \A f : ~Passed(f, s)
<1> DEFINE s == Initiated(d)
           k == KeyOf(d)
           w == SPK(Peer(d))
           r == InitInitiator(k, k, w)
           rk == MixRoot(<<k>>, k, w)
<1>1. k = <<d, minted[d] + 1>> /\ k \in Key /\ k \in Part /\ w \in Part /\ minted[d] \in Nat
  BY Facts, Symbols, Peers DEF KeepInv, SPK, Key
<1>2. s.secret = k /\ s.pending = TRUE /\ s.ratchet = r
  BY DEF Initiated
<1>3. /\ r.DHs = k /\ r.DHr = w /\ r.RK = rk /\ r.CKr = None /\ r.Nr = 0 /\ r.PN = 0
      /\ r.skipped = <<>>
  BY DEF InitInitiator
<1>4. <<k>> \in Root /\ Len(<<k>>) = 1 /\ <<k>>[1] = k
  BY <1>1 DEF Root
<1>5. Len(<<k>>) > 0
  BY <1>4
<1> HIDE DEF k, w, rk
<1>6. rk[1] = k /\ Last(rk) = {k, w}
  BY <1>1, <1>4, <1>5, Mixing DEF rk
<1>7. k[2] > 0
  BY <1>1
<1>8. Held(<<>>) = {} /\ Sorted(<<>>)
  BY DEF Held, Sorted
<1> HIDE DEF s, r
<1>9. Neat(r)
  BY <1>3, <1>8 DEF Neat
<1>10. Shape(d, s)
  <2>1. s.ratchet.RK[1] = s.secret /\ s.ratchet.DHs \in Last(s.ratchet.RK) /\ s.ratchet.DHs[2] > 0
    BY <1>2, <1>3, <1>6, <1>7
  <2>2. s.ratchet.RK = MixRoot(<<s.secret>>, s.ratchet.DHs, s.ratchet.DHr)
    BY <1>2, <1>3 DEF rk
  <2> QED
    BY <1>2, <1>3, <1>8, <1>9, <2>1, <2>2 DEF Shape, w
<1>11. Grounded(d, s)
  BY <1>2, <1>3, <1>8 DEF Grounded
<1>12. \A f : ~Passed(f, s)
  BY <1>2 DEF Passed
<1> QED
  BY <1>2, <1>10, <1>11, <1>12 DEF s, k

LEMMA EncryptKeep == ASSUME KeepInv, NEW d \in Dev, Encrypt(d) PROVE KeepInv'
<1> PICK s, n, h, t :
       /\ s = SendingSession(d) /\ n = (IF mem[d] = None THEN minted[d] + 1 ELSE minted[d])
       /\ h = FrameOf(d, s) /\ t = [s EXCEPT !.ratchet = AfterEncrypt(s.ratchet)]
  OBVIOUS
<1> PICK e : e = Peer(d)
  OBVIOUS
<1>1. /\ mem' = [mem EXCEPT ![d] = t] /\ sending' = [sending EXCEPT ![d] = h]
      /\ minted' = [minted EXCEPT ![d] = n]
      /\ sending[d] = None /\ receiving[d] = None
      /\ disk' = disk /\ log' = log /\ receiving' = receiving /\ sealed' = sealed
      /\ rows' = rows /\ seen' = seen /\ sent' = sent /\ waived' = waived
      /\ abandoned' = abandoned
  BY DEF Encrypt, QueueFree, history
<1>2. Inv'
  BY EncryptInv DEF KeepInv
<1>3. /\ mem \in [Dev -> Session \union {None}] /\ sending \in [Dev -> Frame \union {None}]
      /\ minted \in [Dev -> Nat] /\ minted' \in [Dev -> Nat]
  BY <1>2 DEF KeepInv, Inv, Types
<1>4. e \in Dev /\ e # d /\ Dev = {d, e} /\ Peer(e) = d
  BY Peers DEF Dev
<1>5. /\ mem'[d] = t /\ mem'[e] = mem[e] /\ sending'[d] = h /\ sending'[e] = sending[e]
      /\ minted'[d] = n /\ minted'[e] = minted[e]
  BY <1>1, <1>3, <1>4
<1>6. n \in Nat /\ minted[d] <= n
  BY <1>3
<1>7. \A c \in Dev : minted[c] <= minted'[c]
  BY <1>3, <1>4, <1>5, <1>6
<1>8. s \in Session /\ Fit(d, n, s)
  BY <1>6, Sealed DEF KeepInv
<1>9. Alike(s, t) /\ LastSealed(d, h, t)
  BY <1>6, <1>8, SealedLast
<1>10. t # None
  BY <1>6, <1>8, Sealing, Symbols
<1>11. \A c \in Dev : Released(c)' = Released(c)
  BY <1>1 DEF Released
<1>12. \A c \in Dev : \A f : Read(c, f) => Read(c, f)'
  BY <1>1, LogKept
<1>13. \A c \in Dev : sending'[c] # None => mem'[c] # None /\ LastSealed(c, sending'[c], mem'[c])
  BY <1>4, <1>5, <1>9, <1>10 DEF KeepInv, Lines
<1>14. Saved' /\ Shapes' /\ Lines' /\ Secrets' /\ Converged' /\ Met' /\ Heard'
  <2>1. CASE mem[d] # None
    <3>1. s = mem[d]
      BY <2>1 DEF SendingSession
    <3>2. \A c \in Dev : IF mem'[c] = None THEN disk[c] = None
                         ELSE mem[c] # None /\ Alike(mem[c], mem'[c])
      BY <1>4, <1>5, <1>9, <1>10, <2>1, <3>1, AlikeSelf DEF KeepInv, Saved
    <3> QED
      BY <1>1, <1>2, <1>7, <1>11, <1>12, <1>13, <3>2, Quiet
  <2>2. CASE mem[d] = None
    <3> PICK k : k = KeyOf(d)
      OBVIOUS
    <3>1. s = Initiated(d) /\ n = minted[d] + 1
      BY <2>2 DEF SendingSession
    <3>2. k = <<d, minted[d] + 1>> /\ k \in Key /\ minted[d] \in Nat
      BY Facts DEF KeepInv
    <3>3. disk[d] = None /\ Released(d) = {}
      BY <2>2 DEF KeepInv, Saved, Secrets
    <3>4. /\ Shape(d, t) /\ t.pending /\ t.secret = k /\ Grounded(d, t)
          /\ \A f : ~Passed(f, t)
      <4>1. Shape(d, s) /\ s.pending /\ s.secret = k /\ Grounded(d, s) /\ \A f : ~Passed(f, s)
        BY <3>1, BegunShape
      <4>2. t.pending /\ t.secret = k
        BY <1>9, <4>1 DEF Alike
      <4> QED
        BY <1>9, <4>1, <4>2, AlikeAll
    <3>5. ~Numbered(k)
      BY <3>2 DEF Numbered
    <3>6. Numbered(k)'
      <4>1. k[1] = d /\ k[2] = minted'[d]
        BY <1>5, <3>1, <3>2
      <4> QED
        BY <1>3, <4>1 DEF Numbered
    <3>7. Saved'
      BY <1>1, <1>4, <1>5, <1>10, <3>3, <3>4 DEF KeepInv, Saved
    <3>8. Shapes'
      <4>1. ASSUME mem[e] # None PROVE Shape(e, mem[e]) /\ Numbered(mem[e].secret)'
        <5> PICK x : x = mem[e].secret
          OBVIOUS
        <5>1. Shape(e, mem[e]) /\ Numbered(x) /\ x \in Key
          BY <1>4, <4>1, LiveFacts
        <5>2. Numbered(x)'
          BY <1>3, <1>7, <5>1, NumberedLater
        <5>3. mem'[e].secret = x
          BY <1>5
        <5> QED
          BY <5>1, <5>2, <5>3 DEF Numbered
      <4>2. Numbered(mem[d].secret)'
        BY <1>5, <3>4, <3>6 DEF Numbered
      <4> QED
        BY <1>4, <1>5, <3>4, <4>1, <4>2 DEF Shapes
    <3>9. Lines'
      <4>1. ASSUME NEW c \in Dev, NEW f \in Released(c)'
            PROVE  Made(c, f) /\ Numbered(f.key.root[1])' /\ mem'[c] # None /\ Behind(f, mem'[c])
        <5>1. c = e /\ f \in Released(e)
          BY <1>4, <1>11, <3>3, <4>1
        <5>2. Made(e, f) /\ Numbered(f.key.root[1]) /\ f.key.root[1] \in Key
              /\ mem[e] # None /\ Behind(f, mem[e])
          BY <1>4, <5>1, FrameFacts
        <5>3. Numbered(f.key.root[1])'
          BY <1>3, <1>7, <5>2, NumberedLater
        <5> QED
          BY <1>5, <5>1, <5>2, <5>3
      <4>2. \A c \in Dev : \A f, g \in Released(c)' : InLine(f, g)
        BY <1>11 DEF KeepInv, Lines
      <4> QED
        BY <1>13, <4>1, <4>2 DEF Lines
    <3>10. Secrets'
      BY <1>1, <1>11 DEF KeepInv, Secrets
    <3>11. Converged'
      <4> SUFFICES ASSUME NEW c \in Dev, NEW x \in {mem'[c], disk[c]} \ {None}, ~x.pending
                   PROVE  disk[Peer(c)] # None /\ disk[Peer(c)].secret = x.secret
        BY <1>1 DEF Converged
      <4>1. x \in {mem[c], disk[c]} \ {None}
        BY <1>4, <1>5, <3>4
      <4> QED
        BY <4>1 DEF KeepInv, Converged
    <3>12. Met'
      <4>1. mem[e] # None => mem[e].secret # k
        BY <1>4, <3>5, LiveFacts
      <4>2. \A c \in Dev : mem'[c] # None /\ mem'[Peer(c)] # None =>
               mem'[c].secret # mem'[Peer(c)].secret
        <5>1. mem'[e] # None => mem'[d].secret # mem'[e].secret
          BY <1>5, <3>4, <4>1
        <5> QED
          BY <1>4, <5>1
      <4> QED
        BY <4>2 DEF Met
    <3>13. Heard'
      <4> SUFFICES ASSUME NEW c \in Dev, mem'[c] # None
                   PROVE  /\ Grounded(c, mem[c])'
                          /\ \A f \in Released(Peer(c)) :
                                /\ Placed(f, mem'[c])
                                /\ Passed(f, mem'[c]) =>
                                      Read(c, f)' \/ f.key \in waived \/ Cached(f, mem'[c])
        BY <1>1, <1>4, <1>11 DEF Heard
      <4>1. CASE c = d
        <5>1. Grounded(d, mem[d])'
          BY <1>1, <1>5, <3>4 DEF Grounded
        <5>2. ASSUME NEW f \in Released(e) PROVE Placed(f, t)
          <6>1. f.key.root[1] # k
            BY <1>4, <3>5, FrameFacts
          <6> QED
            BY <3>4, <6>1 DEF Placed
        <5> QED
          BY <1>4, <1>5, <3>4, <4>1, <5>1, <5>2
      <4>2. CASE c = e
        <5>1. mem[e] # None /\ Grounded(e, mem[e])
          BY <1>4, <1>5, <4>2 DEF KeepInv, Heard
        <5>2. Grounded(e, mem[e])'
          BY <1>1, <1>5, <5>1 DEF Grounded
        <5> QED
          BY <1>4, <3>3, <4>2, <5>2
      <4> QED
        BY <1>4, <4>1, <4>2
    <3> QED
      BY <3>7, <3>8, <3>9, <3>10, <3>11, <3>12, <3>13
  <2> QED
    BY <2>1, <2>2
<1>15. Drafted'
  <2>1. ASSUME NEW c \in Dev, At(c, "apply")' \/ At(c, "commit")'
        PROVE  /\ At(c, "apply") \/ At(c, "commit")
               /\ receiving'[c].row = receiving[c].row /\ receiving'[c].cand = receiving[c].cand
               /\ mem'[c] = mem[c] /\ minted'[c] = minted[c]
               /\ Released(c)' \subseteq Released(c)
    <3>1. receiving'[c] = receiving[c] /\ receiving[c] # None
      BY <1>1, <2>1 DEF At
    <3>2. c = e
      BY <1>1, <1>4, <3>1
    <3> QED
      BY <1>5, <1>11, <2>1, <3>1, <3>2 DEF At
  <2> QED
    BY <2>1, DraftKept
<1>16. Books' /\ NothingLost'
  <2>1. ASSUME NEW c \in Dev, receiving'[c] # None
        PROVE  /\ receiving'[c].row \in rows[c]
               /\ At(c, "commit")' \/ At(c, "ack")' => Read(c, receiving[c].row.frame)'
    BY <1>1, <2>1 DEF KeepInv, Books, At, Read, Logged
  <2>2. DOMAIN abandoned' = Dev
    BY <1>1 DEF KeepInv
  <2> QED
    BY <1>1, <1>12, <2>1, <2>2, BooksKept
<1> QED
  BY <1>1, <1>2, <1>14, <1>15, <1>16 DEF KeepInv

LEMMA CommitKeep == ASSUME KeepInv, NEW d \in Dev, Commit(d) PROVE KeepInv'
<1> PICK g, c, e : g = receiving[d].row.frame /\ c = receiving[d].cand /\ e = Peer(d)
  OBVIOUS
<1>1. /\ At(d, "commit")
      /\ disk' = [disk EXCEPT ![d] = c] /\ mem' = [mem EXCEPT ![d] = c]
      /\ waived' = waived \union Evicted(d, g, c)
      /\ receiving' = [receiving EXCEPT ![d].at = "ack"]
      /\ log' = log /\ sending' = sending /\ sealed' = sealed /\ rows' = rows /\ seen' = seen
      /\ minted' = minted /\ sent' = sent /\ abandoned' = abandoned
  BY DEF Commit
<1>2. Inv'
  BY CommitInv DEF KeepInv
<1>3. /\ disk \in [Dev -> Session \union {None}] /\ mem \in [Dev -> Session \union {None}]
      /\ receiving \in [Dev -> Receipt \union {None}]
      /\ receiving[d] # None /\ receiving[d] \in Receipt /\ sending[d] = None
  BY <1>1 DEF KeepInv, Inv, Types, At
<1>4. e \in Dev /\ e # d /\ Dev = {d, e} /\ Peer(e) = d /\ Peer(d) = e
  BY Peers DEF Dev
<1>5. c \in Session /\ c # None
  BY <1>3, Symbols DEF Receipt
<1>6. /\ mem'[d] = c /\ disk'[d] = c /\ mem'[e] = mem[e] /\ disk'[e] = disk[e]
      /\ receiving'[d].row = receiving[d].row /\ receiving'[d].at = "ack"
      /\ receiving'[e] = receiving[e] /\ waived \subseteq waived'
  BY <1>1, <1>3, <1>4 DEF Receipt
<1>7. \A b \in Dev : Released(b)' = Released(b)
  BY <1>1 DEF Released
<1>8. \A b \in Dev : \A f : Read(b, f) => Read(b, f)'
  BY <1>1, LogKept
<1>9. Shape(d, c) /\ Numbered(c.secret) /\ ~c.pending
  BY <1>1, CommitShape, Taken
<1>10. Saved'
  BY <1>4, <1>5, <1>6, AlikeSelf DEF KeepInv, Saved
<1>11. Shapes'
  <2>1. Numbered(mem[d].secret)'
    BY <1>1, <1>6, <1>9 DEF Numbered
  <2>2. mem[e] # None => Shape(e, mem[e]) /\ Numbered(mem[e].secret)'
    BY <1>1, <1>4, <1>6 DEF KeepInv, Shapes, Numbered
  <2> QED
    BY <1>4, <1>6, <1>9, <2>1, <2>2 DEF Shapes
<1>12. Lines'
  <2>1. ASSUME NEW b \in Dev, NEW f \in Released(b)'
        PROVE  Made(b, f) /\ Numbered(f.key.root[1])' /\ mem'[b] # None /\ Behind(f, mem'[b])
    <3>1. Made(b, f) /\ Numbered(f.key.root[1]) /\ mem[b] # None /\ Behind(f, mem[b])
      BY <1>7, <2>1 DEF KeepInv, Lines
    <3>2. Numbered(f.key.root[1])'
      BY <1>1, <3>1 DEF Numbered
    <3>3. CASE b = d
      BY <1>1, <1>5, <1>6, <1>7, <2>1, <3>1, <3>2, <3>3, CommitBehind
    <3>4. CASE b = e
      BY <1>6, <3>1, <3>2, <3>4
    <3> QED
      BY <1>4, <3>3, <3>4
  <2>2. \A b \in Dev : \A f, h \in Released(b)' : InLine(f, h)
    BY <1>7 DEF KeepInv, Lines
  <2>3. ASSUME NEW b \in Dev, sending'[b] # None
        PROVE  mem'[b] # None /\ LastSealed(b, sending'[b], mem'[b])
    <3>1. b = e
      BY <1>1, <1>3, <1>4, <2>3
    <3> QED
      BY <1>1, <1>4, <1>6, <2>3, <3>1 DEF KeepInv, Lines
  <2> QED
    BY <2>1, <2>2, <2>3 DEF Lines
<1>13. Secrets'
  <2>1. /\ \A f \in Released(d) : f.key.root[1] = c.secret \/ (d = High /\ f.x3dh # None)
        /\ \A f \in Released(e) : f.x3dh = None => c.secret = f.key.root[1]
    BY <1>1, <1>4, CommitSecrets
  <2>2. /\ \A f \in Released(d) : f.x3dh = None => disk[e] # None /\ disk[e].secret = f.key.root[1]
        /\ \A f \in Released(e) :
              /\ disk[e] # None
              /\ \/ f.key.root[1] = disk[e].secret
                 \/ e = High /\ ~disk[e].pending /\ f.x3dh # None
    BY <1>4 DEF KeepInv, Secrets
  <2>3. ASSUME NEW b \in Dev, NEW f \in Released(b)'
        PROVE  /\ disk'[b] # None
               /\ \/ f.key.root[1] = disk'[b].secret
                  \/ b = High /\ ~disk'[b].pending /\ f.x3dh # None
               /\ f.x3dh = None => disk'[Peer(b)] # None /\ disk'[Peer(b)].secret = f.key.root[1]
    <3>1. f \in Released(b)
      BY <1>7, <2>3
    <3>2. CASE b = d
      BY <1>4, <1>5, <1>6, <1>9, <2>1, <2>2, <3>1, <3>2
    <3>3. CASE b = e
      BY <1>4, <1>5, <1>6, <2>1, <2>2, <3>1, <3>3
    <3> QED
      BY <1>4, <3>2, <3>3
  <2> QED
    BY <2>3 DEF Secrets
<1>14. Converged'
  <2>1. /\ disk[e] # None /\ disk[e].secret = c.secret
        /\ \A t \in {mem[e], disk[e]} \ {None} : ~t.pending => c.secret = t.secret
    BY <1>1, <1>4, CommitConverged
  <2> SUFFICES ASSUME NEW b \in Dev, NEW t \in {mem'[b], disk'[b]} \ {None}, ~t.pending
               PROVE  disk'[Peer(b)] # None /\ disk'[Peer(b)].secret = t.secret
    BY DEF Converged
  <2>2. CASE b = d
    <3>1. t = c
      BY <1>6, <2>2
    <3> QED
      BY <1>4, <1>6, <2>1, <2>2, <3>1
  <2>3. CASE b = e
    <3>1. t \in {mem[e], disk[e]} \ {None}
      BY <1>6, <2>3
    <3> QED
      BY <1>4, <1>5, <1>6, <2>1, <2>3, <3>1
  <2> QED
    BY <1>4, <2>2, <2>3
<1>15. Met'
  <2>1. mem[e] # None /\ mem[e].secret = c.secret => Follows(c, mem[e]) \/ Follows(mem[e], c)
    BY <1>1, <1>4, CommitMet
  <2> SUFFICES ASSUME NEW b \in Dev, mem'[b] # None, mem'[Peer(b)] # None,
                      mem'[b].secret = mem'[Peer(b)].secret
               PROVE  Follows(mem'[b], mem'[Peer(b)]) \/ Follows(mem'[Peer(b)], mem'[b])
    BY DEF Met
  <2> QED
    BY <1>4, <1>6, <2>1
<1>16. Heard'
  <2> SUFFICES ASSUME NEW b \in Dev, mem'[b] # None
               PROVE  /\ Grounded(b, mem[b])'
                      /\ \A f \in Released(Peer(b)) :
                            /\ Placed(f, mem'[b])
                            /\ Passed(f, mem'[b]) =>
                                  Read(b, f) \/ f.key \in waived' \/ Cached(f, mem'[b])
    BY <1>4, <1>7, <1>8 DEF Heard
  <2>1. CASE b = d
    <3>1. Grounded(d, c)
      BY <1>1, CommitGrounded
    <3>2. Grounded(d, mem[d])'
      BY <1>1, <1>6, <3>1 DEF Grounded
    <3>3. ASSUME NEW f \in Released(e)
          PROVE  /\ Placed(f, c)
                 /\ Passed(f, c) => Read(d, f) \/ f.key \in waived' \/ Cached(f, c)
      <4>1. Placed(f, c)
        BY <1>1, <1>4, CommitPlaced
      <4>2. ASSUME Passed(f, c)
            PROVE  \/ Read(d, f) \/ f.key \in waived \/ Cached(f, c) \/ f.key \in Evicted(d, g, c)
        BY <1>1, <1>4, <4>2, CommitHeard
      <4> QED
        BY <1>1, <4>1, <4>2
    <3> QED
      BY <1>4, <1>6, <2>1, <3>2, <3>3
  <2>2. CASE b = e
    <3>1. mem[e] # None
      BY <1>6, <2>2
    <3>2. /\ Grounded(e, mem[e])
          /\ \A f \in Released(d) :
                /\ Placed(f, mem[e])
                /\ Passed(f, mem[e]) => Read(e, f) \/ f.key \in waived \/ Cached(f, mem[e])
      BY <1>4, <3>1 DEF KeepInv, Heard
    <3>3. Grounded(e, mem[e])'
      BY <1>1, <1>6, <3>2 DEF Grounded
    <3> QED
      BY <1>4, <1>6, <2>2, <3>2, <3>3
  <2> QED
    BY <1>4, <2>1, <2>2
<1>17. Drafted'
  <2>1. ASSUME NEW b \in Dev, At(b, "apply")' \/ At(b, "commit")'
        PROVE  /\ At(b, "apply") \/ At(b, "commit")
               /\ receiving'[b].row = receiving[b].row /\ receiving'[b].cand = receiving[b].cand
               /\ mem'[b] = mem[b] /\ minted'[b] = minted[b]
               /\ Released(b)' \subseteq Released(b)
    <3>1. b = e
      BY <1>4, <1>6, <2>1 DEF At
    <3> QED
      BY <1>1, <1>6, <1>7, <2>1, <3>1 DEF At
  <2> QED
    BY <2>1, DraftKept
<1>18. Books' /\ NothingLost'
  <2>1. ASSUME NEW b \in Dev, receiving'[b] # None
        PROVE  /\ receiving'[b].row \in rows[b]
               /\ At(b, "commit")' \/ At(b, "ack")' => Read(b, receiving[b].row.frame)'
    <3>1. CASE b = d
      <4>1. receiving[d].row \in rows[d] /\ Read(d, g)
        BY <1>1, <1>3 DEF KeepInv, Books
      <4>2. receiving'[d].row.frame = g
        BY <1>6
      <4>3. Read(d, receiving[d].row.frame)'
        BY <1>1, <4>1, <4>2 DEF Read, Logged
      <4> QED
        BY <1>6, <3>1, <4>1, <4>3
    <3>2. CASE b = e
      BY <1>1, <1>6, <2>1, <3>2 DEF KeepInv, Books, At, Read, Logged
    <3> QED
      BY <1>4, <3>1, <3>2
  <2>2. DOMAIN abandoned' = Dev
    BY <1>1 DEF KeepInv
  <2>3. rows' = rows /\ sent' = sent /\ (\A b \in Dev : seen'[b] \subseteq seen[b])
        /\ \A b \in Dev : abandoned[b] \subseteq abandoned'[b]
    BY <1>1
  <2> QED
    BY <1>6, <1>8, <2>1, <2>2, <2>3, BooksKept
<1> QED
  BY <1>1, <1>2, <1>10, <1>11, <1>12, <1>13, <1>14, <1>15, <1>16, <1>17, <1>18 DEF KeepInv

LEMMA StepKeep == KeepInv /\ [Next]_vars => KeepInv'
<1> SUFFICES ASSUME KeepInv, [Next]_vars PROVE KeepInv'
  OBVIOUS
<1>1. CASE UNCHANGED vars
  BY <1>1, StutterKeep
<1>2. ASSUME NEW d \in Dev, Encrypt(d) \/ SendSaved(d) PROVE KeepInv'
  BY <1>2, EncryptKeep, SendSavedKeep
<1>3. ASSUME NEW d \in Dev, NEW f \in sealed[d], Wire(d, f) PROVE KeepInv'
  BY <1>3, WireKeep
<1>4. ASSUME NEW d \in Dev, NEW row \in rows[d],
             Open(d, row) \/ Drop(d, row) \/ AckAgain(d, row)
      PROVE  KeepInv'
  BY <1>4, OpenKeep, DropKeep, AckAgainKeep
<1>5. ASSUME NEW d \in Dev, Store(d) \/ Commit(d) \/ Finish(d) PROVE KeepInv'
  BY <1>5, ApplyKeep, RefuseKeep, CommitKeep, FinishKeep DEF Store
<1>6. ASSUME NEW d \in Dev, Suspend(d) \/ Resume(d) PROVE KeepInv'
  BY <1>6, FenceKeep
<1>7. ASSUME NEW d \in Dev, SendFails(d) \/ ReceiveFails(d) \/ Crash(d) PROVE KeepInv'
  BY <1>7, SendFailsKeep, ReceiveFailsKeep, CrashKeep
<1>8. ASSUME NEW d \in Dev, NEW f \in sent, Copy(d, f) PROVE KeepInv'
  BY <1>8, CopyKeep
<1>9. ASSUME NEW d \in Dev, NEW f \in Damaged(d), Damage(d, f) PROVE KeepInv'
  BY <1>9, DamageKeep
<1> QED
  BY <1>1, <1>2, <1>3, <1>4, <1>5, <1>6, <1>7, <1>8, <1>9 DEF Next

-----------------------------------------------------------------------------
(* What is kept.                                                             *)

\* session.ts, receiveEnvelope, with ratchet.ts, skipMessageKeys, and the promise
\* chain of Messenger.tsx: where each frame of a device is for the other one's
\* session, in every reachable state.
THEOREM KeepInvariant == Spec => []KeepInv
<1>1. Init => KeepInv
  BY InitKeep
<1>2. KeepInv /\ [Next]_vars => KeepInv'
  BY StepKeep
<1> QED
  BY <1>1, <1>2, PTL DEF Spec

\* SECURITY.md, Invariant II, and Messenger.tsx, onInbox: whatever the relay was
\* given is with it until it is saved, and opens from the live session and from the
\* saved one for as long as it is unread, for any number of messages, crashes, failed
\* writes, copies and damaged frames, and any limits of the ratchet.
THEOREM NoMessageLost == Spec => []MessagesKept
<1>1. KeepInv => MessagesKept
  BY KeepDeliverable DEF KeepInv, MessagesKept
<1> QED
  BY <1>1, KeepInvariant, PTL

\* session.ts, the tie-break of receiveEnvelope: the two devices end on one session.
THEOREM TieResolved == Spec => []Converged
<1>1. KeepInv => Converged
  BY DEF KeepInv
<1> QED
  BY <1>1, KeepInvariant, PTL
=============================================================================
