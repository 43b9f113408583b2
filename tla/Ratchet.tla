------------------------------- MODULE Ratchet -------------------------------
(* The Double Ratchet of src/crypto/ratchet.ts, with symbolic cryptography.   *)
(*                                                                            *)
(* A public key stands for its pair. dh(a, b) is the set {a, b}. kdfRk extends *)
(* the root <<secret, dh1, dh2, ...>> by one output and starts a chain, named  *)
(* by that root; kdfCk moves a chain key [root, i] to i + 1 and yields the     *)
(* message key, named by the chain key it came from. Two keys are equal       *)
(* exactly when they were derived in the same way. A frame is a record with   *)
(* the header (dh, pn, n) and the key its ciphertext was made with: opening    *)
(* it with another key, or under another header, does not authenticate.       *)
EXTENDS Naturals, Sequences

CONSTANTS
    MaxSkip,         \* MAX_SKIP: keys one jump may skip
    MaxSkipSession,  \* MAX_SKIP_SESSION: skipped keys kept altogether
    None             \* "null"

ASSUME RatchetAssumption == MaxSkip \in Nat /\ MaxSkipSession \in Nat \ {0}

ChainOf(root) == [root |-> root, i |-> 0]

\* kdfCk: the successor of a chain key. The message key is named by ck itself.
NextCk(ck) == [ck EXCEPT !.i = @ + 1]

\* kdfRk(rk, dh(own, their))
MixRoot(rk, own, their) == Append(rk, {own, their})

InitInitiator(secret, own, their) ==
    LET rk == MixRoot(<<secret>>, own, their)
    IN  [DHs |-> own, DHr |-> their, RK |-> rk, CKs |-> ChainOf(rk), CKr |-> None,
         Ns |-> 0, Nr |-> 0, PN |-> 0, skipped |-> <<>>]

InitResponder(secret, spk) ==
    [DHs |-> spk, DHr |-> None, RK |-> <<secret>>, CKs |-> None, CKr |-> None,
     Ns |-> 0, Nr |-> 0, PN |-> 0, skipped |-> <<>>]

\* ratchetEncrypt: the state after it. The frame has the header (DHs, PN, Ns) and
\* the key CKs of the state before it.
AfterEncryptStuck(s) == [s EXCEPT !.Ns = @ + 1]  \* Faulty variant: the chain key stays
AfterEncrypt(s) == [s EXCEPT !.CKs = NextCk(@), !.Ns = @ + 1]

-----------------------------------------------------------------------------
(* Decryption. Each operator gives the draft after one part of decryptInto.   *)

\* skipMessageKeys: the keys between Nr and "until" join the cache, whose
\* oldest entries go when it is over its limit. Without a receiving chain
\* nothing is skipped and Nr stays.
SkipAllowed(s, until) == until <= s.Nr + MaxSkip

SkippedKeys(s, until) ==
    [k \in 1 .. (until - s.Nr) |->
        [dh |-> s.DHr, n |-> s.Nr + k - 1, key |-> [s.CKr EXCEPT !.i = @ + k - 1]]]

AllOf(cache) == cache                                \* Faulty variant: no limit
OldestOf(cache) ==                                   \* Faulty variant: new keys go
    IF Len(cache) <= MaxSkipSession THEN cache ELSE SubSeq(cache, 1, MaxSkipSession)

NewestOf(cache) ==
    IF Len(cache) <= MaxSkipSession
    THEN cache
    ELSE SubSeq(cache, Len(cache) - MaxSkipSession + 1, Len(cache))

Skip(s, until) ==
    IF s.CKr = None \/ until <= s.Nr
    THEN s
    ELSE [s EXCEPT !.skipped = NewestOf(@ \o SkippedKeys(s, until)),
                   !.CKr = [s.CKr EXCEPT !.i = @ + (until - s.Nr)],
                   !.Nr = until]

\* dhRatchet: both chains restart, the sending one under the fresh key pair.
DHRatchet(s, their, fresh) ==
    LET receiving == MixRoot(s.RK, s.DHs, their)
        sending   == MixRoot(receiving, fresh, their)
    IN  [s EXCEPT !.PN = s.Ns, !.Ns = 0, !.Nr = 0, !.DHr = their,
                  !.DHs = fresh, !.RK = sending,
                  !.CKr = ChainOf(receiving), !.CKs = ChainOf(sending)]

\* The draft once the header's sending key is the one being received from.
Turned(s, f, fresh) ==
    IF f.dh = s.DHr THEN s ELSE DHRatchet(Skip(s, f.pn), f.dh, fresh)

\* The draft whose receiving chain key is the one the frame should be under.
Reached(s, f, fresh) == Skip(Turned(s, f, fresh), f.n)

CachedAt(s, f) ==
    {k \in DOMAIN s.skipped : s.skipped[k].dh = f.dh /\ s.skipped[k].n = f.n}

FromCache(s, f) == CachedAt(s, f) # {}

WithinLimits(s, f) ==
    /\ f.dh # s.DHr => SkipAllowed(s, f.pn)
    /\ f.n <= (IF f.dh = s.DHr THEN s.Nr ELSE 0) + MaxSkip

\* ratchetDecrypt returns, and commits, only if the frame authenticates. A
\* cached key for the header is tried alone.
Opens(s, f) ==
    IF FromCache(s, f)
    THEN \E k \in CachedAt(s, f) : s.skipped[k].key = f.key
    ELSE /\ WithinLimits(s, f)
         /\ Reached(s, f, f.dh).CKr = f.key

Without(seq, k) ==
    [j \in 1 .. (Len(seq) - 1) |-> IF j < k THEN seq[j] ELSE seq[j + 1]]

AfterDecrypt(s, f, fresh) ==
    IF FromCache(s, f)
    THEN [s EXCEPT !.skipped = Without(@, CHOOSE k \in CachedAt(s, f) : TRUE)]
    ELSE [Reached(s, f, fresh) EXCEPT !.CKr = NextCk(@), !.Nr = @ + 1]
=============================================================================
