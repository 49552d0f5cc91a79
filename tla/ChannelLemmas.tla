--------------------------- MODULE ChannelLemmas ---------------------------
(***************************************************************************)
(* Facts about a Go channel modelled as a sequence without repetitions:    *)
(* what a send at the back and a receive from the front do to it.          *)
(***************************************************************************)
EXTENDS Integers, SequencesExt, SequenceTheorems, TLAPS

\* A send puts an element in the channel and leaves the others there.
LEMMA SendProperty ==
    ASSUME NEW S, NEW s \in Seq(S), NEW e \in S, IsInjective(s), e \notin ToSet(s)
    PROVE  /\ Append(s, e) \in Seq(S) /\ Len(Append(s, e)) = Len(s) + 1
           /\ IsInjective(Append(s, e))
           /\ ToSet(Append(s, e)) = ToSet(s) \cup {e}
<1> DEFINE t == Append(s, e)
<1>1. /\ t \in Seq(S) /\ Len(t) = Len(s) + 1 /\ Len(s) \in Nat
      /\ DOMAIN t = 1..(Len(s) + 1) /\ DOMAIN s = 1..Len(s)
      /\ \A k \in 1..Len(s) : t[k] = s[k]
      /\ t[Len(s) + 1] = e
  OBVIOUS
<1> HIDE DEF t
<1>2. ToSet(t) = ToSet(s) \cup {e}
  <2>1. ASSUME NEW x \in ToSet(t) PROVE x \in ToSet(s) \cup {e}
    BY <1>1 DEF ToSet
  <2>2. ASSUME NEW x \in ToSet(s) PROVE x \in ToSet(t)
    BY <1>1 DEF ToSet
  <2>3. e \in ToSet(t)
    BY <1>1 DEF ToSet
  <2> QED BY <2>1, <2>2, <2>3
<1>3. \A k \in 1..Len(s) : t[k] # e
  BY <1>1 DEF ToSet
<1>4. IsInjective(t)
  BY <1>1, <1>3 DEF IsInjective
<1> QED BY <1>1, <1>2, <1>4 DEF t

\* A receive takes the front element out of the channel.
LEMMA ReceiveProperty ==
    ASSUME NEW S, NEW s \in Seq(S), s # <<>>, IsInjective(s)
    PROVE  /\ Head(s) \in S /\ Head(s) \in ToSet(s)
           /\ Tail(s) \in Seq(S) /\ Len(Tail(s)) = Len(s) - 1
           /\ IsInjective(Tail(s))
           /\ ToSet(Tail(s)) = ToSet(s) \ {Head(s)}
<1> DEFINE t == Tail(s)
<1>1. /\ Len(s) \in Nat /\ Len(s) > 0 /\ DOMAIN s = 1..Len(s)
      /\ t \in Seq(S) /\ Len(t) = Len(s) - 1 /\ DOMAIN t = 1..(Len(s) - 1)
      /\ \A k \in 1..(Len(s) - 1) : t[k] = s[k + 1]
      /\ Head(s) = s[1] /\ s[1] \in S
  OBVIOUS
<1> HIDE DEF t
<1>2. \A k \in 1..(Len(s) - 1) : t[k] # s[1]
  BY <1>1 DEF IsInjective
<1>3. ToSet(t) = ToSet(s) \ {s[1]}
  <2>1. ASSUME NEW x \in ToSet(t) PROVE x \in ToSet(s) \ {s[1]}
    BY <1>1, <1>2 DEF ToSet
  <2>2. ASSUME NEW x \in ToSet(s), x # s[1] PROVE x \in ToSet(t)
    <3>1. PICK k \in 1..Len(s) : x = s[k]
      BY <1>1 DEF ToSet
    <3>2. k - 1 \in 1..(Len(s) - 1) /\ (k - 1) + 1 = k
      BY <1>1, <2>2, <3>1
    <3>3. t[k - 1] = x
      BY <1>1, <3>1, <3>2
    <3> QED BY <1>1, <3>2, <3>3 DEF ToSet
  <2> QED BY <2>1, <2>2
<1>4. IsInjective(t)
  <2>1. ASSUME NEW a \in 1..(Len(s) - 1), NEW b \in 1..(Len(s) - 1), t[a] = t[b]
        PROVE  a = b
    <3>1. a + 1 \in DOMAIN s /\ b + 1 \in DOMAIN s
      BY <1>1
    <3>2. s[a + 1] = s[b + 1]
      BY <1>1, <2>1
    <3>3. a + 1 = b + 1
      BY <3>1, <3>2 DEF IsInjective
    <3> QED BY <3>3
  <2> QED BY <1>1, <2>1 DEF IsInjective
<1>5. s[1] \in ToSet(s)
  BY <1>1 DEF ToSet
<1> QED BY <1>1, <1>3, <1>4, <1>5 DEF t
============================================================================
