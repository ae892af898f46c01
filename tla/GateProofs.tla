----------------------------- MODULE GateProofs -----------------------------
(***************************************************************************)
(* Proofs about RedisLimiter and Gate, for every set of servers, keys and  *)
(* callers, all limits and windows, every spread of the clocks and every   *)
(* stall.                                                                  *)
(***************************************************************************)
EXTENDS Gate, SequenceTheorems, FiniteSetTheorems, TLAPS

USE RedisAssumption, GateAssumption DEF RedisAssumption, GateAssumption

-----------------------------------------------------------------------------
(* The limiter that the servers share *)

(* What a call has sent is no older than Stall. *)
CallInv(q) ==
    /\ q.pc # "idle" => q.server \in Servers /\ q.key \in Keys
    /\ q.pc = "sent" => skew[q.server] - Stall <= q.now /\ q.now <= skew[q.server]

CallsInv ==
    /\ skew \in [Servers -> 0..Spread]
    /\ call \in [Callers -> Call]
    /\ \A c \in Callers : CallInv(call[c])

ZsetInv(z) == z \in SUBSET Member /\ IsFiniteSet(z) /\ Cardinality(z) <= Limit

(* A member admitted in the last Width is still in the set z, whose time x  *)
(* is not up: no clock is so far ahead that its script takes it out.        *)
Remembered(g, z, x) ==
    /\ g.at > -Width
    /\ g.member.score >= g.at - Stall
    /\ g.member \in z
    /\ x >= 2 * Window + g.at

(* What was admitted in the present life l of a key is remembered; earlier  *)
(* lives ended within the limit.                                            *)
KeyInv(z, x, h, l) ==
    /\ ZsetInv(z)
    /\ \A g \in h : g.life <= l
    /\ Width > 0 =>
         /\ \A g \in h : g.life = l => Remembered(g, z, x)
         /\ \A n \in 0..Deletions : n < l => ZsetInv(Members(h, n))

StoreTypes ==
    /\ zset \in [Keys -> SUBSET Member]
    /\ expires \in [Keys -> 0..2 * Window]
    /\ life \in [Keys -> 0..Deletions]
    /\ admitted \in [Keys -> SUBSET Admission]

StoreInv ==
    /\ StoreTypes
    /\ \A k \in Keys : KeyInv(zset[k], expires[k], admitted[k], life[k])

(* Times are numbers, the present one of them. *)
LEMMA Stamps ==
    /\ Stamp \in SUBSET Int /\ Oldest \in Int /\ Width \in Int
    /\ Width = Window - Stall - Spread /\ Oldest = -(Window + Stall)
    /\ 0 \in Stamp
BY DEF Stamp, Oldest, Width

(* What a member of a sorted set consists of. *)
LEMMA MemberType ==
    ASSUME NEW m \in Member
    PROVE  /\ m.score \in Int /\ Oldest <= m.score /\ m.score <= Spread
           /\ m.draw \in Draws
           /\ m = [score |-> m.score, draw |-> m.draw]
BY Stamps DEF Member, Stamp

(* A member ages by one unit, or stays at Oldest. *)
LEMMA OlderType ==
    ASSUME NEW m \in Member
    PROVE  /\ Older(m) \in Member
           /\ Older(m).score >= m.score - 1
<1>1. /\ m.score \in Int /\ Oldest <= m.score /\ m.score <= Spread
      /\ m.draw \in Draws
  BY MemberType
<1> DEFINE score == IF m.score > Oldest THEN m.score - 1 ELSE m.score
<1>2. Older(m) = [score |-> score, draw |-> m.draw]
  BY DEF Older, Member
<1>3. score \in Stamp /\ score >= m.score - 1
  BY <1>1, Stamps DEF Stamp
<1> HIDE DEF score
<1> QED
  BY <1>1, <1>2, <1>3 DEF Member

(* Time passing adds no member to a sorted set. *)
LEMMA ZsetAges ==
    ASSUME NEW z, ZsetInv(z)
    PROVE  ZsetInv({Older(m) : m \in z})
<1> DEFINE older == {Older(m) : m \in z}
           f == [m \in z |-> Older(m)]
<1>1. older \in SUBSET Member
  BY OlderType DEF ZsetInv
<1>2. f \in Surjection(z, older)
  BY DEF Surjection
<1> HIDE DEF f, older
<1>3. IsFiniteSet(older) /\ Cardinality(older) <= Cardinality(z)
  BY <1>2, FS_Surjection DEF ZsetInv
<1>4. Cardinality(older) \in Nat /\ Cardinality(z) \in Nat
  BY <1>3, FS_CardinalityType DEF ZsetInv
<1>5. Cardinality(older) <= Limit
  BY <1>3, <1>4 DEF ZsetInv
<1> QED
  BY <1>1, <1>3, <1>5 DEF ZsetInv, older

(* ZADD under the limit keeps to it. *)
LEMMA ZsetAdds ==
    ASSUME NEW z, ZsetInv(z), Cardinality(z) < Limit, NEW m \in Member
    PROVE  ZsetInv(z \cup {m})
<1>1. z \cup {m} \in SUBSET Member /\ IsFiniteSet(z) /\ Cardinality(z) \in Nat
  BY FS_CardinalityType DEF ZsetInv
<1>2. /\ IsFiniteSet(z \cup {m})
      /\ Cardinality(z \cup {m}) = IF m \in z THEN Cardinality(z) ELSE Cardinality(z) + 1
  BY <1>1, FS_AddElement
<1>3. Cardinality(z \cup {m}) <= Limit
  BY <1>1, <1>2
<1> QED
  BY <1>1, <1>2, <1>3 DEF ZsetInv

(* What is left of a sorted set is within its limit. *)
LEMMA ZsetKeeps ==
    ASSUME NEW z, ZsetInv(z), NEW y \in SUBSET z
    PROVE  ZsetInv(y) /\ Cardinality(y) \in Nat
<1>1. IsFiniteSet(y) /\ Cardinality(y) <= Cardinality(z)
  BY FS_Subset DEF ZsetInv
<1>2. Cardinality(y) \in Nat /\ Cardinality(z) \in Nat
  BY <1>1, FS_CardinalityType DEF ZsetInv
<1> QED
  BY <1>1, <1>2 DEF ZsetInv

(* The empty sorted set is within any limit. *)
LEMMA ZsetEmpty == ZsetInv({})
BY FS_EmptySet DEF ZsetInv

(* One call changes to q; the clocks do not. *)
LEMMA CallSet ==
    ASSUME CallsInv, NEW c \in Callers, NEW q \in Call, CallInv(q),
           call' = [call EXCEPT ![c] = q], skew' = skew
    PROVE  CallsInv'
<1>1. call' \in [Callers -> Call]
  BY DEF CallsInv
<1>2. ASSUME NEW d \in Callers PROVE CallInv(call[d])'
  <2>1. CASE d = c
    <3>1. call'[d] = q
      BY <2>1 DEF CallsInv
    <3> QED
      BY <3>1 DEF CallInv
  <2>2. CASE d # c
    <3>1. call'[d] = call[d]
      BY <2>2 DEF CallsInv
    <3> QED
      BY <3>1 DEF CallsInv, CallInv
  <2> QED
    BY <2>1, <2>2
<1> QED
  BY <1>1, <1>2 DEF CallsInv

(* A caller that rests is in order. *)
LEMMA IdleCall == Idle \in Call /\ CallInv(Idle) /\ Idle.pc = "idle"
BY Stamps DEF Idle, Call, CallInv

(* A caller stamps its request with the clock of its server. *)
LEMMA StartCalls ==
    ASSUME CallsInv, NEW c \in Callers, NEW s \in Servers, NEW k \in Keys,
           Start(c, s, k)
    PROVE  CallsInv'
<1> DEFINE q == [Idle EXCEPT !.pc = "sent", !.server = s, !.key = k, !.now = skew[s]]
<1>1. skew[s] \in 0..Spread /\ skew[s] \in Stamp
  BY Stamps DEF CallsInv, Stamp
<1>2. q.pc = "sent" /\ q.server = s /\ q.key = k /\ q.now = skew[s] /\ q \in Call
  BY <1>1 DEF Idle, Call
<1>3. call' = [call EXCEPT ![c] = q] /\ skew' = skew
  BY DEF Start
<1> HIDE DEF q
<1>4. CallInv(q)
  BY <1>1, <1>2 DEF CallInv
<1> QED
  BY <1>2, <1>3, <1>4, CallSet

(* A caller is answered. *)
LEMMA AnsweredCalls ==
    ASSUME CallsInv, NEW c \in Callers, call[c].pc = "sent",
           NEW result \in {"allowed", "denied", "error"}, Answered(c, result),
           skew' = skew
    PROVE  CallsInv'
<1> DEFINE q == [call[c] EXCEPT !.pc = "answered", !.now = 0, !.result = result]
<1>1. call[c] \in Call /\ CallInv(call[c])
  BY DEF CallsInv
<1>2. /\ q.pc = "answered" /\ q.server = call[c].server /\ q.key = call[c].key
      /\ q \in Call
  BY <1>1, Stamps DEF Call
<1>3. call' = [call EXCEPT ![c] = q]
  BY DEF Answered
<1> HIDE DEF q
<1>4. CallInv(q)
  BY <1>1, <1>2 DEF CallInv
<1> QED
  BY <1>2, <1>3, <1>4, CallSet

(* Callers that do not move keep what they know. *)
LEMMA CallsKept == CallsInv /\ call' = call /\ skew' = skew => CallsInv'
BY DEF CallsInv, CallInv

(* A store that nobody touches keeps what it holds. *)
LEMMA StoreKept ==
    StoreInv /\ UNCHANGED <<zset, expires, life, admitted>> => StoreInv'
BY DEF StoreInv, StoreTypes, KeyInv, ZsetInv, Remembered, Members, Width

(* One key changes; it is not deleted. *)
LEMMA KeySet ==
    ASSUME StoreInv, NEW k \in Keys, NEW z, NEW x \in 0..2 * Window,
           NEW h \in SUBSET Admission,
           zset' = [zset EXCEPT ![k] = z], expires' = [expires EXCEPT ![k] = x],
           admitted' = [admitted EXCEPT ![k] = h], life' = life,
           KeyInv(z, x, h, life[k])
    PROVE  StoreInv'
<1>1. z \in SUBSET Member
  BY DEF KeyInv, ZsetInv
<1>2. StoreTypes'
  BY <1>1 DEF StoreInv, StoreTypes
<1>3. zset'[k] = z /\ expires'[k] = x /\ admitted'[k] = h /\ life'[k] = life[k]
  BY DEF StoreInv, StoreTypes
<1>4. \A l \in Keys : l # k => /\ zset'[l] = zset[l] /\ expires'[l] = expires[l]
                               /\ admitted'[l] = admitted[l] /\ life'[l] = life[l]
  BY DEF StoreInv, StoreTypes
<1>5. ASSUME NEW l \in Keys
      PROVE  KeyInv(zset'[l], expires'[l], admitted'[l], life'[l])
  BY <1>3, <1>4 DEF StoreInv
<1>6. (\A l \in Keys : KeyInv(zset[l], expires[l], admitted[l], life[l]))'
  BY <1>5 DEF KeyInv, ZsetInv, Remembered, Members, Width
<1> QED
  BY <1>2, <1>6 DEF StoreInv

(* A script takes out of the sorted set what is remembered by nobody. *)
LEMMA KeyEvicts ==
    ASSUME NEW z, NEW x, NEW h, NEW l, KeyInv(z, x, h, l), NEW y \in SUBSET z,
           Width > 0 => \A g \in h : g.life = l => g.member \in y
    PROVE  KeyInv(y, x, h, l)
BY ZsetKeeps DEF KeyInv, Remembered

(* It adds a member to it, and the key gets all its time again. *)
LEMMA KeyAdds ==
    ASSUME NEW z, NEW x \in 0..2 * Window, NEW h \in SUBSET Admission, NEW l,
           KeyInv(z, x, h, l), Cardinality(z) < Limit, NEW m \in Member
    PROVE  KeyInv(z \cup {m}, 2 * Window, h, l)
<1>1. ZsetInv(z \cup {m})
  BY ZsetAdds DEF KeyInv
<1>2. ASSUME Width > 0, NEW g \in h, g.life = l
      PROVE  Remembered(g, z \cup {m}, 2 * Window)
  <2>1. g.at \in Int /\ g.at <= 0
    BY DEF Admission
  <2> QED
    BY <1>2, <2>1 DEF KeyInv, Remembered
<1> QED
  BY <1>1, <1>2 DEF KeyInv

(* The member, not older than Stall, is what was admitted. *)
LEMMA KeyAdmits ==
    ASSUME NEW z, NEW h \in SUBSET Admission, NEW l \in 0..Deletions,
           KeyInv(z, 2 * Window, h, l), NEW m \in z, m.score >= 0 - Stall
    PROVE  KeyInv(z, 2 * Window, h \cup {[at |-> 0, member |-> m, life |-> l]}, l)
<1> DEFINE grant == [at |-> 0, member |-> m, life |-> l]
           all == h \cup {grant}
<1>1. grant.at = 0 /\ grant.member = m /\ grant.life = l
  OBVIOUS
<1> HIDE DEF grant
<1>2. \A g \in all : g.life <= l
  BY <1>1 DEF KeyInv
<1>3. ASSUME Width > 0, NEW g \in all, g.life = l
      PROVE  Remembered(g, z, 2 * Window)
  <2>1. CASE g \in h
    BY <1>3, <2>1 DEF KeyInv
  <2>2. CASE g = grant
    <3>1. 0 > -Width /\ 2 * Window >= 2 * Window + 0
      BY <1>3, Stamps
    <3> QED
      BY <1>1, <2>2, <3>1 DEF Remembered
  <2> QED
    BY <2>1, <2>2
<1>4. ASSUME NEW n \in 0..Deletions, n < l PROVE Members(all, n) = Members(h, n)
  <2>1. n # l
    BY <1>4
  <2> QED
    BY <1>1, <2>1 DEF Members
<1> HIDE DEF all
<1>5. KeyInv(z, 2 * Window, all, l)
  BY <1>2, <1>3, <1>4 DEF KeyInv
<1> QED
  BY <1>5 DEF all, grant

(* A deleted key begins another life, the one before within the limit. *)
LEMMA KeyDeleted ==
    ASSUME NEW z, NEW x, NEW h \in SUBSET Admission, NEW l \in Nat,
           KeyInv(z, x, h, l)
    PROVE  KeyInv({}, 0, h, l + 1)
<1>1. \A g \in h : g.life \in Int
  BY DEF Admission
<1>2. \A g \in h : g.life <= l + 1 /\ g.life # l + 1
  BY <1>1 DEF KeyInv
<1>3. ASSUME Width > 0, NEW n \in 0..Deletions, n < l + 1
      PROVE  ZsetInv(Members(h, n))
  <2>1. CASE n < l
    BY <1>3, <2>1 DEF KeyInv
  <2>2. CASE n = l
    <3>1. Members(h, n) \in SUBSET z
      BY <1>3, <2>2 DEF KeyInv, Remembered, Members
    <3> QED
      BY <3>1, ZsetKeeps DEF KeyInv
  <2> QED
    BY <1>3, <2>1, <2>2
<1> QED
  BY <1>2, <1>3, ZsetEmpty DEF KeyInv

(* The script takes out nothing that was admitted in the last Width, and   *)
(* adds a member only below the limit.                                     *)
LEMMA ScriptStore ==
    ASSUME CallsInv, StoreInv, NEW c \in Callers, call[c].pc = "sent",
           NEW d \in Draws, NEW result, NEW member,
           member = [score |-> call[c].now, draw |-> d],
           Script(call[c].key, member, result), life' = life,
           \/ result = "allowed" /\ Remember(call[c].key, member)
           \/ UNCHANGED admitted
    PROVE  StoreInv'
<1> DEFINE k == call[c].key
           s == call[c].server
           now == call[c].now
           valid == Valid(k, now)
           h == admitted[k]
           l == life[k]
           more == h \cup {[at |-> 0, member |-> member, life |-> l]}
<1>1. call[c] \in Call /\ CallInv(call[c]) /\ call[c].pc = "sent"
  BY DEF CallsInv
<1>2. /\ s \in Servers /\ k \in Keys /\ now \in Stamp /\ now \in Int
      /\ skew[s] \in 0..Spread /\ skew[s] - Stall <= now /\ now <= skew[s]
  BY <1>1, Stamps DEF CallInv, Call, CallsInv
<1>3. member \in Member /\ member.score = now /\ now >= 0 - Stall
  BY <1>2 DEF Member
<1>4. /\ expires[k] \in 0..2 * Window /\ h \in SUBSET Admission
      /\ l \in 0..Deletions /\ zset[k] \in SUBSET Member
      /\ zset \in [Keys -> SUBSET Member] /\ expires \in [Keys -> 0..2 * Window]
      /\ admitted \in [Keys -> SUBSET Admission]
      /\ KeyInv(zset[k], expires[k], h, l)
  BY <1>2 DEF StoreInv, StoreTypes
<1>5. valid \in SUBSET zset[k]
  BY DEF Valid
<1>6. ASSUME Width > 0, NEW g \in h, g.life = l PROVE g.member \in valid
  <2>1. Remembered(g, zset[k], expires[k]) /\ g \in Admission
    BY <1>4, <1>6 DEF KeyInv
  <2>2. g.at \in Int /\ g.member \in Member /\ g.member.score \in Int
    BY <2>1, MemberType DEF Admission
  <2>3. g.member.score > now - Window
    BY <1>2, <2>1, <2>2, Stamps DEF Remembered
  <2> QED
    BY <2>1, <2>3 DEF Remembered, Valid
<1> HIDE DEF valid
<1>7. KeyInv(valid, expires[k], h, l)
  BY <1>4, <1>5, <1>6, KeyEvicts
<1>8. ZsetInv(valid) /\ Cardinality(valid) \in Nat
  BY <1>7, ZsetKeeps DEF KeyInv
<1>9. CASE /\ ~Full(Cardinality(valid))
           /\ zset' = [zset EXCEPT ![k] = valid \cup {member}]
           /\ expires' = [expires EXCEPT ![k] = 2 * Window]
  <2> DEFINE z == valid \cup {member}
  <2>1. Cardinality(valid) < Limit
    BY <1>8, <1>9 DEF Full
  <2>2. KeyInv(z, 2 * Window, h, l)
    BY <1>3, <1>4, <1>7, <2>1, KeyAdds
  <2>3. KeyInv(z, 2 * Window, more, l)
    BY <1>3, <1>4, <2>2, KeyAdmits
  <2>4. more \in SUBSET Admission
    BY <1>3, <1>4 DEF Admission
  <2>5. 2 * Window \in 0..2 * Window /\ zset' = [zset EXCEPT ![k] = z]
    BY <1>9
  <2>6. admitted' = [admitted EXCEPT ![k] = h] \/ admitted' = [admitted EXCEPT ![k] = more]
    BY <1>4 DEF Remember
  <2> HIDE DEF k, z, h, l, more
  <2>7. l = life[k]
    BY DEF l
  <2> QED
    BY <1>2, <1>4, <1>9, <2>2, <2>3, <2>4, <2>5, <2>6, <2>7, KeySet
<1>10. CASE /\ result = "denied"
            /\ zset' = [zset EXCEPT ![k] = valid]
            /\ UNCHANGED expires
  <2>1. /\ expires' = [expires EXCEPT ![k] = expires[k]]
        /\ admitted' = [admitted EXCEPT ![k] = h]
    BY <1>4, <1>10
  <2> HIDE DEF k, h, l
  <2>2. l = life[k]
    BY DEF l
  <2> QED
    BY <1>2, <1>4, <1>7, <1>10, <2>1, <2>2, KeySet
<1> QED
  BY <1>3, <1>9, <1>10 DEF Script, valid

(* A script runs, and is answered, lost or sent once more. *)
LEMMA RunLimiter ==
    ASSUME CallsInv, StoreInv, NEW c \in Callers, Run(c)
    PROVE  CallsInv' /\ StoreInv'
<1> DEFINE member(d) == [score |-> call[c].now, draw |-> d]
<1>1. PICK d \in Draws, result \in {"allowed", "denied"} :
          /\ Script(call[c].key, member(d), result)
          /\ \/ Answered(c, result) /\ result = "allowed" /\ Remember(call[c].key, member(d))
             \/ Answered(c, result) /\ result = "denied" /\ UNCHANGED admitted
             \/ Lost(c) /\ UNCHANGED admitted
  BY DEF Run
<1>2. call[c].pc = "sent" /\ skew' = skew /\ life' = life
  BY DEF Run
<1>3. StoreInv'
  <2> DEFINE m == member(d)
  <2>1. /\ m = [score |-> call[c].now, draw |-> d]
        /\ Script(call[c].key, m, result)
        /\ (result = "allowed" /\ Remember(call[c].key, m)) \/ UNCHANGED admitted
    BY <1>1
  <2> HIDE DEF m
  <2> QED
    BY <1>2, <2>1, ScriptStore
<1>4. CallsInv'
  <2>1. CASE UNCHANGED call
    BY <1>2, <2>1, CallsKept
  <2>2. CASE Answered(c, result)
    BY <1>2, <2>2, AnsweredCalls
  <2>3. CASE Answered(c, "error")
    BY <1>2, <2>3, AnsweredCalls
  <2> QED
    BY <1>1, <2>1, <2>2, <2>3 DEF Lost
<1> QED
  BY <1>3, <1>4

(* Keys are deleted: each of those begins another life. *)
LEMMA DeleteLimiter ==
    ASSUME CallsInv, StoreInv, LoseData \/ \E k \in Keys : Reset(k)
    PROVE  CallsInv' /\ StoreInv'
<1>1. PICK gone \in SUBSET Keys :
          /\ \A k \in gone : life[k] < Deletions
          /\ zset' = [k \in Keys |-> IF k \in gone THEN {} ELSE zset[k]]
          /\ expires' = [k \in Keys |-> IF k \in gone THEN 0 ELSE expires[k]]
          /\ life' = [k \in Keys |-> IF k \in gone THEN life[k] + 1 ELSE life[k]]
          /\ UNCHANGED <<skew, admitted, call>>
  <2>1. CASE LoseData
    <3> WITNESS Keys \in SUBSET Keys
    <3> QED
      BY <2>1 DEF LoseData
  <2>2. ASSUME NEW k \in Keys, Reset(k)
        PROVE  \E gone \in SUBSET Keys :
          /\ \A j \in gone : life[j] < Deletions
          /\ zset' = [j \in Keys |-> IF j \in gone THEN {} ELSE zset[j]]
          /\ expires' = [j \in Keys |-> IF j \in gone THEN 0 ELSE expires[j]]
          /\ life' = [j \in Keys |-> IF j \in gone THEN life[j] + 1 ELSE life[j]]
          /\ UNCHANGED <<skew, admitted, call>>
    <3> WITNESS {k} \in SUBSET Keys
    <3> QED
      BY <2>2 DEF Reset, StoreInv, StoreTypes
  <2> QED
    BY <2>1, <2>2
<1>2. ASSUME NEW k \in Keys
      PROVE  /\ expires'[k] \in 0..2 * Window /\ life'[k] \in 0..Deletions
             /\ zset'[k] \in SUBSET Member
             /\ KeyInv(zset'[k], expires'[k], admitted'[k], life'[k])
  <2>1. /\ expires[k] \in 0..2 * Window /\ life[k] \in 0..Deletions
        /\ admitted[k] \in SUBSET Admission /\ zset[k] \in SUBSET Member
        /\ KeyInv(zset[k], expires[k], admitted[k], life[k])
    BY DEF StoreInv, StoreTypes
  <2>2. CASE k \in gone
    <3>1. /\ zset'[k] = {} /\ expires'[k] = 0 /\ life'[k] = life[k] + 1
          /\ admitted'[k] = admitted[k] /\ life[k] < Deletions
      BY <1>1, <2>2
    <3>2. KeyInv({}, 0, admitted[k], life[k] + 1)
      BY <2>1, KeyDeleted
    <3> QED
      BY <2>1, <3>1, <3>2
  <2>3. CASE k \notin gone
    BY <1>1, <2>1, <2>3
  <2> QED
    BY <2>2, <2>3
<1>3. StoreTypes'
  BY <1>1, <1>2 DEF StoreInv, StoreTypes
<1>4. (\A k \in Keys : KeyInv(zset[k], expires[k], admitted[k], life[k]))'
  BY <1>2 DEF KeyInv, ZsetInv, Remembered, Members, Width
<1> QED
  BY <1>1, <1>3, <1>4, CallsKept DEF StoreInv

(* Time passes for no call beyond its Stall. *)
LEMMA AdvanceCalls ==
    ASSUME CallsInv, Advance
    PROVE  CallsInv'
<1>1. skew' = skew /\ skew \in [Servers -> 0..Spread]
  BY DEF Advance, CallsInv
<1>2. ASSUME NEW c \in Callers PROVE call'[c] \in Call /\ CallInv(call[c])'
  <2>1. call[c] \in Call /\ CallInv(call[c])
    BY DEF CallsInv
  <2>2. CASE call[c].pc = "sent"
    <3> DEFINE q == [call[c] EXCEPT !.now = @ - 1]
               s == call[c].server
    <3>1. call'[c] = q
      BY <2>2 DEF Advance
    <3>2. /\ s \in Servers /\ skew[s] \in 0..Spread /\ call[c].now \in Int
          /\ skew[s] - Stall <= call[c].now /\ call[c].now <= skew[s]
          /\ skew[s] - call[c].now < Stall
      BY <2>1, <2>2, Stamps DEF CallInv, CallsInv, Call, Advance
    <3>3. /\ call[c].now - 1 \in Stamp /\ skew[s] - Stall <= call[c].now - 1
          /\ call[c].now - 1 <= skew[s]
      BY <3>2, Stamps DEF Stamp
    <3>4. q.pc = "sent" /\ q.server = s /\ q.key = call[c].key /\ q.now = call[c].now - 1
          /\ q \in Call
      BY <2>1, <2>2, <3>3 DEF Call
    <3> HIDE DEF q
    <3> QED
      BY <1>1, <2>1, <2>2, <3>1, <3>3, <3>4 DEF CallInv
  <2>3. CASE call[c].pc # "sent"
    <3>1. call'[c] = call[c]
      BY <2>3 DEF Advance
    <3> QED
      BY <1>1, <2>1, <3>1 DEF CallInv
  <2> QED
    BY <2>2, <2>3
<1>3. call' = [c \in Callers |-> call'[c]]
  BY DEF Advance
<1>4. call' \in [Callers -> Call]
  BY <1>2, <1>3
<1> QED
  BY <1>1, <1>2, <1>4 DEF CallsInv

(* What was admitted before the key was deleted stays within the limit.    *)
LEMMA PastAges ==
    ASSUME NEW h, NEW n, ZsetInv(Members(h, n)), NEW recent \in SUBSET h, NEW aged,
           aged = {[at |-> g.at - 1, member |-> Older(g.member), life |-> g.life] :
                     g \in recent}
    PROVE  ZsetInv(Members(aged, n))
<1> DEFINE old == Members(h, n)
           older == {Older(m) : m \in old}
<1>1. Members(aged, n) \in SUBSET older
  BY DEF Members
<1> HIDE DEF old
<1>2. ZsetInv(older)
  BY ZsetAges DEF old
<1> HIDE DEF older
<1> QED
  BY <1>1, <1>2, ZsetKeeps

(* Time passes: what is due expires, and the history forgets what is out   *)
(* of Width.                                                               *)
LEMMA AdvanceStore ==
    ASSUME StoreInv, Advance
    PROVE  StoreInv'
<1>1. ASSUME NEW k \in Keys
      PROVE  /\ expires'[k] \in 0..2 * Window
             /\ zset'[k] \in SUBSET Member
             /\ admitted'[k] \in SUBSET Admission
             /\ KeyInv(zset'[k], expires'[k], admitted'[k], life'[k])
  <2> DEFINE older == {Older(m) : m \in zset[k]}
             recent == {h \in admitted[k] : h.at - 1 > -Width}
             aged(g) == [at |-> g.at - 1, member |-> Older(g.member), life |-> g.life]
             all == {aged(g) : g \in recent}
  <2>1. /\ expires[k] \in 0..2 * Window /\ admitted[k] \in SUBSET Admission
        /\ life[k] \in 0..Deletions /\ life'[k] = life[k]
        /\ KeyInv(zset[k], expires[k], admitted[k], life[k]) /\ ZsetInv(zset[k])
    BY DEF StoreInv, StoreTypes, Advance, KeyInv
  <2>2. /\ expires'[k] = IF expires[k] = 0 THEN 0 ELSE expires[k] - 1
        /\ zset'[k] = IF expires'[k] = 0 THEN {} ELSE older
        /\ admitted'[k] = all
    BY DEF Advance
  <2> HIDE DEF older
  <2>3. expires'[k] \in 0..2 * Window
    BY <2>1, <2>2
  <2>4. ZsetInv(zset'[k])
    <3>1. ZsetInv(older)
      BY <2>1, ZsetAges DEF older
    <3> QED
      BY <2>2, <3>1, ZsetEmpty
  <2>5. ASSUME NEW h \in recent
        PROVE  /\ aged(h) \in Admission /\ aged(h).life <= life[k]
               /\ Width > 0 /\ aged(h).life = life[k] =>
                    Remembered(aged(h), zset'[k], expires'[k])
    <3>1. h \in admitted[k] /\ h \in Admission /\ h.at - 1 > -Width
      BY <2>1
    <3>2. /\ h.at \in Int /\ h.at <= 0 /\ h.member \in Member /\ h.member.score \in Int
          /\ h.life \in 0..Deletions /\ h.life <= life[k]
      BY <2>1, <3>1, MemberType DEF Admission, KeyInv
    <3>3. Older(h.member) \in Member /\ Older(h.member).score \in Int
          /\ Older(h.member).score >= h.member.score - 1
      BY <3>2, OlderType, MemberType
    <3>4. h.at - 1 \in -Window..0
      BY <3>1, <3>2, Stamps
    <3>5. /\ aged(h).at = h.at - 1 /\ aged(h).member = Older(h.member)
          /\ aged(h).life = h.life /\ aged(h) \in Admission
      BY <3>2, <3>3, <3>4 DEF Admission
    <3> HIDE DEF aged, recent
    <3>6. ASSUME Width > 0, h.life = life[k]
          PROVE  Remembered(aged(h), zset'[k], expires'[k])
      <4>1. Remembered(h, zset[k], expires[k])
        BY <2>1, <3>1, <3>6 DEF KeyInv
      <4>2. expires[k] >= 2 * Window + h.at /\ h.member.score >= h.at - Stall
            /\ h.member \in zset[k]
        BY <4>1 DEF Remembered
      <4>3. expires'[k] = expires[k] - 1 /\ expires'[k] # 0
        BY <2>1, <2>2, <3>1, <3>2, <4>2, Stamps
      <4>4. Older(h.member) \in zset'[k]
        BY <2>2, <4>2, <4>3 DEF older
      <4>5. expires'[k] >= 2 * Window + (h.at - 1)
        BY <2>1, <3>2, <4>2, <4>3
      <4>6. Older(h.member).score >= (h.at - 1) - Stall
        BY <3>2, <3>3, <4>2
      <4> QED
        BY <3>1, <3>5, <4>4, <4>5, <4>6 DEF Remembered
    <3> QED
      BY <3>2, <3>5, <3>6
  <2>6. ASSUME Width > 0, NEW n \in 0..Deletions, n < life[k]
        PROVE  ZsetInv(Members(all, n))
    <3>1. ZsetInv(Members(admitted[k], n)) /\ recent \in SUBSET admitted[k]
      BY <2>1, <2>6 DEF KeyInv
    <3> HIDE DEF recent
    <3> QED
      BY <3>1, PastAges
  <2>7. \A g \in all : /\ g \in Admission /\ g.life <= life[k]
                       /\ Width > 0 /\ g.life = life[k] =>
                            Remembered(g, zset'[k], expires'[k])
    <3> HIDE DEF aged, recent
    <3>1. \A g \in all : \E h \in recent : g = aged(h)
      OBVIOUS
    <3> QED
      BY <2>5, <3>1
  <2> HIDE DEF all
  <2>8. KeyInv(zset'[k], expires'[k], all, life[k])
    BY <2>4, <2>6, <2>7 DEF KeyInv
  <2>9. zset'[k] \in SUBSET Member /\ all \in SUBSET Admission
    BY <2>4, <2>7 DEF ZsetInv
  <2> QED
    BY <2>1, <2>2, <2>3, <2>8, <2>9
<1>2. /\ zset' = [k \in Keys |-> zset'[k]]
      /\ expires' = [k \in Keys |-> expires'[k]]
      /\ admitted' = [k \in Keys |-> admitted'[k]] /\ life' = life
  BY DEF Advance
<1>3. StoreTypes'
  BY <1>1, <1>2 DEF StoreInv, StoreTypes
<1>4. (\A k \in Keys : KeyInv(zset[k], expires[k], admitted[k], life[k]))'
  BY <1>1 DEF KeyInv, ZsetInv, Remembered, Members, Width
<1> QED
  BY <1>3, <1>4 DEF StoreInv

-----------------------------------------------------------------------------
(* The limiter that each server has in its memory *)

LoginTimes == (1 - LoginWindow)..0

(* The logins of a client are in order. *)
LogInv(s) ==
    /\ s \in Seq(LoginTimes)
    /\ \A j \in 1..Len(s) : \A i \in 1..j : s[i] <= s[j]

(* What a log of logins consists of. *)
LEMMA LogElements ==
    ASSUME NEW s, LogInv(s)
    PROVE  /\ Len(s) \in Nat /\ DOMAIN s = 1..Len(s)
           /\ s \in Seq(Int)
           /\ \A i \in 1..Len(s) : s[i] \in Int /\ 1 - LoginWindow <= s[i] /\ s[i] <= 0
<1>1. LoginTimes \in SUBSET Int
  BY DEF LoginTimes
<1>2. s \in Seq(Int)
  BY <1>1, SeqMonotonic DEF LogInv
<1>3. \A i \in 1..Len(s) : s[i] \in LoginTimes
  BY ElementOfSeq DEF LogInv
<1>4. Len(s) \in Nat /\ DOMAIN s = 1..Len(s)
  BY <1>2, LenProperties
<1> QED
  BY <1>2, <1>3, <1>4 DEF LoginTimes

(* A server starts with empty logs. *)
LEMMA LogEmpty == LogInv(<<>>)
BY EmptySeq DEF LogInv

(* A login is the latest of its log. *)
LEMMA LogAppends ==
    ASSUME NEW s, LogInv(s)
    PROVE  LogInv(Append(s, 0))
<1> DEFINE u == Append(s, 0)
<1>1. 0 \in LoginTimes
  BY DEF LoginTimes
<1>2. /\ u \in Seq(LoginTimes) /\ Len(u) = Len(s) + 1 /\ u[Len(s) + 1] = 0
      /\ \A i \in 1..Len(s) : u[i] = s[i]
  BY <1>1, AppendProperties DEF LogInv
<1>3. Len(s) \in Nat /\ \A i \in 1..Len(s) : s[i] \in Int /\ s[i] <= 0
  BY LogElements
<1> HIDE DEF u
<1>4. ASSUME NEW j \in 1..Len(u), NEW i \in 1..j PROVE u[i] <= u[j]
  <2>1. CASE j \in 1..Len(s)
    <3>1. i \in 1..Len(s) /\ s[i] <= s[j]
      BY <1>3, <2>1 DEF LogInv
    <3> QED
      BY <1>2, <2>1, <3>1
  <2>2. CASE j = Len(s) + 1
    <3>1. CASE i = j
      BY <1>2, <2>2, <3>1
    <3>2. CASE i \in 1..Len(s)
      BY <1>2, <1>3, <2>2, <3>2
    <3> QED
      BY <1>3, <2>2, <3>1, <3>2
  <2> QED
    BY <1>2, <1>3, <2>1, <2>2
<1> QED
  BY <1>2, <1>4 DEF LogInv, u

(* The prefix that leaves the window holds all that is too old. *)
LEMMA LogAges ==
    ASSUME NEW s, LogInv(s)
    PROVE  LogInv(Aged(s))
<1> DEFINE n == Len(s)
           left == {i \in DOMAIN s : s[i] <= 1 - LoginWindow}
           m == Cardinality(left)
           kept == SubSeq(s, m + 1, n)
           a == Aged(s)
<1>1. /\ n \in Nat /\ DOMAIN s = 1..n
      /\ \A i \in 1..n : s[i] \in Int /\ 1 - LoginWindow <= s[i] /\ s[i] <= 0
      /\ \A j \in 1..n : \A i \in 1..j : s[i] <= s[j]
  BY LogElements DEF LogInv
<1>2. IsFiniteSet(left) /\ m \in Nat /\ m <= n
  <2>1. IsFiniteSet(1..n) /\ Cardinality(1..n) = n
    <3>1. n \in Nat
      BY <1>1
    <3> HIDE DEF n
    <3> QED
      BY <3>1, FS_Interval
  <2>2. left \in SUBSET (1..n)
    BY <1>1
  <2> HIDE DEF left
  <2> QED
    BY <2>1, <2>2, FS_Subset, FS_CardinalityType
<1>3. kept = SubSeq(s, m + 1, n) /\ a = [i \in DOMAIN kept |-> kept[i] - 1]
  BY DEF Aged
<1>4. ASSUME NEW p \in 1..n, m < p PROVE s[p] > 1 - LoginWindow
  <2> SUFFICES ASSUME s[p] <= 1 - LoginWindow PROVE FALSE
    BY <1>1
  <2>1. ASSUME NEW i \in 1..p PROVE i \in left
    <3>1. i \in 1..n /\ s[i] <= s[p]
      BY <1>1
    <3> QED
      BY <1>1, <3>1
  <2>2. Cardinality(1..p) = p /\ IsFiniteSet(1..p)
    BY FS_Interval
  <2>3. (1..p) \in SUBSET left
    BY <2>1
  <2> HIDE DEF left
  <2>4. p <= m
    BY <1>2, <2>2, <2>3, FS_Subset
  <2> QED
    BY <1>2, <1>4, <2>4
<1> HIDE DEF left, m, n
<1>5. /\ kept \in Seq(Int) /\ Len(kept) = n - m
      /\ \A i \in 1..(n - m) : kept[i] = s[m + i]
  <2>1. \A i \in (m + 1)..n : s[i] \in Int
    BY <1>1, <1>2
  <2>2. /\ SubSeq(s, m + 1, n) \in Seq(Int)
        /\ Len(SubSeq(s, m + 1, n)) = IF m + 1 <= n THEN n - (m + 1) + 1 ELSE 0
        /\ \A i \in 1..(n - (m + 1) + 1) : SubSeq(s, m + 1, n)[i] = s[(m + 1) + i - 1]
    BY <1>1, <1>2, <2>1, SubSeqProperties
  <2>3. n - (m + 1) + 1 = n - m
    BY <1>1, <1>2
  <2>4. \A i \in 1..(n - m) : (m + 1) + i - 1 = m + i
    BY <1>1, <1>2
  <2> HIDE DEF kept
  <2> QED
    BY <1>1, <1>2, <1>3, <2>2, <2>3, <2>4
<1>6. DOMAIN kept = 1..(n - m) /\ n - m \in Nat
  BY <1>1, <1>2, <1>5, LenProperties
<1> HIDE DEF kept
<1>7. a = [i \in 1..(n - m) |-> kept[i] - 1]
  BY <1>3, <1>6
<1>8. ASSUME NEW i \in 1..(n - m)
      PROVE  /\ m + i \in 1..n /\ a[i] = s[m + i] - 1 /\ a[i] \in LoginTimes
  <2>1. m + i \in 1..n /\ m < m + i
    BY <1>1, <1>2
  <2>2. a[i] = s[m + i] - 1
    BY <1>5, <1>7
  <2>3. s[m + i] > 1 - LoginWindow /\ s[m + i] \in Int /\ s[m + i] <= 0
    BY <1>1, <1>4, <2>1
  <2> HIDE DEF a
  <2> QED
    BY <2>1, <2>2, <2>3 DEF LoginTimes
<1>9. a \in [1..(n - m) -> LoginTimes]
  BY <1>7, <1>8
<1>10. a \in Seq(LoginTimes)
  BY <1>6, <1>9, SeqDef
<1>11. Len(a) = n - m
  <2>1. Len(a) \in Nat /\ DOMAIN a = 1..Len(a)
    BY <1>10, LenProperties
  <2>2. DOMAIN a = 1..(n - m)
    BY <1>9
  <2> HIDE DEF a
  <2> QED
    BY <1>6, <2>1, <2>2
<1> HIDE DEF a
<1>12. ASSUME NEW j \in 1..(n - m), NEW i \in 1..j PROVE a[i] <= a[j]
  <2>1. i \in 1..(n - m)
    BY <1>6
  <2>2. /\ m + i \in 1..n /\ a[i] = s[m + i] - 1
        /\ m + j \in 1..n /\ a[j] = s[m + j] - 1
    BY <1>8, <2>1
  <2>3. m + i \in 1..(m + j)
    BY <1>2, <2>2
  <2>4. s[m + i] <= s[m + j] /\ s[m + i] \in Int /\ s[m + j] \in Int
    BY <1>1, <2>2, <2>3
  <2> QED
    BY <2>2, <2>4
<1> QED
  BY <1>10, <1>11, <1>12 DEF LogInv, a

-----------------------------------------------------------------------------
(* The inductive invariant *)

GateInv ==
    /\ route \in [Callers -> Routes \cup {Nil}]
    /\ refused \in BOOLEAN
    /\ charged = logins
    /\ logins \in [Servers -> [Keys -> Seq(LoginTimes)]]
    /\ \A s \in Servers, k \in Keys : LogInv(logins[s][k])

IInv == CallsInv /\ StoreInv /\ GateInv

(* What the invariant says of the types and of the logins. *)
LEMMA TypeFromInv == IInv => TypeOK /\ LoginsCharged
<1> SUFFICES ASSUME IInv PROVE TypeOK /\ LoginsCharged
  OBVIOUS
<1>1. \A k \in Keys : Cardinality(zset[k]) <= Limit
  BY DEF IInv, StoreInv, KeyInv, ZsetInv
<1>2. LimiterTypeOK
  BY <1>1 DEF IInv, CallsInv, StoreInv, StoreTypes, LimiterTypeOK
<1>3. TypeOK
  BY <1>2 DEF IInv, GateInv, LoginTimes, TypeOK
<1>4. LoginsCharged
  BY DEF IInv, GateInv, LoginsCharged
<1> QED
  BY <1>3, <1>4

(* The members admitted in the present life of a key are all in its sorted  *)
(* set, which has no more than Limit; those of a life before it were.        *)
LEMMA AdmittedFromInv ==
    IInv => (Width > 0 => AdmittedWithinLimit)
<1> SUFFICES ASSUME IInv, Width > 0, NEW k \in Keys, NEW n \in 0..Deletions
             PROVE  Cardinality(Members(admitted[k], n)) <= Limit
  BY DEF AdmittedWithinLimit
<1>1. /\ KeyInv(zset[k], expires[k], admitted[k], life[k])
      /\ life[k] \in 0..Deletions /\ admitted[k] \in SUBSET Admission
  BY DEF IInv, StoreInv, StoreTypes
<1>2. CASE n < life[k]
  BY <1>1, <1>2 DEF KeyInv, ZsetInv
<1>3. CASE n = life[k]
  <2>1. Members(admitted[k], n) \in SUBSET zset[k]
    BY <1>1, <1>3 DEF KeyInv, Remembered, Members
  <2> QED
    BY <1>1, <2>1, ZsetKeeps DEF KeyInv, ZsetInv
<1>4. CASE n > life[k]
  <2>1. \A g \in admitted[k] : g.life # n
    BY <1>1, <1>4 DEF KeyInv, Admission
  <2>2. Members(admitted[k], n) = {}
    BY <2>1 DEF Members
  <2> QED
    BY <2>2, FS_EmptySet
<1> QED
  BY <1>1, <1>2, <1>3, <1>4

(* The servers start with no call, nothing stored and no login. *)
LEMMA InvInit == Init => IInv
<1> SUFFICES ASSUME Init PROVE IInv
  OBVIOUS
<1>1. skew \in [Servers -> 0..Spread]
  BY DEF Init, LimiterInit
<1>2. CallsInv
  <2> HIDE DEF Idle
  <2>1. call = [c \in Callers |-> Idle]
    BY DEF Init, LimiterInit
  <2> QED
    BY <1>1, <2>1, IdleCall DEF CallsInv
<1>3. StoreInv
  <2>1. 0 \in 0..2 * Window /\ 0 \in 0..Deletions
    OBVIOUS
  <2>2. StoreTypes
    BY <2>1 DEF Init, LimiterInit, StoreTypes
  <2>3. KeyInv({}, 0, {}, 0)
    BY ZsetEmpty DEF KeyInv
  <2> QED
    BY <2>2, <2>3 DEF Init, LimiterInit, StoreInv
<1>4. GateInv
  <2>1. <<>> \in Seq(LoginTimes)
    BY EmptySeq
  <2> QED
    BY <2>1, LogEmpty DEF Init, GateInv
<1> QED
  BY <1>2, <1>3, <1>4 DEF IInv

(* Logs that nobody touches keep their part of the invariant. *)
LEMMA GateKept ==
    ASSUME GateInv, UNCHANGED <<charged, logins>>, refused' \in BOOLEAN,
           route' \in [Callers -> Routes \cup {Nil}]
    PROVE  GateInv'
BY DEF GateInv

(* A request arrives at its route. *)
LEMMA StepArrive ==
    ASSUME IInv, NEW c \in Callers, NEW s \in Servers, NEW k \in Keys,
           NEW rt \in Routes, Arrive(c, s, k, rt)
    PROVE  IInv'
<1>1. UNCHANGED <<charged, logins>> /\ refused' = FALSE
  BY DEF Arrive
<1>2. route' \in [Callers -> Routes \cup {Nil}]
  BY DEF Arrive, IInv, GateInv
<1>3. GateInv'
  BY <1>1, <1>2, GateKept DEF IInv
<1>4. CASE UNCHANGED limiter
  BY <1>3, <1>4, CallsKept, StoreKept DEF limiter, store, history, IInv
<1>5. CASE Start(c, s, k)
  <2>1. CallsInv'
    BY <1>5, StartCalls DEF IInv
  <2>2. StoreInv'
    BY <1>5, StoreKept DEF Start, store, history, IInv
  <2> QED
    BY <1>3, <2>1, <2>2 DEF IInv
<1> QED
  BY <1>4, <1>5 DEF Arrive

(* The shared limiter moves and the logs stay. *)
LEMMA StepLimiter ==
    ASSUME IInv, Quietly,
           \/ \E c \in Callers : Run(c) \/ Fail(c)
           \/ LoseData \/ \E k \in Keys : Reset(k)
    PROVE  IInv'
<1>1. GateInv'
  BY GateKept DEF Quietly, IInv, GateInv
<1>2. ASSUME NEW c \in Callers, Run(c) PROVE CallsInv' /\ StoreInv'
  BY <1>2, RunLimiter DEF IInv
<1>3. ASSUME NEW c \in Callers, Fail(c) PROVE CallsInv' /\ StoreInv'
  <2>1. CallsInv'
    BY <1>3, AnsweredCalls DEF Fail, IInv
  <2>2. StoreInv'
    BY <1>3, StoreKept DEF Fail, store, history, IInv
  <2> QED
    BY <2>1, <2>2
<1>4. CASE LoseData \/ \E k \in Keys : Reset(k)
  BY <1>1, <1>4, DeleteLimiter DEF IInv
<1> QED
  BY <1>1, <1>2, <1>3, <1>4 DEF IInv

(* The login limiter lets a login through or refuses it. *)
LEMMA LoginGate ==
    ASSUME GateInv, NEW c \in Callers, call[c].server \in Servers,
           call[c].key \in Keys, Login(c)
    PROVE  /\ charged' = logins'
           /\ logins' \in [Servers -> [Keys -> Seq(LoginTimes)]]
           /\ \A s \in Servers, k \in Keys : LogInv(logins'[s][k])
           /\ refused' \in BOOLEAN
           /\ refused' => Len(logins[call[c].server][call[c].key]) >= LoginLimit
<1> DEFINE s == call[c].server
           k == call[c].key
           log == logins[s][k]
<1>1. /\ charged = logins /\ LogInv(log) /\ s \in Servers /\ k \in Keys
      /\ logins \in [Servers -> [Keys -> Seq(LoginTimes)]]
  BY DEF GateInv
<1> HIDE DEF log
<1>2. CASE /\ charged' = [charged EXCEPT ![s][k] = Append(@, 0)]
           /\ logins' = [logins EXCEPT ![s][k] = Append(@, 0)]
           /\ refused' = FALSE
  <2> DEFINE u == Append(log, 0)
  <2>1. LogInv(u)
    BY <1>1, LogAppends
  <2>2. logins' = [logins EXCEPT ![s][k] = u] /\ charged' = logins'
    BY <1>1, <1>2 DEF log
  <2>3. u \in Seq(LoginTimes)
    BY <2>1 DEF LogInv
  <2> HIDE DEF u, s, k
  <2>4. logins' \in [Servers -> [Keys -> Seq(LoginTimes)]]
    BY <1>1, <2>2, <2>3
  <2>5. ASSUME NEW r \in Servers, NEW l \in Keys PROVE LogInv(logins'[r][l])
    <3>1. CASE r = s /\ l = k
      <4>1. logins'[r][l] = u
        BY <1>1, <2>2, <3>1
      <4> QED
        BY <2>1, <4>1
    <3>2. CASE ~(r = s /\ l = k)
      <4>1. logins'[r][l] = logins[r][l]
        BY <1>1, <2>2, <3>2
      <4> QED
        BY <4>1 DEF GateInv
    <3> QED
      BY <3>1, <3>2
  <2> QED
    BY <1>2, <2>2, <2>4, <2>5
<1>3. CASE /\ Len(log) >= LoginLimit
           /\ refused' = TRUE
           /\ UNCHANGED <<charged, logins>>
  BY <1>1, <1>3 DEF GateInv, log
<1> QED
  BY <1>1, <1>2, <1>3 DEF Login, log

(* A request goes on with the answer of the shared limiter. *)
LEMMA StepProceed ==
    ASSUME IInv, NEW c \in Callers, Proceed(c)
    PROVE  IInv'
<1>1. /\ call' = [call EXCEPT ![c] = Idle]
      /\ UNCHANGED <<skew, zset, expires, life, admitted>>
      /\ call[c].pc = "answered"
  BY DEF Proceed, store, history
<1>2. call[c].server \in Servers /\ call[c].key \in Keys
  BY <1>1 DEF IInv, CallsInv, CallInv
<1>3. CallsInv'
  <2> HIDE DEF Idle
  <2> QED
    BY <1>1, IdleCall, CallSet DEF IInv
<1>4. StoreInv'
  BY <1>1, StoreKept DEF IInv
<1>5. route' \in [Callers -> Routes \cup {Nil}]
  BY DEF Proceed, IInv, GateInv
<1>6. GateInv'
  <2>1. CASE Login(c)
    BY <1>2, <1>5, <2>1, LoginGate DEF IInv, GateInv
  <2>2. CASE UNCHANGED <<charged, logins>> /\ refused' \in BOOLEAN
    BY <1>5, <2>2, GateKept DEF IInv
  <2> QED
    BY <2>1, <2>2 DEF Proceed, Refuse, Admit
<1> QED
  BY <1>3, <1>4, <1>6 DEF IInv

(* A server restarts: its calls and its logs are gone. *)
LEMMA StepRestart ==
    ASSUME IInv, NEW s \in Servers, Restart(s)
    PROVE  IInv'
<1> DEFINE lost == {c \in Callers : call[c].server = s}
           none == [k \in Keys |-> <<>>]
<1>1. /\ charged' = [charged EXCEPT ![s] = none]
      /\ logins' = [logins EXCEPT ![s] = none]
      /\ call' = [c \in Callers |-> IF c \in lost THEN Idle ELSE call[c]]
      /\ route' = [c \in Callers |-> IF c \in lost THEN Nil ELSE route[c]]
      /\ refused' = FALSE
      /\ UNCHANGED <<skew, zset, expires, life, admitted>>
  BY DEF Restart, store, history
<1>2. StoreInv'
  BY <1>1, StoreKept DEF IInv
<1> HIDE DEF lost
<1>3. CallsInv'
  <2> HIDE DEF Idle
  <2>1. ASSUME NEW c \in Callers PROVE call'[c] \in Call /\ CallInv(call[c])'
    <3>1. call'[c] = Idle \/ call'[c] = call[c]
      BY <1>1
    <3>2. call[c] \in Call /\ CallInv(call[c])
      BY DEF IInv, CallsInv
    <3> QED
      BY <1>1, <3>1, <3>2, IdleCall DEF CallInv
  <2>2. call' \in [Callers -> Call]
    BY <1>1, <2>1
  <2> QED
    BY <1>1, <2>1, <2>2 DEF IInv, CallsInv
<1>4. GateInv'
  <2>1. none \in [Keys -> Seq(LoginTimes)] /\ \A k \in Keys : none[k] = <<>>
    BY EmptySeq
  <2> HIDE DEF none
  <2>2. route' \in [Callers -> Routes \cup {Nil}]
    BY <1>1 DEF IInv, GateInv
  <2>3. charged' = logins' /\ logins' \in [Servers -> [Keys -> Seq(LoginTimes)]]
    BY <1>1, <2>1 DEF IInv, GateInv
  <2>4. ASSUME NEW r \in Servers, NEW k \in Keys PROVE LogInv(logins'[r][k])
    <3>1. logins'[r] = IF r = s THEN none ELSE logins[r]
      BY <1>1 DEF IInv, GateInv
    <3> QED
      BY <2>1, <3>1, LogEmpty DEF IInv, GateInv
  <2> QED
    BY <1>1, <2>2, <2>3, <2>4 DEF GateInv
<1> QED
  BY <1>2, <1>3, <1>4 DEF IInv

(* Time passes for both limiters. *)
LEMMA StepTimePasses ==
    ASSUME IInv, TimePasses
    PROVE  IInv'
<1>1. CallsInv' /\ StoreInv'
  BY AdvanceCalls, AdvanceStore DEF IInv, TimePasses
<1>2. GateInv'
  <2>1. /\ logins' = [s \in Servers |-> [k \in Keys |-> Aged(logins[s][k])]]
        /\ charged' = [s \in Servers |-> [k \in Keys |-> Aged(charged[s][k])]]
        /\ refused' = FALSE /\ route' = route
        /\ charged = logins
    BY DEF TimePasses, IInv, GateInv
  <2>2. ASSUME NEW s \in Servers, NEW k \in Keys
        PROVE  LogInv(Aged(logins[s][k])) /\ Aged(logins[s][k]) \in Seq(LoginTimes)
    <3>1. LogInv(Aged(logins[s][k]))
      BY LogAges DEF IInv, GateInv
    <3> QED
      BY <3>1 DEF LogInv
  <2> QED
    BY <2>1, <2>2 DEF IInv, GateInv
<1> QED
  BY <1>1, <1>2 DEF IInv

(* Every step keeps the invariant. *)
LEMMA InvStep == IInv /\ [Next]_vars => IInv'
<1> SUFFICES ASSUME IInv, [Next]_vars PROVE IInv'
  OBVIOUS
<1>1. CASE UNCHANGED vars
  BY <1>1, CallsKept, StoreKept DEF vars, gate, limiter, store, history, IInv, GateInv
<1>2. ASSUME NEW c \in Callers, Serve(c) PROVE IInv'
  BY <1>2, StepArrive, StepLimiter, StepProceed DEF Serve
<1>3. CASE (LoseData \/ \E k \in Keys : Reset(k)) /\ Quietly
  BY <1>3, StepLimiter
<1>4. ASSUME NEW s \in Servers, Restart(s) PROVE IInv'
  BY <1>4, StepRestart
<1> QED
  BY <1>1, <1>2, <1>3, <1>4, StepTimePasses DEF Next

-----------------------------------------------------------------------------
(* What follows from it *)

(* The inductive invariant: what was admitted in the last Width and in the   *)
(* present life of its key is still in the sorted set, what was admitted in  *)
(* an earlier life is within the limit, and the log of every client is in    *)
(* order.                                                                    *)
THEOREM GateInvariance == Spec => []IInv
BY InvInit, InvStep, PTL DEF Spec

(* Both limiters keep their types; no sorted set holds more than Limit. *)
THEOREM GateTypeCorrect == Spec => []TypeOK
<1>1. IInv => TypeOK
  BY TypeFromInv
<1> QED
  BY <1>1, GateInvariance, PTL

(* Between two deletions of a key the servers together tell callers to let   *)
(* through at most Limit members of it in any Width, a Window less the       *)
(* spread of the clocks and the longest stall, when that leaves anything of  *)
(* the Window.                                                               *)
THEOREM SharedLimitHolds == Spec => [](Width > 0 => AdmittedWithinLimit)
<1>1. IInv => (Width > 0 => AdmittedWithinLimit)
  BY AdmittedFromInv
<1> QED
  BY <1>1, GateInvariance, PTL

(* A login reaches its handler when it is charged to the login limiter, and  *)
(* only then, however the shared limiter fails or refuses.                   *)
THEOREM LoginsAreCharged == Spec => []LoginsCharged
<1>1. IInv => LoginsCharged
  BY TypeFromInv
<1> QED
  BY <1>1, GateInvariance, PTL

(* The step of RefusedOnlyWhenFull. *)
LEMMA RefuseStep ==
    ASSUME IInv, [Next]_vars, NEW c \in Callers,
           call[c].pc = "answered", call'[c].pc = "idle",
           call[c].result # "denied", refused'
    PROVE  Len(logins[call[c].server][call[c].key]) >= LoginLimit
<1>1. call \in [Callers -> Call] /\ call' # call /\ call'[c] # call[c]
  BY DEF IInv, CallsInv
<1>2. PICK d \in Callers : Proceed(d)
  <2>1. ~TimePasses /\ ~(\E s \in Servers : Restart(s)) /\ ~Quietly
    BY DEF TimePasses, Restart, Quietly
  <2>2. ~(\E d \in Callers, s \in Servers, k \in Keys, rt \in Routes : Arrive(d, s, k, rt))
    BY DEF Arrive
  <2> QED
    BY <1>1, <2>1, <2>2 DEF Next, Serve, vars, limiter
<1>3. d = c
  BY <1>1, <1>2 DEF Proceed
<1>4. call[c].server \in Servers /\ call[c].key \in Keys
  BY DEF IInv, CallsInv, CallInv
<1>5. Login(c)
  BY <1>2, <1>3 DEF Proceed, Admit
<1> QED
  BY <1>4, <1>5, LoginGate DEF IInv

(* A login that got past the shared limiter is refused only when LoginLimit  *)
(* logins of its client have reached their handler in the LoginWindow.       *)
THEOREM RefusedOnlyWhenFull == Spec => LoginRefusedOnlyWhenFull
<1>1. IInv /\ [Next]_vars =>
        [\A c \in Callers :
           /\ call[c].pc = "answered" /\ call'[c].pc = "idle"
           /\ call[c].result # "denied" /\ refused'
           => Len(logins[call[c].server][call[c].key]) >= LoginLimit]_vars
  BY RefuseStep
<1> QED
  BY <1>1, GateInvariance, PTL DEF Spec, LoginRefusedOnlyWhenFull
=============================================================================
