----------------------- MODULE ScenarioDecisionProofs -----------------------
(***************************************************************************)
(* For every set of proposals: the applied weights lie in their bands and  *)
(* sum to the whole, the expected return lies among the cases' returns,    *)
(* the reported sensitivity is that of the weights, the prior is held, and *)
(* the synthesizer is asked at most twice.                                 *)
(***************************************************************************)
EXTENDS ScenarioDecision, FiniteSetTheorems, TLAPS

\* The numbers stay what evaluate_scenarios made of the proposal, whatever the synthesizer
\* answers, and it has attempts left while it is being asked.
PInv ==
    /\ proposal \in Proposals
    /\ Evaluated => /\ weights = Bounded[proposal.request]
                    /\ expected = Expected(weights, proposal.returns)
                    /\ flip = Flip(weights, proposal.returns)
                    /\ chance = Chance(Applied(proposal.tilt, proposal.red))
    /\ tries \in 0..2
    /\ pc = "proposed" => tries = 0
    /\ pc = "evaluated" => tries < 2
    /\ pc \in {"proposed", "evaluated", "accepted", "failed"}

LEMMA InitInv == Init => PInv
  BY DEF Init, PInv, Evaluated

LEMMA StepInv == PInv /\ [Next]_vars => PInv'
  <1> SUFFICES ASSUME PInv, [Next]_vars PROVE PInv'
    OBVIOUS
  <1> USE DEF PInv, Evaluated
  <1>1. CASE Evaluate
    BY <1>1 DEF Evaluate
  <1>2. ASSUME NEW c \in Cards, Synthesize(c) PROVE PInv'
    <2>1. /\ tries' = tries + 1 /\ tries \in {0, 1}
          /\ UNCHANGED numbers
      BY <1>2 DEF Synthesize
    <2>2. /\ pc' \in {"accepted", "evaluated", "failed"}
          /\ pc' = "evaluated" => tries' < 2
      BY <1>2 DEF Synthesize
    <2> QED
      BY <1>2, <2>1, <2>2 DEF Synthesize, numbers
  <1>3. CASE Over \/ UNCHANGED vars
    BY <1>3 DEF Over, vars
  <1> QED
    BY <1>1, <1>2, <1>3 DEF Next, Decide

-----------------------------------------------------------------------------
(* Weights.                                                                 *)

K(a)          == a.of \div Unit
Rest(a)       == a.of - Total(a.w)
Room(a, c)    == IF Rest(a) > 0 THEN High(c) * K(a) - a.w[c] ELSE a.w[c] - Low(c) * K(a)
Movable(a, S) == {c \in S : Room(a, c) > 0}
Share(a, S)   == TotalOn(a.w, Movable(a, S))
Moved(a, S, c) ==
    IF c \in Movable(a, S)
    THEN Clip(Rest(a) * a.w[c], -(Share(a, S) * Room(a, c)), Share(a, S) * Room(a, c))
    ELSE 0

\* A weighing in its band.
Banded(a) ==
    /\ K(a) \in Nat \ {0} /\ a.of = Unit * K(a)
    /\ a.w \in [Cases -> Int]
    /\ \A c \in Cases : Low(c) * K(a) <= a.w[c] /\ a.w[c] <= High(c) * K(a)

\* The band of each case.
LEMMA Bands ==
    ASSUME NEW c \in Cases
    PROVE  Low(c) \in 1..7 /\ High(c) \in 7..13 /\ High(c) = Low(c) + 6
  BY DEF Cases, Low, High, Default, Band

\* Sums over the cases, and over some of them.
LEMMA ByCaseIs ==
    ASSUME NEW f
    PROVE  /\ TotalOn(f, {}) = 0
           /\ Total(f) = f["bear"] + f["base"] + f["bull"]
           /\ \A S : TotalOn(f, S) = (IF "bear" \in S THEN f["bear"] ELSE 0)
                          + (IF "base" \in S THEN f["base"] ELSE 0)
                          + (IF "bull" \in S THEN f["bull"] ELSE 0)
  BY DEF TotalOn, Total, ByCase

\* One round, in the words of the definitions above.
LEMMA SpreadIs ==
    ASSUME NEW a, NEW S
    PROVE  Spread(a, S) =
             IF Rest(a) = 0 \/ Movable(a, S) = {} THEN a
             ELSE [w  |-> [bear |-> Share(a, S) * a.w["bear"] + Moved(a, S, "bear"),
                           base |-> Share(a, S) * a.w["base"] + Moved(a, S, "base"),
                           bull |-> Share(a, S) * a.w["bull"] + Moved(a, S, "bull")],
                   of |-> Share(a, S) * a.of]
  BY DEF Spread, Rest, Room, Movable, Share, Moved, K, ByCase

\* A case of weight w (of Unit * k) moves by d while rest, above zero, is missing.
Raises(k, share, rest, w, lo, hi, d) ==
    /\ k \in Nat \ {0} /\ share \in Nat \ {0} /\ rest \in Nat \ {0}
    /\ w \in Nat /\ lo \in Nat /\ hi \in Nat /\ lo * k <= w /\ w <= hi * k
    /\ d = Clip(rest * w, -(share * (hi * k - w)), share * (hi * k - w))

Raised(k, share, rest, w, lo, hi, d) ==
    /\ d \in Int /\ d <= rest * w
    /\ lo * (share * k) <= share * w + d /\ share * w + d <= hi * (share * k)
    /\ d = rest * w \/ share * w + d = hi * (share * k)

\* And while rest, below zero, is too much.
Lowers(k, share, rest, w, lo, hi, d) ==
    /\ k \in Nat \ {0} /\ share \in Nat \ {0} /\ rest \in Int /\ rest < 0
    /\ w \in Nat /\ lo \in Nat /\ hi \in Nat /\ lo * k <= w /\ w <= hi * k
    /\ d = Clip(rest * w, -(share * (w - lo * k)), share * (w - lo * k))

Lowered(k, share, rest, w, lo, hi, d) ==
    /\ d \in Int /\ d >= rest * w
    /\ lo * (share * k) <= share * w + d /\ share * w + d <= hi * (share * k)
    /\ d = rest * w \/ share * w + d = lo * (share * k)

\* What a case moves while weight is missing: no more than its part of what is missing and
\* its room, and one of the two exactly.
LEMMA MovesUp ==
    \A k, share, rest, w, lo, hi, d :
        Raises(k, share, rest, w, lo, hi, d) => Raised(k, share, rest, w, lo, hi, d)
  <1> SUFFICES ASSUME NEW k \in Nat \ {0}, NEW share \in Nat \ {0}, NEW rest \in Nat \ {0},
                      NEW w \in Nat, NEW lo \in Nat, NEW hi \in Nat, lo * k <= w, w <= hi * k,
                      NEW d, d = Clip(rest * w, -(share * (hi * k - w)), share * (hi * k - w))
               PROVE  Raised(k, share, rest, w, lo, hi, d)
    BY DEF Raises
  <1> DEFINE room == hi * k - w
             most == share * room
             part == rest * w
  <1>1. room \in Nat /\ part \in Nat /\ hi * k \in Nat /\ lo * k \in Nat
    OBVIOUS
  <1>2. most \in Nat
    BY <1>1
  <1>3. /\ share * w + most = share * (hi * k) /\ share * (hi * k) = hi * (share * k)
        /\ share * (lo * k) = lo * (share * k) /\ share * (lo * k) <= share * w
    <2>1. share * w + share * room = share * (w + room)
      BY <1>1
    <2>2. w + room = hi * k
      OBVIOUS
    <2>3. share * (hi * k) = hi * (share * k) /\ share * (lo * k) = lo * (share * k)
      OBVIOUS
    <2>4. share * (lo * k) <= share * w
      BY <1>1
    <2> QED BY <2>1, <2>2, <2>3, <2>4
  <1>4. d = Clip(part, -most, most)
    OBVIOUS
  <1>5. share * w \in Nat /\ lo * (share * k) \in Nat /\ hi * (share * k) \in Nat
    OBVIOUS
  <1> HIDE DEF most, part, room
  <1>6. d \in Nat /\ d <= part /\ d <= most /\ (d = part \/ d = most)
    BY <1>1, <1>2, <1>4 DEF Clip
  <1>7. lo * (share * k) <= share * w + d /\ share * w + d <= hi * (share * k)
    BY <1>2, <1>3, <1>5, <1>6
  <1>8. d = most => share * w + d = hi * (share * k)
    BY <1>3
  <1> QED BY <1>6, <1>7, <1>8 DEF part, Raised

\* The same while there is too much.
LEMMA MovesDown ==
    \A k, share, rest, w, lo, hi, d :
        Lowers(k, share, rest, w, lo, hi, d) => Lowered(k, share, rest, w, lo, hi, d)
  <1> SUFFICES ASSUME NEW k \in Nat \ {0}, NEW share \in Nat \ {0}, NEW rest \in Int, rest < 0,
                      NEW w \in Nat, NEW lo \in Nat, NEW hi \in Nat, lo * k <= w, w <= hi * k,
                      NEW d, d = Clip(rest * w, -(share * (w - lo * k)), share * (w - lo * k))
               PROVE  Lowered(k, share, rest, w, lo, hi, d)
    BY DEF Lowers
  <1> DEFINE room == w - lo * k
             most == share * room
             part == rest * w
  <1>1. room \in Nat /\ part \in Int /\ part <= 0 /\ hi * k \in Nat /\ lo * k \in Nat
    OBVIOUS
  <1>2. most \in Nat
    BY <1>1
  <1>3. /\ share * w - most = share * (lo * k) /\ share * (hi * k) = hi * (share * k)
        /\ share * (lo * k) = lo * (share * k) /\ share * w <= share * (hi * k)
    <2>1. share * w - share * room = share * (w - room)
      BY <1>1
    <2>2. w - room = lo * k
      OBVIOUS
    <2>3. share * (hi * k) = hi * (share * k) /\ share * (lo * k) = lo * (share * k)
      OBVIOUS
    <2>4. share * w <= share * (hi * k)
      BY <1>1
    <2> QED BY <2>1, <2>2, <2>3, <2>4
  <1>4. d = Clip(part, -most, most)
    OBVIOUS
  <1>5. share * w \in Nat /\ lo * (share * k) \in Nat /\ hi * (share * k) \in Nat
    OBVIOUS
  <1> HIDE DEF most, part, room
  <1>6. d \in Int /\ d <= 0 /\ d >= part /\ d >= -most /\ (d = part \/ d = -most)
    BY <1>1, <1>2, <1>4 DEF Clip
  <1>7. lo * (share * k) <= share * w + d /\ share * w + d <= hi * (share * k)
    BY <1>2, <1>3, <1>5, <1>6
  <1>8. d = -most => share * w + d = lo * (share * k)
    BY <1>3, <1>2, <1>5
  <1> QED BY <1>6, <1>7, <1>8 DEF part, Lowered

\* A round that adds weight keeps the band and takes no more than is missing. Either it
\* takes all, or a case reaches its limit and moves no more.
LEMMA RoundUp ==
    ASSUME NEW a, Banded(a), NEW S \in SUBSET Cases, Rest(a) > 0, Movable(a, S) # {},
           NEW b, b = Spread(a, S)
    PROVE  /\ Banded(b) /\ Rest(b) >= 0 /\ Rest(b) \in Int
           /\ \A c \in Cases \ S : \A p \in Int : a.w[c] = p * K(a) => b.w[c] = p * K(b)
           /\ Rest(b) # 0 => Movable(b, S) \subseteq Movable(a, S) /\ Movable(b, S) # Movable(a, S)
  <1> DEFINE k == K(a)
             M == Movable(a, S)
             share == Share(a, S)
             rest == Rest(a)
             d(c) == Moved(a, S, c)
  <1>1. /\ k \in Nat \ {0} /\ a.of = Unit * k /\ rest \in Int /\ M \subseteq Cases
        /\ \A c \in Cases : a.w[c] \in Nat \ {0} /\ Low(c) * k <= a.w[c] /\ a.w[c] <= High(c) * k
    <2>1. \A c \in Cases : a.w[c] \in Int /\ Low(c) * k <= a.w[c] /\ a.w[c] <= High(c) * k
      BY DEF Banded
    <2>2. \A c \in Cases : a.w[c] \in Nat \ {0}
      BY <2>1, Bands DEF Banded
    <2>3. rest \in Int
      BY <2>1, ByCaseIs DEF Rest, Banded, Unit, Cases
    <2> QED BY <2>1, <2>2, <2>3 DEF Banded, Movable
  <1>2. share = (IF "bear" \in M THEN a.w["bear"] ELSE 0)
                + (IF "base" \in M THEN a.w["base"] ELSE 0)
                + (IF "bull" \in M THEN a.w["bull"] ELSE 0)
    BY ByCaseIs DEF Share
  <1>3. share \in Nat \ {0}
    <2>1. a.w["bear"] \in Nat \ {0} /\ a.w["base"] \in Nat \ {0} /\ a.w["bull"] \in Nat \ {0}
      BY <1>1 DEF Cases
    <2>2. "bear" \in M \/ "base" \in M \/ "bull" \in M
      BY <1>1 DEF Cases
    <2> DEFINE x(c) == IF c \in M THEN a.w[c] ELSE 0
    <2>3. /\ x("bear") \in Nat /\ x("base") \in Nat /\ x("bull") \in Nat
          /\ x("bear") > 0 \/ x("base") > 0 \/ x("bull") > 0
      BY <2>1, <2>2
    <2>4. share = x("bear") + x("base") + x("bull")
      BY <1>2
    <2> HIDE DEF M, share, x
    <2> QED BY <2>3, <2>4
  <1>4. /\ b.w = [bear |-> share * a.w["bear"] + d("bear"),
                  base |-> share * a.w["base"] + d("base"),
                  bull |-> share * a.w["bull"] + d("bull")]
        /\ b.of = share * a.of
    BY SpreadIs
  <1>5. \A c \in Cases : b.w[c] = share * a.w[c] + d(c)
    BY <1>4 DEF Cases
  <1>6. b.of = Unit * (share * k) /\ K(b) = share * k /\ K(b) \in Nat \ {0}
    <2>1. b.of = Unit * (share * k) /\ share * k \in Nat \ {0}
      BY <1>1, <1>3, <1>4 DEF Unit
    <2> HIDE DEF share, k
    <2> QED BY <2>1 DEF K, Unit
  <1>7. ASSUME NEW c \in M
        PROVE  /\ d(c) \in Int /\ d(c) <= rest * a.w[c]
               /\ Low(c) * K(b) <= b.w[c] /\ b.w[c] <= High(c) * K(b)
               /\ d(c) = rest * a.w[c] \/ b.w[c] = High(c) * K(b)
    <2>1. d(c) = Clip(rest * a.w[c], -(share * (High(c) * k - a.w[c])),
                                       share * (High(c) * k - a.w[c]))
      BY <1>1, <1>7 DEF Moved, Room
    <2>2. /\ a.w[c] \in Nat /\ Low(c) \in Nat /\ High(c) \in Nat
          /\ Low(c) * k <= a.w[c] /\ a.w[c] <= High(c) * k
      BY <1>1, <1>7, Bands
    <2>3. b.w[c] = share * a.w[c] + d(c) /\ rest \in Int /\ rest > 0
      BY <1>1, <1>5, <1>7
    <2> HIDE DEF share, rest, k, d, M
    <2>4. /\ d(c) \in Int /\ d(c) <= rest * a.w[c]
          /\ Low(c) * (share * k) <= share * a.w[c] + d(c)
          /\ share * a.w[c] + d(c) <= High(c) * (share * k)
          /\ d(c) = rest * a.w[c] \/ share * a.w[c] + d(c) = High(c) * (share * k)
      <3> DEFINE w == a.w[c]
                 dc == d(c)
                 lo == Low(c)
                 hi == High(c)
      <3>1. /\ k \in Nat \ {0} /\ share \in Nat \ {0} /\ w \in Nat /\ lo \in Nat /\ hi \in Nat
            /\ lo * k <= w /\ w <= hi * k
        BY <1>1, <1>3, <2>2
      <3>2. dc = Clip(rest * w, -(share * (hi * k - w)), share * (hi * k - w))
        BY <2>1
      <3>3. rest \in Nat \ {0}
        BY <2>3
      <3>4. Raises(k, share, rest, w, lo, hi, dc)
        BY <3>1, <3>2, <3>3 DEF Raises
      <3>5. Raised(k, share, rest, w, lo, hi, dc)
        BY <3>4, MovesUp
      <3> QED BY <3>5 DEF Raised
    <2> QED BY <1>6, <2>3, <2>4
  <1>8. ASSUME NEW c \in Cases \ M
        PROVE  /\ d(c) = 0 /\ b.w[c] = share * a.w[c]
               /\ Low(c) * K(b) <= b.w[c] /\ b.w[c] <= High(c) * K(b)
               /\ \A p \in Int : a.w[c] = p * k => b.w[c] = p * K(b)
               /\ c \in S => b.w[c] = High(c) * K(b)
    <2>1. d(c) = 0
      BY <1>8 DEF Moved
    <2>2. b.w[c] = share * a.w[c]
      BY <1>1, <1>3, <1>5, <1>8, <2>1
    <2>3. /\ a.w[c] \in Nat /\ Low(c) \in Nat /\ High(c) \in Nat
          /\ Low(c) * k <= a.w[c] /\ a.w[c] <= High(c) * k
      BY <1>1, <1>8, Bands
    <2>4. c \in S => a.w[c] = High(c) * k
      BY <1>1, <1>8, <2>3 DEF Movable, Room
    <2> HIDE DEF share, k, d
    <2>5. share * (Low(c) * k) <= share * a.w[c] /\ share * a.w[c] <= share * (High(c) * k)
      BY <1>1, <1>3, <2>3
    <2>6. share * (Low(c) * k) = Low(c) * K(b) /\ share * (High(c) * k) = High(c) * K(b)
      BY <1>1, <1>3, <1>6, <2>3
    <2>7. \A p \in Int : share * (p * k) = p * K(b)
      BY <1>1, <1>3, <1>6
    <2> QED BY <2>1, <2>2, <2>3, <2>4, <2>5, <2>6, <2>7
  <1>9. Banded(b)
    <2>1. \A c \in Cases : /\ b.w[c] \in Int /\ d(c) \in Int
                          /\ Low(c) * K(b) <= b.w[c] /\ b.w[c] <= High(c) * K(b)
      <3> SUFFICES ASSUME NEW c \in Cases
                   PROVE  /\ b.w[c] \in Int /\ d(c) \in Int
                          /\ Low(c) * K(b) <= b.w[c] /\ b.w[c] <= High(c) * K(b)
        OBVIOUS
      <3>1. d(c) \in Int
        BY <1>7, <1>8
      <3>2. b.w[c] \in Int
        BY <1>1, <1>3, <1>5, <3>1
      <3> HIDE DEF d, M
      <3> QED BY <1>7, <1>8, <3>1, <3>2
    <2>2. b.w \in [Cases -> Int]
      BY <1>4, <1>5, <2>1 DEF Cases
    <2> QED BY <1>6, <2>1, <2>2 DEF Banded
  <1> DEFINE part(c) == IF c \in M THEN rest * a.w[c] ELSE 0
  <1>10. \A c \in Cases : d(c) \in Int /\ part(c) \in Int /\ d(c) <= part(c)
    BY <1>1, <1>7, <1>8
  <1>11. rest * share = part("bear") + part("base") + part("bull")
    BY <1>1, <1>2 DEF Cases
  <1>12. Rest(b) = rest * share - (d("bear") + d("base") + d("bull"))
    <2>1. Rest(b) = Unit * (share * k) - (b.w["bear"] + b.w["base"] + b.w["bull"])
      BY <1>6, ByCaseIs DEF Rest
    <2>2. rest = Unit * k - (a.w["bear"] + a.w["base"] + a.w["bull"])
      BY <1>1, ByCaseIs DEF Rest
    <2>3. rest * share = Unit * (share * k)
                         - (share * a.w["bear"] + share * a.w["base"] + share * a.w["bull"])
      BY <1>1, <1>3, <2>2 DEF Cases, Unit
    <2>4. \A c \in Cases : share * a.w[c] \in Int
      BY <1>1, <1>3
    <2> HIDE DEF share, rest, k, d
    <2> QED BY <1>1, <1>3, <1>5, <1>10, <2>1, <2>3, <2>4 DEF Cases, Unit
  <1>13. Rest(b) \in Int /\ Rest(b) >= 0
    BY <1>10, <1>11, <1>12 DEF Cases
  <1>14. ASSUME Rest(b) # 0
         PROVE  Movable(b, S) \subseteq M /\ Movable(b, S) # M
    <2>1. \A c \in S : c \in Movable(b, S) => b.w[c] # High(c) * K(b)
      BY <1>6, <1>13, <1>14, Bands DEF Movable, Room
    <2>2. Movable(b, S) \subseteq M
      BY <1>8, <2>1 DEF Movable
    <2>3. PICK c \in Cases : d(c) # part(c)
      BY <1>10, <1>11, <1>12, <1>14 DEF Cases
    <2>4. c \in M /\ d(c) # rest * a.w[c]
      BY <1>8, <2>3
    <2>5. c \notin Movable(b, S)
      BY <1>7, <2>1, <2>4 DEF Movable
    <2> QED BY <2>2, <2>4, <2>5
  <1> QED
    BY <1>8, <1>9, <1>13, <1>14 DEF Movable

\* A round that takes weight away likewise.
LEMMA RoundDown ==
    ASSUME NEW a, Banded(a), NEW S \in SUBSET Cases, Rest(a) < 0, Movable(a, S) # {},
           NEW b, b = Spread(a, S)
    PROVE  /\ Banded(b) /\ Rest(b) <= 0 /\ Rest(b) \in Int
           /\ \A c \in Cases \ S : \A p \in Int : a.w[c] = p * K(a) => b.w[c] = p * K(b)
           /\ Rest(b) # 0 => Movable(b, S) \subseteq Movable(a, S) /\ Movable(b, S) # Movable(a, S)
  <1> DEFINE k == K(a)
             M == Movable(a, S)
             share == Share(a, S)
             rest == Rest(a)
             d(c) == Moved(a, S, c)
  <1>1. /\ k \in Nat \ {0} /\ a.of = Unit * k /\ rest \in Int /\ M \subseteq Cases
        /\ \A c \in Cases : a.w[c] \in Nat \ {0} /\ Low(c) * k <= a.w[c] /\ a.w[c] <= High(c) * k
    <2>1. \A c \in Cases : a.w[c] \in Int /\ Low(c) * k <= a.w[c] /\ a.w[c] <= High(c) * k
      BY DEF Banded
    <2>2. \A c \in Cases : a.w[c] \in Nat \ {0}
      BY <2>1, Bands DEF Banded
    <2>3. rest \in Int
      BY <2>1, ByCaseIs DEF Rest, Banded, Unit, Cases
    <2> QED BY <2>1, <2>2, <2>3 DEF Banded, Movable
  <1>2. share = (IF "bear" \in M THEN a.w["bear"] ELSE 0)
                + (IF "base" \in M THEN a.w["base"] ELSE 0)
                + (IF "bull" \in M THEN a.w["bull"] ELSE 0)
    BY ByCaseIs DEF Share
  <1>3. share \in Nat \ {0}
    <2>1. a.w["bear"] \in Nat \ {0} /\ a.w["base"] \in Nat \ {0} /\ a.w["bull"] \in Nat \ {0}
      BY <1>1 DEF Cases
    <2>2. "bear" \in M \/ "base" \in M \/ "bull" \in M
      BY <1>1 DEF Cases
    <2> DEFINE x(c) == IF c \in M THEN a.w[c] ELSE 0
    <2>3. /\ x("bear") \in Nat /\ x("base") \in Nat /\ x("bull") \in Nat
          /\ x("bear") > 0 \/ x("base") > 0 \/ x("bull") > 0
      BY <2>1, <2>2
    <2>4. share = x("bear") + x("base") + x("bull")
      BY <1>2
    <2> HIDE DEF M, share, x
    <2> QED BY <2>3, <2>4
  <1>4. /\ b.w = [bear |-> share * a.w["bear"] + d("bear"),
                  base |-> share * a.w["base"] + d("base"),
                  bull |-> share * a.w["bull"] + d("bull")]
        /\ b.of = share * a.of
    BY SpreadIs
  <1>5. \A c \in Cases : b.w[c] = share * a.w[c] + d(c)
    BY <1>4 DEF Cases
  <1>6. b.of = Unit * (share * k) /\ K(b) = share * k /\ K(b) \in Nat \ {0}
    <2>1. b.of = Unit * (share * k) /\ share * k \in Nat \ {0}
      BY <1>1, <1>3, <1>4 DEF Unit
    <2> HIDE DEF share, k
    <2> QED BY <2>1 DEF K, Unit
  <1>7. ASSUME NEW c \in M
        PROVE  /\ d(c) \in Int /\ d(c) >= rest * a.w[c]
               /\ Low(c) * K(b) <= b.w[c] /\ b.w[c] <= High(c) * K(b)
               /\ d(c) = rest * a.w[c] \/ b.w[c] = Low(c) * K(b)
    <2>1. d(c) = Clip(rest * a.w[c], -(share * (a.w[c] - Low(c) * k)),
                                       share * (a.w[c] - Low(c) * k))
      BY <1>1, <1>7 DEF Moved, Room
    <2>2. /\ a.w[c] \in Nat /\ Low(c) \in Nat /\ High(c) \in Nat
          /\ Low(c) * k <= a.w[c] /\ a.w[c] <= High(c) * k
      BY <1>1, <1>7, Bands
    <2>3. b.w[c] = share * a.w[c] + d(c) /\ rest \in Int /\ rest < 0
      BY <1>1, <1>5, <1>7
    <2> HIDE DEF share, rest, k, d, M
    <2>4. /\ d(c) \in Int /\ d(c) >= rest * a.w[c]
          /\ Low(c) * (share * k) <= share * a.w[c] + d(c)
          /\ share * a.w[c] + d(c) <= High(c) * (share * k)
          /\ d(c) = rest * a.w[c] \/ share * a.w[c] + d(c) = Low(c) * (share * k)
      <3> DEFINE w == a.w[c]
                 dc == d(c)
                 lo == Low(c)
                 hi == High(c)
      <3>1. /\ k \in Nat \ {0} /\ share \in Nat \ {0} /\ w \in Nat /\ lo \in Nat /\ hi \in Nat
            /\ lo * k <= w /\ w <= hi * k
        BY <1>1, <1>3, <2>2
      <3>2. dc = Clip(rest * w, -(share * (w - lo * k)), share * (w - lo * k))
        BY <2>1
      <3>3. rest \in Int /\ rest < 0
        BY <2>3
      <3>4. Lowers(k, share, rest, w, lo, hi, dc)
        BY <3>1, <3>2, <3>3 DEF Lowers
      <3>5. Lowered(k, share, rest, w, lo, hi, dc)
        BY <3>4, MovesDown
      <3> QED BY <3>5 DEF Lowered
    <2> QED BY <1>6, <2>3, <2>4
  <1>8. ASSUME NEW c \in Cases \ M
        PROVE  /\ d(c) = 0 /\ b.w[c] = share * a.w[c]
               /\ Low(c) * K(b) <= b.w[c] /\ b.w[c] <= High(c) * K(b)
               /\ \A p \in Int : a.w[c] = p * k => b.w[c] = p * K(b)
               /\ c \in S => b.w[c] = Low(c) * K(b)
    <2>1. d(c) = 0
      BY <1>8 DEF Moved
    <2>2. b.w[c] = share * a.w[c]
      BY <1>1, <1>3, <1>5, <1>8, <2>1
    <2>3. /\ a.w[c] \in Nat /\ Low(c) \in Nat /\ High(c) \in Nat
          /\ Low(c) * k <= a.w[c] /\ a.w[c] <= High(c) * k
      BY <1>1, <1>8, Bands
    <2>4. c \in S => a.w[c] = Low(c) * k
      BY <1>1, <1>8, <2>3 DEF Movable, Room
    <2> HIDE DEF share, k, d
    <2>5. share * (Low(c) * k) <= share * a.w[c] /\ share * a.w[c] <= share * (High(c) * k)
      BY <1>1, <1>3, <2>3
    <2>6. share * (Low(c) * k) = Low(c) * K(b) /\ share * (High(c) * k) = High(c) * K(b)
      BY <1>1, <1>3, <1>6, <2>3
    <2>7. \A p \in Int : share * (p * k) = p * K(b)
      BY <1>1, <1>3, <1>6
    <2> QED BY <2>1, <2>2, <2>3, <2>4, <2>5, <2>6, <2>7
  <1>9. Banded(b)
    <2>1. \A c \in Cases : /\ b.w[c] \in Int /\ d(c) \in Int
                          /\ Low(c) * K(b) <= b.w[c] /\ b.w[c] <= High(c) * K(b)
      <3> SUFFICES ASSUME NEW c \in Cases
                   PROVE  /\ b.w[c] \in Int /\ d(c) \in Int
                          /\ Low(c) * K(b) <= b.w[c] /\ b.w[c] <= High(c) * K(b)
        OBVIOUS
      <3>1. d(c) \in Int
        BY <1>7, <1>8
      <3>2. b.w[c] \in Int
        BY <1>1, <1>3, <1>5, <3>1
      <3> HIDE DEF d, M
      <3> QED BY <1>7, <1>8, <3>1, <3>2
    <2>2. b.w \in [Cases -> Int]
      BY <1>4, <1>5, <2>1 DEF Cases
    <2> QED BY <1>6, <2>1, <2>2 DEF Banded
  <1> DEFINE part(c) == IF c \in M THEN rest * a.w[c] ELSE 0
  <1>10. \A c \in Cases : d(c) \in Int /\ part(c) \in Int /\ d(c) >= part(c)
    BY <1>1, <1>7, <1>8
  <1>11. rest * share = part("bear") + part("base") + part("bull")
    BY <1>1, <1>2 DEF Cases
  <1>12. Rest(b) = rest * share - (d("bear") + d("base") + d("bull"))
    <2>1. Rest(b) = Unit * (share * k) - (b.w["bear"] + b.w["base"] + b.w["bull"])
      BY <1>6, ByCaseIs DEF Rest
    <2>2. rest = Unit * k - (a.w["bear"] + a.w["base"] + a.w["bull"])
      BY <1>1, ByCaseIs DEF Rest
    <2>3. rest * share = Unit * (share * k)
                         - (share * a.w["bear"] + share * a.w["base"] + share * a.w["bull"])
      BY <1>1, <1>3, <2>2 DEF Cases, Unit
    <2>4. \A c \in Cases : share * a.w[c] \in Int
      BY <1>1, <1>3
    <2> HIDE DEF share, rest, k, d
    <2> QED BY <1>1, <1>3, <1>5, <1>10, <2>1, <2>3, <2>4 DEF Cases, Unit
  <1>13. Rest(b) \in Int /\ Rest(b) <= 0
    BY <1>10, <1>11, <1>12 DEF Cases
  <1>14. ASSUME Rest(b) # 0
         PROVE  Movable(b, S) \subseteq M /\ Movable(b, S) # M
    <2>1. \A c \in S : c \in Movable(b, S) => b.w[c] # Low(c) * K(b)
      BY <1>6, <1>13, <1>14, Bands DEF Movable, Room
    <2>2. Movable(b, S) \subseteq M
      BY <1>8, <2>1 DEF Movable
    <2>3. PICK c \in Cases : d(c) # part(c)
      BY <1>10, <1>11, <1>12, <1>14 DEF Cases
    <2>4. c \in M /\ d(c) # rest * a.w[c]
      BY <1>8, <2>3
    <2>5. c \notin Movable(b, S)
      BY <1>7, <2>1, <2>4 DEF Movable
    <2> QED BY <2>2, <2>4, <2>5
  <1> QED
    BY <1>8, <1>9, <1>13, <1>14 DEF Movable

\* Rounds still needed over the cases of S.
Left(a, S) == IF Rest(a) = 0 THEN 0 ELSE Cardinality(Movable(a, S))

\* On the way from the clamped request r to the applied weights: the cases outside of S are
\* where the band clamped them, and what is missing has not turned into too much.
Between(a, S, r) ==
    /\ Banded(a) /\ Rest(a) \in Int
    /\ \A c \in Cases \ S : a.w[c] = Clamped(r)[c] * K(a)
    /\ Total(Clamped(r)) <= Unit => Rest(a) >= 0
    /\ Total(Clamped(r)) >= Unit => Rest(a) <= 0

\* The clamped request lies in the bands.
LEMMA ClampedIs ==
    ASSUME NEW r \in Requests
    PROVE  /\ \A c \in Cases : /\ Clamped(r)[c] = Clip(r[c], Low(c), High(c))
                               /\ Clamped(r)[c] \in Low(c)..High(c) /\ Clamped(r)[c] \in Int
           /\ Clamped(r) \in [Cases -> Int] /\ Total(Clamped(r)) \in Int
  <1>1. /\ Clamped(r) = [bear |-> Clip(r["bear"], Low("bear"), High("bear")),
                         base |-> Clip(r["base"], Low("base"), High("base")),
                         bull |-> Clip(r["bull"], Low("bull"), High("bull"))]
        /\ \A c \in Cases : r[c] \in Int
    BY DEF Clamped, ByCase, Requests, Unit
  <1>2. \A c \in Cases : Clamped(r)[c] = Clip(r[c], Low(c), High(c))
    BY <1>1 DEF Cases
  <1>3. \A c \in Cases : Clamped(r)[c] \in Low(c)..High(c) /\ Clamped(r)[c] \in Int
    BY <1>1, <1>2, Bands DEF Clip
  <1>4. Clamped(r) \in [Cases -> Int]
    BY <1>1, <1>3 DEF Cases
  <1>5. Total(Clamped(r)) \in Int
    BY <1>3, ByCaseIs DEF Cases
  <1> QED BY <1>2, <1>3, <1>4, <1>5

\* The clamped request is where the way begins.
LEMMA StartsBetween ==
    ASSUME NEW r \in Requests, NEW S
    PROVE  Between([w |-> Clamped(r), of |-> Unit], S, r)
  <1> DEFINE a == [w |-> Clamped(r), of |-> Unit]
  <1>1. a.w = Clamped(r) /\ a.of = Unit /\ K(a) = 1
    BY DEF K, Unit
  <1>2. Rest(a) = Unit - Total(Clamped(r))
    BY <1>1 DEF Rest
  <1> HIDE DEF a
  <1>3. Banded(a)
    BY <1>1, ClampedIs, Bands DEF Banded, Unit
  <1>4. \A c \in Cases \ S : a.w[c] = Clamped(r)[c] * K(a)
    BY <1>1, ClampedIs
  <1>5. Between(a, S, r)
    BY <1>2, <1>3, <1>4, ClampedIs DEF Between, Unit
  <1> QED BY <1>5 DEF a

\* There are three cases.
LEMMA CasesFinite == IsFiniteSet(Cases) /\ Cardinality(Cases) = 3
  <1>1. Cases = {"bear", "base"} \cup {"bull"} /\ {"bear", "base"} = {"bear"} \cup {"base"}
    BY DEF Cases
  <1>2. IsFiniteSet({"bear"}) /\ Cardinality({"bear"}) = 1
    BY FS_Singleton
  <1>3. IsFiniteSet({"bear", "base"}) /\ Cardinality({"bear", "base"}) = 2
    BY <1>1, <1>2, FS_AddElement
  <1> QED BY <1>1, <1>3, FS_AddElement

\* A round stays on the way and leaves fewer rounds to do.
LEMMA RoundHelps ==
    ASSUME NEW r \in Requests, NEW S \in SUBSET Cases, NEW a, Between(a, S, r)
    PROVE  /\ Between(Spread(a, S), S, r)
           /\ Left(a, S) \in 0..3 /\ Left(Spread(a, S), S) \in 0..3
           /\ Left(a, S) = 0 => Spread(a, S) = a
           /\ Left(a, S) > 0 => Left(Spread(a, S), S) < Left(a, S)
  <1> DEFINE b == Spread(a, S)
  <1>1. \A x : /\ IsFiniteSet(Movable(x, S)) /\ Left(x, S) \in 0..3
               /\ Cardinality(Movable(x, S)) \in 0..3
               /\ Cardinality(Movable(x, S)) = 0 <=> Movable(x, S) = {}
    <2> TAKE x
    <2>2. Movable(x, S) \subseteq Cases
      BY DEF Movable
    <2>3. IsFiniteSet(Movable(x, S)) /\ Cardinality(Movable(x, S)) \in Nat
          /\ Cardinality(Movable(x, S)) <= 3
      BY <2>2, CasesFinite, FS_Subset, FS_CardinalityType
    <2>4. Cardinality(Movable(x, S)) = 0 <=> Movable(x, S) = {}
      BY <2>3, FS_EmptySet
    <2> QED BY <2>3, <2>4 DEF Left
  <1>2. Left(a, S) = 0 => b = a
    BY <1>1, SpreadIs DEF Left
  <1>3. ASSUME Left(a, S) # 0
        PROVE  Between(b, S, r) /\ Left(b, S) < Left(a, S)
    <2>1. Rest(a) \in Int /\ Rest(a) # 0 /\ Movable(a, S) # {}
      BY <1>1, <1>3 DEF Left, Between
    <2>2. /\ Banded(b) /\ Rest(b) \in Int
          /\ Rest(a) > 0 => Rest(b) >= 0
          /\ Rest(a) < 0 => Rest(b) <= 0
          /\ \A c \in Cases \ S : \A p \in Int : a.w[c] = p * K(a) => b.w[c] = p * K(b)
          /\ Rest(b) # 0 => Movable(b, S) \subseteq Movable(a, S) /\ Movable(b, S) # Movable(a, S)
      <3>1. CASE Rest(a) > 0
        BY <2>1, <3>1, RoundUp DEF Between
      <3>2. CASE Rest(a) < 0
        BY <2>1, <3>2, RoundDown DEF Between
      <3> QED BY <2>1, <3>1, <3>2
    <2> HIDE DEF b
    <2>3. \A c \in Cases \ S : b.w[c] = Clamped(r)[c] * K(b)
      BY <2>2, ClampedIs DEF Between
    <2>4. Between(b, S, r)
      BY <2>1, <2>2, <2>3, ClampedIs DEF Between, Unit
    <2>5. Left(b, S) < Left(a, S)
      <3>1. CASE Rest(b) = 0
        BY <1>1, <1>3, <3>1 DEF Left
      <3>2. CASE Rest(b) # 0
        <4>1. Cardinality(Movable(b, S)) < Cardinality(Movable(a, S))
          BY <1>1, <2>2, <3>2, FS_Subset
        <4> QED BY <2>1, <3>2, <4>1 DEF Left
      <3> QED BY <3>1, <3>2
    <2> QED BY <2>4, <2>5
  <1> QED BY <1>1, <1>2, <1>3

\* Four rounds are enough.
LEMMA FourRounds ==
    ASSUME NEW r \in Requests, NEW S \in SUBSET Cases, NEW a, Between(a, S, r)
    PROVE  \E b : /\ Redistribute({a}, S) = {b} /\ Between(b, S, r) /\ Left(b, S) = 0
                  /\ Left(a, S) = 0 => b = a
  <1> DEFINE a1 == Spread(a, S)
             a2 == Spread(a1, S)
             a3 == Spread(a2, S)
             a4 == Spread(a3, S)
  <1>1. \A x : Round({x}, S) = {Spread(x, S)}
    BY DEF Round
  <1>2. Redistribute({a}, S) = {a4}
    BY <1>1 DEF Redistribute
  <1>3. /\ Between(a1, S, r) /\ Left(a, S) \in 0..3 /\ Left(a1, S) \in 0..3
        /\ Left(a, S) = 0 => a1 = a
        /\ Left(a, S) > 0 => Left(a1, S) < Left(a, S)
    BY RoundHelps
  <1> HIDE DEF a1
  <1>4. /\ Between(a2, S, r) /\ Left(a2, S) \in 0..3
        /\ Left(a1, S) = 0 => a2 = a1
        /\ Left(a1, S) > 0 => Left(a2, S) < Left(a1, S)
    BY <1>3, RoundHelps
  <1> HIDE DEF a2
  <1>5. /\ Between(a3, S, r) /\ Left(a3, S) \in 0..3
        /\ Left(a2, S) = 0 => a3 = a2
        /\ Left(a2, S) > 0 => Left(a3, S) < Left(a2, S)
    BY <1>4, RoundHelps
  <1> HIDE DEF a3
  <1>6. /\ Between(a4, S, r) /\ Left(a4, S) \in 0..3
        /\ Left(a3, S) = 0 => a4 = a3
        /\ Left(a3, S) > 0 => Left(a4, S) < Left(a3, S)
    BY <1>5, RoundHelps
  <1> HIDE DEF a4
  <1> QED BY <1>2, <1>3, <1>4, <1>5, <1>6

\* Whatever the band left untouched can take what the clamped cases leave over, and all
\* three can take anything.
LEMMA RoomEnough ==
    ASSUME NEW r \in Requests, NEW S, S = Cases \/ (S = Untouched(r) /\ S # {}),
           NEW b, Between(b, S, r), Left(b, S) = 0
    PROVE  Rest(b) = 0
  <1> SUFFICES ASSUME Rest(b) # 0 PROVE FALSE
    OBVIOUS
  <1> DEFINE k == K(b)
             p == Clamped(r)
             hi(c) == IF c \in S THEN High(c) ELSE p[c]
             lo(c) == IF c \in S THEN Low(c) ELSE p[c]
  <1>1. S \subseteq Cases
    BY DEF Untouched
  <1>2. IsFiniteSet(Movable(b, S)) /\ Movable(b, S) = {}
    <2>1. IsFiniteSet(Movable(b, S))
      BY <1>1, CasesFinite, FS_Subset DEF Movable
    <2> QED BY <2>1, FS_EmptySet DEF Left
  <1>3. /\ k \in Nat \ {0} /\ b.of = Unit * k /\ Rest(b) \in Int
        /\ \A c \in Cases : /\ b.w[c] \in Int /\ Low(c) * k <= b.w[c] /\ b.w[c] <= High(c) * k
                            /\ p[c] \in Low(c)..High(c)
        /\ \A c \in Cases \ S : b.w[c] = p[c] * k
    BY ClampedIs DEF Between, Banded
  <1>4. Rest(b) = Unit * k - (b.w["bear"] + b.w["base"] + b.w["bull"])
    BY <1>3, ByCaseIs DEF Rest
  <1>5. ASSUME Rest(b) > 0
        PROVE  /\ \A c \in Cases : b.w[c] = hi(c) * k
               /\ p["bear"] + p["base"] + p["bull"] <= Unit
    <2>1. ASSUME NEW c \in S PROVE b.w[c] = High(c) * k
      <3>1. ~(Room(b, c) > 0)
        BY <1>2, <2>1 DEF Movable
      <3>2. b.w[c] \in Int /\ Low(c) * k <= b.w[c] /\ b.w[c] <= High(c) * k
            /\ Low(c) * k \in Int /\ High(c) * k \in Int
        BY <1>1, <1>3, <2>1, Bands
      <3> QED BY <1>3, <1>5, <3>1, <3>2 DEF Room
    <2>2. p["bear"] + p["base"] + p["bull"] <= Unit
      BY <1>5, ClampedIs, ByCaseIs DEF Between, Unit
    <2> QED BY <1>3, <2>1, <2>2
  <1>6. ASSUME Rest(b) < 0
        PROVE  /\ \A c \in Cases : b.w[c] = lo(c) * k
               /\ p["bear"] + p["base"] + p["bull"] >= Unit
    <2>1. ASSUME NEW c \in S PROVE b.w[c] = Low(c) * k
      <3>1. ~(Room(b, c) > 0)
        BY <1>2, <2>1 DEF Movable
      <3>2. b.w[c] \in Int /\ Low(c) * k <= b.w[c] /\ b.w[c] <= High(c) * k
            /\ Low(c) * k \in Int /\ High(c) * k \in Int
        BY <1>1, <1>3, <2>1, Bands
      <3> QED BY <1>3, <1>6, <3>1, <3>2 DEF Room
    <2>2. p["bear"] + p["base"] + p["bull"] >= Unit
      BY <1>6, ClampedIs, ByCaseIs DEF Between, Unit
    <2> QED BY <1>3, <2>1, <2>2
  <1>7. /\ r["bear"] \in 0..20 /\ r["base"] \in 0..20 /\ r["bull"] \in 0..20
        /\ r["bear"] + r["base"] + r["bull"] = 20
        /\ p["bear"] = Clip(r["bear"], 3, 9)
        /\ p["base"] = Clip(r["base"], 7, 13)
        /\ p["bull"] = Clip(r["bull"], 1, 7)
    <2>1. Low("bear") = 3 /\ High("bear") = 9 /\ Low("base") = 7 /\ High("base") = 13
          /\ Low("bull") = 1 /\ High("bull") = 7
      BY DEF Low, High, Default, Band
    <2> QED BY <2>1, ClampedIs, ByCaseIs DEF Requests, Cases, Unit
  <1>8. /\ S = Cases \/ (\E c \in Cases : c \in S)
        /\ S # Cases => \A c \in Cases : c \in S <=> p[c] = r[c]
    BY DEF Untouched
  <1>9. /\ hi("bear") + hi("base") + hi("bull") >= 20
        /\ lo("bear") + lo("base") + lo("bull") <= 20
    <2>1. /\ hi("bear") = (IF "bear" \in S THEN 9 ELSE p["bear"])
          /\ hi("base") = (IF "base" \in S THEN 13 ELSE p["base"])
          /\ hi("bull") = (IF "bull" \in S THEN 7 ELSE p["bull"])
          /\ lo("bear") = (IF "bear" \in S THEN 3 ELSE p["bear"])
          /\ lo("base") = (IF "base" \in S THEN 7 ELSE p["base"])
          /\ lo("bull") = (IF "bull" \in S THEN 1 ELSE p["bull"])
      BY DEF Low, High, Default, Band
    <2> HIDE DEF p, hi, lo
    <2>2. CASE S = Cases
      BY <2>1, <2>2 DEF Cases
    <2>3. CASE S # Cases
      BY <1>7, <1>8, <2>1, <2>3 DEF Cases, Clip
    <2> QED BY <2>2, <2>3
  <1>10. \A c \in Cases : hi(c) \in Int /\ lo(c) \in Int
    BY <1>3, Bands
  <1> HIDE DEF k, p, hi, lo
  <1>11. CASE Rest(b) > 0
    <2> DEFINE all == hi("bear") + hi("base") + hi("bull")
    <2>1. Rest(b) = 20 * k - all * k
      BY <1>3, <1>4, <1>5, <1>10, <1>11 DEF Cases, Unit
    <2>2. all \in Int /\ all >= 20
      BY <1>9, <1>10 DEF Cases
    <2> HIDE DEF all
    <2>3. all * k \in Int /\ all * k >= 20 * k
      BY <1>3, <2>2
    <2> QED BY <1>3, <1>11, <2>1, <2>3
  <1>12. CASE Rest(b) < 0
    <2> DEFINE all == lo("bear") + lo("base") + lo("bull")
    <2>1. Rest(b) = 20 * k - all * k
      BY <1>3, <1>4, <1>6, <1>10, <1>12 DEF Cases, Unit
    <2>2. all \in Int /\ all <= 20
      BY <1>9, <1>10 DEF Cases
    <2> HIDE DEF all
    <2>3. all * k \in Int /\ all * k <= 20 * k
      BY <1>3, <2>2
    <2> QED BY <1>3, <1>12, <2>1, <2>3
  <1> QED BY <1>3, <1>11, <1>12

\* The applied weights.
LEMMA BoundedIs ==
    ASSUME NEW r \in Requests
    PROVE  /\ Banded(Bounded[r]) /\ Rest(Bounded[r]) = 0
           /\ Untouched(r) # {} =>
                \A c \in Cases \ Untouched(r) : Bounded[r].w[c] = Clamped(r)[c] * K(Bounded[r])
  <1> DEFINE a == [w |-> Clamped(r), of |-> Unit]
             U == Untouched(r)
  <1>1. Bounded[r] = Only(Redistribute(Redistribute({a}, U), Cases))
    BY DEF Bounded
  <1>2. U \in SUBSET Cases /\ Between(a, U, r) /\ Between(a, Cases, r)
    BY StartsBetween DEF Untouched
  <1> HIDE DEF a, U
  <1>3. PICK b : /\ Redistribute({a}, U) = {b} /\ Between(b, U, r) /\ Left(b, U) = 0
                 /\ Left(a, U) = 0 => b = a
    BY <1>2, FourRounds
  <1>4. \A x : Only({x}) = x
    BY DEF Only
  <1>5. CASE U # {}
    <2>1. Rest(b) = 0
      BY <1>3, <1>5, RoomEnough DEF U
    <2>2. Between(b, Cases, r) /\ Left(b, Cases) = 0
      BY <1>3, <2>1 DEF Between, Left
    <2>3. Redistribute({b}, Cases) = {b}
      BY <2>2, FourRounds
    <2>4. Bounded[r] = b
      BY <1>1, <1>3, <1>4, <2>3
    <2> QED BY <1>3, <2>1, <2>4 DEF Between, U
  <1>6. CASE U = {}
    <2>1. Left(a, U) = 0
      BY <1>6, FS_EmptySet DEF Left, Movable
    <2>2. PICK c : Redistribute({a}, Cases) = {c} /\ Between(c, Cases, r) /\ Left(c, Cases) = 0
      BY <1>2, FourRounds
    <2>3. Rest(c) = 0
      BY <2>2, RoomEnough
    <2>4. Bounded[r] = c
      BY <1>1, <1>3, <1>4, <2>1, <2>2
    <2> QED BY <1>6, <2>2, <2>3, <2>4 DEF Between, U
  <1> QED BY <1>5, <1>6

\* What is known of the applied weights once they are computed.
LEMMA AppliedWeights ==
    ASSUME PInv, Evaluated
    PROVE  /\ proposal.request \in Requests
           /\ Banded(weights) /\ Total(weights.w) = weights.of
           /\ \A c \in Cases : weights.w[c] \in Nat \ {0}
           /\ Untouched(proposal.request) # {} =>
                \A c \in Cases \ Untouched(proposal.request) :
                    weights.w[c] = Clamped(proposal.request)[c] * K(weights)
  <1>1. proposal.request \in Requests /\ weights = Bounded[proposal.request]
    BY ProposalAssumption DEF PInv
  <1>2. Banded(weights) /\ Rest(weights) = 0
    BY <1>1, BoundedIs
  <1>3. \A c \in Cases : weights.w[c] \in Nat \ {0}
    BY <1>2, Bands DEF Banded
  <1>4. Total(weights.w) = weights.of
    <2>1. Total(weights.w) \in Int /\ weights.of \in Int
      BY <1>2, <1>3, ByCaseIs DEF Banded, Cases, Unit
    <2> QED
      BY <1>2, <2>1 DEF Rest
  <1> QED
    BY <1>1, <1>2, <1>3, <1>4, BoundedIs

\* Whatever weights the Scenario Agent asks for, four rounds over the untouched cases and
\* four over all of them end with a distribution inside the bands (bound_weights).
THEOREM WeightsAreBounded == Spec => []WeightsBounded
  <1>1. ASSUME PInv, Evaluated
        PROVE  /\ \A c \in Cases : /\ weights.w[c] * Unit >= Low(c) * weights.of
                                   /\ weights.w[c] * Unit <= High(c) * weights.of
               /\ Untouched(proposal.request) # {} =>
                     \A c \in Cases \ Untouched(proposal.request) :
                         weights.w[c] * Unit = Clamped(proposal.request)[c] * weights.of
    <2> DEFINE k == K(weights)
    <2>1. k \in Nat /\ weights.of = 20 * k
      BY <1>1, AppliedWeights DEF Banded, Unit
    <2>2. ASSUME NEW c \in Cases
          PROVE  /\ weights.w[c] * Unit >= Low(c) * weights.of
                 /\ weights.w[c] * Unit <= High(c) * weights.of
      <3>1. Low(c) * k <= weights.w[c] /\ weights.w[c] <= High(c) * k
        BY <1>1, AppliedWeights DEF Banded
      <3>2. Low(c) \in Int /\ High(c) \in Int /\ weights.w[c] \in Int
        BY <1>1, AppliedWeights, Bands
      <3>3. Low(c) * (20 * k) = 20 * (Low(c) * k) /\ High(c) * (20 * k) = 20 * (High(c) * k)
        BY <2>1, <3>2
      <3> HIDE DEF k
      <3> QED BY <2>1, <3>1, <3>2, <3>3 DEF Unit
    <2>3. ASSUME NEW c \in Cases, weights.w[c] = Clamped(proposal.request)[c] * k
          PROVE  weights.w[c] * Unit = Clamped(proposal.request)[c] * weights.of
      <3>1. Clamped(proposal.request)[c] \in Int
        BY <1>1, AppliedWeights, ClampedIs
      <3> HIDE DEF k
      <3> QED BY <2>1, <2>3, <3>1 DEF Unit
    <2> QED BY <1>1, <2>2, <2>3, AppliedWeights
  <1>2. PInv => WeightsBounded
    BY <1>1, AppliedWeights DEF WeightsBounded
  <1> QED BY <1>2, InitInv, StepInv, PTL DEF Spec

-----------------------------------------------------------------------------
(* Returns and sensitivity.                                                 *)

\* A weighted average is neither below all of the values with a weight nor above them all.
Mean(x, y, z, p, q, s) == x * p + y * q + z * s

LEMMA MeanBetween ==
    ASSUME NEW x \in Nat, NEW y \in Nat, NEW z \in Nat,
           NEW p \in Int, NEW q \in Int, NEW s \in Int,
           NEW n, n = Mean(x, y, z, p, q, s), NEW d, d = x + y + z, d > 0
    PROVE  /\ (x > 0 /\ n >= p * d) \/ (y > 0 /\ n >= q * d) \/ (z > 0 /\ n >= s * d)
           /\ (x > 0 /\ n <= p * d) \/ (y > 0 /\ n <= q * d) \/ (z > 0 /\ n <= s * d)
  <1>1. n \in Int /\ d \in Nat \ {0}
    BY DEF Mean
  <1>2. x * n + y * n + z * n = d * n
    <2> QED BY <1>1
  <1>3. x * (p * d) + y * (q * d) + z * (s * d) = n * d
    <2>1. x * (p * d) = (x * p) * d /\ y * (q * d) = (y * q) * d /\ z * (s * d) = (z * s) * d
      OBVIOUS
    <2>2. x * p \in Int /\ y * q \in Int /\ z * s \in Int
      OBVIOUS
    <2> QED BY <1>1, <2>1, <2>2 DEF Mean
  <1>4. p * d \in Int /\ q * d \in Int /\ s * d \in Int
    BY <1>1
  <1>5. ASSUME NEW u \in Nat, NEW v \in Int
        PROVE  /\ u * n \in Int /\ u * v \in Int
               /\ u > 0 /\ n < v => u * n < u * v
               /\ u > 0 /\ n > v => u * n > u * v
               /\ u = 0 => u * n = u * v
    BY <1>1, <1>5
  <1>6. d * n = n * d /\ (x > 0 \/ y > 0 \/ z > 0)
    BY <1>1
  <1> DEFINE P == p * d
             Q == q * d
             R == s * d
  <1>7. P \in Int /\ Q \in Int /\ R \in Int
    BY <1>4
  <1>8. x * n + y * n + z * n = x * P + y * Q + z * R
    BY <1>2, <1>3, <1>6
  <1> HIDE DEF P, Q, R
  <1>9. /\ (x > 0 /\ n >= P) \/ (y > 0 /\ n >= Q) \/ (z > 0 /\ n >= R)
        /\ (x > 0 /\ n <= P) \/ (y > 0 /\ n <= Q) \/ (z > 0 /\ n <= R)
    <2> DEFINE Side(u, v) == /\ u * n \in Int /\ u * v \in Int
                             /\ u > 0 /\ n < v => u * n < u * v
                             /\ u > 0 /\ n > v => u * n > u * v
                             /\ u = 0 => u * n = u * v
    <2>1. Side(x, P) /\ Side(y, Q) /\ Side(z, R)
      BY <1>5, <1>7
    <2> HIDE DEF Side
    <2> DEFINE xn == x * n
               yn == y * n
               zn == z * n
               xP == x * P
               yQ == y * Q
               zR == z * R
    <2>2. /\ xn \in Int /\ xP \in Int
          /\ x > 0 /\ n < P => xn < xP
          /\ x > 0 /\ n > P => xn > xP
          /\ x = 0 => xn = xP
      BY <2>1 DEF Side
    <2>3. /\ yn \in Int /\ yQ \in Int
          /\ y > 0 /\ n < Q => yn < yQ
          /\ y > 0 /\ n > Q => yn > yQ
          /\ y = 0 => yn = yQ
      BY <2>1 DEF Side
    <2>4. /\ zn \in Int /\ zR \in Int
          /\ z > 0 /\ n < R => zn < zR
          /\ z > 0 /\ n > R => zn > zR
          /\ z = 0 => zn = zR
      BY <2>1 DEF Side
    <2>5. xn + yn + zn = xP + yQ + zR
      BY <1>8
    <2> HIDE DEF xn, yn, zn, xP, yQ, zR
    <2> QED BY <1>1, <1>6, <1>7, <2>2, <2>3, <2>4, <2>5
  <1> QED BY <1>9 DEF P, Q, R

\* The average of the cases with a return, and its weight.
LEMMA AverageIs ==
    ASSUME NEW a, NEW returns
    PROVE  /\ Weighted(a, returns) =
                (IF "bear" \in DOMAIN returns THEN a.w["bear"] * returns["bear"] ELSE 0)
                + (IF "base" \in DOMAIN returns THEN a.w["base"] * returns["base"] ELSE 0)
                + (IF "bull" \in DOMAIN returns THEN a.w["bull"] * returns["bull"] ELSE 0)
           /\ DOMAIN returns # {} =>
                Expected(a, returns) = Ratio(Weighted(a, returns), TotalOn(a.w, DOMAIN returns))
  BY DEF Weighted, Total, ByCase, Expected

\* The average is over the cases that have a return: it never leaves their range
\* (evaluate_scenarios).
THEOREM ExpectedIsWithinCases == Spec => []ExpectedWithinCases
  <1>1. ASSUME PInv, Evaluated, expected.known
        PROVE  /\ \E c \in DOMAIN proposal.returns : AtLeast(expected, proposal.returns[c])
               /\ \E c \in DOMAIN proposal.returns : ~Above(expected, proposal.returns[c])
    <2> DEFINE w == weights.w
               r == proposal.returns
               D == DOMAIN r
               x(c) == IF c \in D THEN w[c] ELSE 0
               v(c) == IF c \in D THEN r[c] ELSE 0
    <2>1. D \subseteq Cases /\ \A c \in D : r[c] \in Int
      BY <1>1, ProposalAssumption DEF PInv
    <2>2. \A c \in Cases : w[c] \in Nat \ {0}
      BY <1>1, AppliedWeights
    <2>3. expected = Expected(weights, r) /\ D # {}
      BY <1>1 DEF PInv, Expected, None
    <2>4. /\ expected.num = Weighted(weights, r) /\ expected.den = TotalOn(w, D)
      BY <2>3, AverageIs DEF Ratio
    <2>5. \A c \in Cases : x(c) \in Nat /\ v(c) \in Int /\ (c \in D <=> x(c) > 0)
      BY <2>1, <2>2
    <2>6. expected.den = x("bear") + x("base") + x("bull")
      BY <2>4, ByCaseIs
    <2>7. expected.num = Mean(x("bear"), x("base"), x("bull"), v("bear"), v("base"), v("bull"))
      BY <2>1, <2>4, <2>5, AverageIs DEF Mean, Cases
    <2>8. x("bear") + x("base") + x("bull") > 0
      <3>1. x("bear") > 0 \/ x("base") > 0 \/ x("bull") > 0
        BY <2>1, <2>3, <2>5 DEF Cases
      <3> HIDE DEF x
      <3> QED BY <2>5, <3>1 DEF Cases
    <2>9. \A c \in D : v(c) = r[c]
      OBVIOUS
    <2> HIDE DEF x, v
    <2>10. /\ \E c \in Cases : x(c) > 0 /\ expected.num >= v(c) * expected.den
           /\ \E c \in Cases : x(c) > 0 /\ expected.num <= v(c) * expected.den
      <3> DEFINE x1 == x("bear")
                 x2 == x("base")
                 x3 == x("bull")
                 v1 == v("bear")
                 v2 == v("base")
                 v3 == v("bull")
      <3>1. /\ x1 \in Nat /\ x2 \in Nat /\ x3 \in Nat
            /\ v1 \in Int /\ v2 \in Int /\ v3 \in Int
        BY <2>5 DEF Cases
      <3>2. expected.num = Mean(x1, x2, x3, v1, v2, v3) /\ expected.den = x1 + x2 + x3
            /\ expected.den > 0
        BY <2>6, <2>7, <2>8
      <3> HIDE DEF x1, x2, x3, v1, v2, v3
      <3>3. /\ \/ x1 > 0 /\ expected.num >= v1 * expected.den
               \/ x2 > 0 /\ expected.num >= v2 * expected.den
               \/ x3 > 0 /\ expected.num >= v3 * expected.den
            /\ \/ x1 > 0 /\ expected.num <= v1 * expected.den
               \/ x2 > 0 /\ expected.num <= v2 * expected.den
               \/ x3 > 0 /\ expected.num <= v3 * expected.den
        BY <3>1, <3>2, MeanBetween
      <3> DEFINE Reached(c) == x(c) > 0 /\ expected.num >= v(c) * expected.den
                 Kept(c) == x(c) > 0 /\ expected.num <= v(c) * expected.den
      <3>4. Reached("bear") \/ Reached("base") \/ Reached("bull")
        BY <3>3 DEF x1, x2, x3, v1, v2, v3
      <3>5. Kept("bear") \/ Kept("base") \/ Kept("bull")
        BY <3>3 DEF x1, x2, x3, v1, v2, v3
      <3> HIDE DEF Reached, Kept
      <3>6. (\E c \in Cases : Reached(c)) /\ (\E c \in Cases : Kept(c))
        BY <3>4, <3>5 DEF Cases
      <3> QED BY <3>6 DEF Reached, Kept
    <2>11. expected.num \in Int /\ expected.den \in Int
      BY <2>5, <2>6, <2>7 DEF Cases, Mean
    <2>12. \A c \in Cases : v(c) * expected.den \in Int
      BY <2>5, <2>11
    <2> QED BY <2>5, <2>9, <2>10, <2>11, <2>12 DEF AtLeast, Above
  <1>2. PInv => ExpectedWithinCases
    BY <1>1 DEF ExpectedWithinCases
  <1> QED BY <1>2, InitInv, StepInv, PTL DEF Spec

\* What the bear case takes from the average of the other two, and what of it they can
\* give before they are down at the index.
Lost == proposal.returns["bear"] * (weights.w["base"] + weights.w["bull"])
        - (weights.w["base"] * proposal.returns["base"]
           + weights.w["bull"] * proposal.returns["bull"])
Need == Index * (weights.w["base"] + weights.w["bull"])
        - (weights.w["base"] * proposal.returns["base"]
           + weights.w["bull"] * proposal.returns["bull"])

\* The flip is what is needed over what the bear case takes.
LEMMA NothingLeftOut ==
    ASSUME PInv, Evaluated, DOMAIN proposal.returns = Cases
    PROVE  /\ Lost \in Int /\ Need \in Int
           /\ \A c \in Cases : proposal.returns[c] \in Int
           /\ flip.known => /\ Lost # 0
                            /\ Lost > 0 => flip.num = Need /\ flip.den = Lost
                            /\ Lost < 0 => flip.num = -Need /\ flip.den = -Lost
  <1> DEFINE r == proposal.returns
             w == weights.w
             rest == w["base"] + w["bull"]
             sum == w["base"] * r["base"] + w["bull"] * r["bull"]
  <1>1. \A c \in Cases : r[c] \in Int /\ w[c] \in Nat \ {0}
    BY AppliedWeights, ProposalAssumption DEF PInv
  <1>2. rest \in Int /\ sum \in Int /\ Lost \in Int /\ Need \in Int
    BY <1>1 DEF Cases, Lost, Need, Index
  <1>3. Blend(weights, r) = Ratio(sum, rest)
    <2> DEFINE o == Cases \ {"bear"}
               s == [c \in o |-> r[c]]
    <2>1. DOMAIN s = o /\ s["base"] = r["base"] /\ s["bull"] = r["bull"]
          /\ "bear" \notin o /\ "base" \in o /\ "bull" \in o
      BY DEF Cases
    <2> HIDE DEF s
    <2>2. Weighted(weights, s) = 0 + w["base"] * r["base"] + w["bull"] * r["bull"]
      BY <2>1, AverageIs
    <2>3. TotalOn(w, o) = 0 + w["base"] + w["bull"]
      BY <2>1, ByCaseIs
    <2>4. Weighted(weights, s) = sum
      BY <1>1, <2>2 DEF Cases
    <2>5. TotalOn(w, o) = rest
      BY <1>1, <2>3 DEF Cases
    <2> QED BY <2>4, <2>5 DEF Blend, s
  <1>4. Flip(weights, r) = IF Lost = 0 THEN None
                           ELSE IF Lost > 0 THEN Ratio(Need, Lost) ELSE Ratio(-Need, -Lost)
    <2>1. /\ Blend(weights, r).num = sum /\ Blend(weights, r).den = rest
      BY <1>3 DEF Ratio
    <2>2. "bear" \in DOMAIN r /\ DOMAIN r # {"bear"}
      BY DEF Cases
    <2>3. /\ r["bear"] * Blend(weights, r).den - Blend(weights, r).num = Lost
          /\ Index * Blend(weights, r).den - Blend(weights, r).num = Need
      BY <2>1 DEF Lost, Need
    <2> QED BY <2>2, <2>3 DEF Flip
  <1>5. flip = Flip(weights, r)
    BY DEF PInv
  <1> QED BY <1>1, <1>2, <1>4, <1>5 DEF None, Ratio

\* On which side of the index the average of the reweighed cases lies.
LEMMA SideOfIndex ==
    ASSUME PInv, Evaluated, DOMAIN proposal.returns = Cases, NEW x \in 0..20
    PROVE  LET average == Expected(Reweighed(x, Unit), proposal.returns)
           IN  /\ Above(average, Index) <=> x * Lost > 20 * Need
               /\ AtLeast(average, Index) <=> x * Lost >= 20 * Need
  <1> DEFINE r == proposal.returns
             w == weights.w
             rest == w["base"] + w["bull"]
             sum == w["base"] * r["base"] + w["bull"] * r["bull"]
             a == Reweighed(x, Unit)
             average == Expected(a, r)
  <1>1. \A c \in Cases : r[c] \in Int /\ w[c] \in Nat \ {0}
    BY AppliedWeights, NothingLeftOut
  <1>2. rest \in Int /\ sum \in Int /\ r["bear"] \in Int
    BY <1>1 DEF Cases
  <1>3. /\ a.w["bear"] = x * rest
        /\ a.w["base"] = (20 - x) * w["base"] /\ a.w["bull"] = (20 - x) * w["bull"]
    BY DEF Reweighed, Unit, Cases
  <1> HIDE DEF a
  <1>4. /\ average.num = a.w["bear"] * r["bear"] + a.w["base"] * r["base"] + a.w["bull"] * r["bull"]
        /\ average.den = a.w["bear"] + a.w["base"] + a.w["bull"]
    BY AverageIs, ByCaseIs DEF Ratio, Cases
  <1> HIDE DEF average
  <1>5. average.den = 20 * rest
    <2> DEFINE p == w["base"]
               q == w["bull"]
    <2>1. p \in Int /\ q \in Int
      BY <1>1 DEF Cases
    <2>2. average.den = x * (p + q) + (20 - x) * p + (20 - x) * q
      BY <1>3, <1>4
    <2> HIDE DEF p, q
    <2>3. average.den = 20 * (p + q)
      BY <2>1, <2>2
    <2> QED BY <2>3 DEF p, q
  <1>6. average.num = x * (r["bear"] * rest) + (20 - x) * sum
    BY <1>1, <1>3, <1>4 DEF Cases
  <1>7. Lost = r["bear"] * rest - sum /\ Need = 7 * rest - sum
    BY DEF Lost, Need, Index
  <1> HIDE DEF rest, sum
  <1> DEFINE t == r["bear"] * rest
  <1>8. t \in Int
    BY <1>2
  <1>9. Lost = t - sum /\ average.num = x * t + (20 - x) * sum
    BY <1>6, <1>7
  <1> HIDE DEF t
  <1>10. average.num = x * Lost + 20 * sum /\ x * Lost \in Int
    BY <1>2, <1>8, <1>9
  <1>11. 7 * average.den = 20 * Need + 20 * sum /\ Need \in Int
    BY <1>2, <1>5, <1>7
  <1>12. /\ Above(average, Index) <=> x * Lost > 20 * Need
         /\ AtLeast(average, Index) <=> x * Lost >= 20 * Need
    BY <1>2, <1>10, <1>11 DEF Above, AtLeast, Index
  <1> QED BY <1>12 DEF average, a

\* For every proposal whose three cases all have a return: if two bear weights of the band
\* put the average on different sides of the index, the reported flip lies in the band
\* (bear_weight_that_flips). With a case left out it may not (evaluate.py:364).
THEOREM SensitivityIsHonest == Spec => []SensitivityHonest
  <1>1. ASSUME PInv, Evaluated, flip.known, DOMAIN proposal.returns = Cases,
               NEW x \in Low("bear")..High("bear"), NEW y \in Low("bear")..High("bear"),
               Above(Expected(Reweighed(x, Unit), proposal.returns), Index),
               ~AtLeast(Expected(Reweighed(y, Unit), proposal.returns), Index)
        PROVE  InsideBand(flip)
    <2>1. Low("bear") = 3 /\ High("bear") = 9
      BY DEF Low, High, Default, Band
    <2>2. x \in 3..9 /\ y \in 3..9 /\ x \in 0..20 /\ y \in 0..20
      BY <2>1
    <2>3. x * Lost > 20 * Need /\ ~(y * Lost >= 20 * Need)
      BY <1>1, <2>2, SideOfIndex
    <2>4. Lost \in Int /\ Need \in Int
      BY <1>1, NothingLeftOut
    <2>5. CASE Lost > 0
      <3>1. x * Lost <= 9 * Lost /\ y * Lost >= 3 * Lost
        BY <2>2, <2>4, <2>5
      <3>2. flip.num = Need /\ flip.den = Lost
        BY <1>1, <2>5, NothingLeftOut
      <3>3. x * Lost \in Int /\ y * Lost \in Int
        BY <2>2, <2>4
      <3> QED BY <1>1, <2>1, <2>3, <2>4, <3>1, <3>2, <3>3 DEF InsideBand, Unit
    <2>6. CASE Lost < 0
      <3>1. y * Lost >= 9 * Lost /\ x * Lost <= 3 * Lost
        BY <2>2, <2>4, <2>6
      <3>2. flip.num = -Need /\ flip.den = -Lost
        BY <1>1, <2>6, NothingLeftOut
      <3>3. x * Lost \in Int /\ y * Lost \in Int
        BY <2>2, <2>4
      <3> QED BY <1>1, <2>1, <2>3, <2>4, <3>1, <3>2, <3>3 DEF InsideBand, Unit
    <2> QED BY <1>1, <2>4, <2>5, <2>6, NothingLeftOut
  <1>2. PInv => SensitivityHonest
    BY <1>1 DEF SensitivityHonest
  <1> QED BY <1>2, InitInv, StepInv, PTL DEF Spec

-----------------------------------------------------------------------------
(* Prior and attempts.                                                      *)

\* Clipping stays between its bounds and keeps the order of what it clips.
LEMMA ClipBounds ==
    ASSUME NEW low \in Int, NEW high \in Int, low <= high, NEW x \in Int
    PROVE  Clip(x, low, high) \in low..high
  BY DEF Clip

LEMMA ClipMonotone ==
    ASSUME NEW low \in Int, NEW high \in Int, low <= high,
           NEW x \in Int, NEW y \in Int, x <= y
    PROVE  Clip(x, low, high) <= Clip(y, low, high)
  BY DEF Clip

\* The shift that is applied lies within the cap, and the Red Team can only lower it.
LEMMA ShiftHeld ==
    ASSUME NEW tilt \in -100..100, NEW red \in -100..0
    PROVE  /\ Applied(tilt, red) \in -Cap..Cap
           /\ Applied(tilt, 0) \in -Cap..Cap
           /\ Applied(tilt, red) <= Applied(tilt, 0)
  <1>1. -Cap \in Int /\ Cap \in Int /\ -Cap <= Cap
    BY DEF Cap
  <1>2. tilt + red \in Int /\ tilt + 0 \in Int /\ tilt + red <= tilt + 0
    OBVIOUS
  <1> QED
    BY <1>1, <1>2, ClipBounds, ClipMonotone DEF Applied

\* For any shift within the cap the chance stays as close to the base rate.
LEMMA ChanceHeld ==
    ASSUME NEW h \in Horizons, NEW s \in -Cap..Cap, NEW t \in -Cap..Cap, s <= t
    PROVE  /\ Chance(s)[h] \in (BaseRate[h] - Cap)..(BaseRate[h] + Cap)
           /\ Chance(s)[h] <= Chance(t)[h]
  <1>1. BaseRate[h] \in 42..47
    BY DEF BaseRate, Horizons
  <1>2. BaseRate[h] + s \in 0..100 /\ BaseRate[h] + t \in 0..100
    BY <1>1 DEF Cap
  <1>3. Chance(s)[h] = BaseRate[h] + s /\ Chance(t)[h] = BaseRate[h] + t
    BY <1>2 DEF Chance, Clip
  <1> QED
    BY <1>1, <1>3 DEF Cap

\* No proposal of the Scenario Agent and the Red Team, however they split a request, moves
\* P(beat S&P) by more than the cap, and the Red Team only lowers it (prior.py apply_shifts).
THEOREM PriorIsHeld == Spec => []PriorHeld
  <1>1. PInv => PriorHeld
    <2> SUFFICES ASSUME PInv, Evaluated, NEW h \in Horizons
                 PROVE  /\ chance[h] \in (BaseRate[h] - Cap)..(BaseRate[h] + Cap)
                        /\ chance[h] <= Chance(Applied(proposal.tilt, 0))[h]
      BY DEF PriorHeld
    <2>1. proposal.tilt \in -100..100 /\ proposal.red \in -100..0
      BY ProposalAssumption DEF PInv
    <2>2. chance = Chance(Applied(proposal.tilt, proposal.red))
      BY DEF PInv
    <2> QED
      BY <2>1, <2>2, ShiftHeld, ChanceHeld
  <1> QED
    BY <1>1, InitInv, StepInv, PTL DEF Spec

\* The synthesizer is asked at most twice, whatever it answers (run_decision's loop).
AskedTwice == tries <= 2

THEOREM CorrectedOnce == Spec => []AskedTwice
  <1>1. PInv => AskedTwice
    BY DEF PInv, AskedTwice
  <1> QED
    BY <1>1, InitInv, StepInv, PTL DEF Spec
=============================================================================
