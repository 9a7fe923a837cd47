------------------------- MODULE ScenarioEngine_proofs -------------------------
(* Proofs about the scenario engine, for every set of scripts: the state has   *)
(* its type, no step of a script begins while the script is held, and the      *)
(* fixtures in force are those of the scripts being executed.                  *)
EXTENDS ScenarioEngine, MappingReducer_proofs, SequenceTheorems

Frames == [script : DOMAIN Scripts \cup {Null}, steps : Bodies, pc : Nat, rounds : Nat]
Fixtures == { Scripts[name].fixtures : name \in DOMAIN Scripts }

-----------------------------------------------------------------------------
(* The overrides of a stack of frames.                                       *)

\* An element put before a sequence.
LEMMA PutFirst ==
    ASSUME NEW S, NEW x \in S, NEW t \in Seq(S)
    PROVE  /\ << x >> \o t \in Seq(S) /\ Len(<< x >> \o t) = Len(t) + 1
           /\ (<< x >> \o t)[1] = x
           /\ \A i \in 1 .. Len(t) : (<< x >> \o t)[i + 1] = t[i]
<1>. DEFINE one == << x >>
<1>1. one \in Seq(S) /\ Len(one) = 1 /\ one[1] = x
  OBVIOUS
<1>. HIDE DEF one
<1>2. /\ one \o t \in Seq(S) /\ Len(one \o t) = Len(one) + Len(t)
      /\ \A i \in 1 .. Len(one) + Len(t) : (one \o t)[i] =
           IF i <= Len(one) THEN one[i] ELSE t[i - Len(one)]
  BY <1>1, ConcatProperties
<1>3. Len(t) \in Nat
  BY LenProperties
<1>4. /\ one \o t \in Seq(S) /\ Len(one \o t) = Len(t) + 1 /\ (one \o t)[1] = x
      /\ \A i \in 1 .. Len(t) : (one \o t)[i + 1] = t[i]
  BY <1>1, <1>2, <1>3
<1>. QED BY <1>4 DEF one

\* What the frames are in the middle of does not matter, only whose they are.
LEMMA ScopedSame ==
    ASSUME NEW fs \in Seq(Frames), NEW gs \in Seq(Frames), NEW os \in Seq(Fixtures),
           Len(gs) = Len(fs), \A i \in 1 .. Len(fs) : gs[i].script = fs[i].script,
           Scoped(fs, os)
    PROVE  Scoped(gs, os)
<1>1. PICK at \in [DOMAIN os -> DOMAIN fs] :
         /\ \A k, l \in DOMAIN os : k < l => at[k] < at[l]
         /\ \A i \in DOMAIN fs : Declares(fs[i]) <=> \E k \in DOMAIN os : at[k] = i
         /\ \A k \in DOMAIN os : os[k] = Scripts[fs[at[k]].script].fixtures
  BY DEF Scoped
<1>2. DOMAIN gs = DOMAIN fs /\ DOMAIN fs = 1 .. Len(fs)
  BY LenProperties
<1>3. \A i \in DOMAIN fs : Declares(gs[i]) <=> Declares(fs[i])
  BY <1>2 DEF Declares
<1>4. at \in [DOMAIN os -> DOMAIN gs]
  BY <1>2
<1>5. /\ \A i \in DOMAIN gs : Declares(gs[i]) <=> \E k \in DOMAIN os : at[k] = i
      /\ \A k \in DOMAIN os : os[k] = Scripts[gs[at[k]].script].fixtures
  BY <1>1, <1>2, <1>3
<1>. QED BY <1>1, <1>4, <1>5 DEF Scoped

\* A frame is entered: its fixtures, if it declares any, are put before the others.
LEMMA ScopedPush ==
    ASSUME NEW fs \in Seq(Frames), NEW os \in Seq(Fixtures), NEW f \in Frames, Scoped(fs, os)
    PROVE  /\ Declares(f) => Scoped(<< f >> \o fs, << Scripts[f.script].fixtures >> \o os)
           /\ ~Declares(f) => Scoped(<< f >> \o fs, os)
<1>1. PICK at \in [DOMAIN os -> DOMAIN fs] :
         /\ \A k, l \in DOMAIN os : k < l => at[k] < at[l]
         /\ \A i \in DOMAIN fs : Declares(fs[i]) <=> \E k \in DOMAIN os : at[k] = i
         /\ \A k \in DOMAIN os : os[k] = Scripts[fs[at[k]].script].fixtures
  BY DEF Scoped
<1>. DEFINE gs == << f >> \o fs
<1>2. /\ DOMAIN fs = 1 .. Len(fs) /\ Len(fs) \in Nat
      /\ DOMAIN os = 1 .. Len(os) /\ Len(os) \in Nat
  BY LenProperties
<1>3. /\ gs \in Seq(Frames) /\ Len(gs) = Len(fs) + 1
      /\ gs[1] = f /\ \A i \in 1 .. Len(fs) : gs[i + 1] = fs[i]
  BY PutFirst
<1>4. DOMAIN gs = 1 .. Len(fs) + 1
  BY <1>3, LenProperties
<1>5. \A k \in DOMAIN os : at[k] \in 1 .. Len(fs)
  BY <1>2
<1>. HIDE DEF gs
<1>6. ASSUME Declares(f)
      PROVE  Scoped(gs, << Scripts[f.script].fixtures >> \o os)
  <2>. DEFINE ps == << Scripts[f.script].fixtures >> \o os
              to == [k \in 1 .. Len(os) + 1 |-> IF k = 1 THEN 1 ELSE at[k - 1] + 1]
  <2>1. f.script \in DOMAIN Scripts
    BY <1>6 DEF Declares, Frames
  <2>3. /\ ps \in Seq(Fixtures) /\ Len(ps) = Len(os) + 1
        /\ ps[1] = Scripts[f.script].fixtures /\ \A k \in 1 .. Len(os) : ps[k + 1] = os[k]
    BY <2>1, PutFirst DEF Fixtures
  <2>4. DOMAIN ps = 1 .. Len(os) + 1
    BY <2>3, LenProperties
  <2>. HIDE DEF ps
  <2>5. /\ to[1] = 1 /\ \A k \in 1 .. Len(os) : to[k + 1] = at[k] + 1
        /\ \A k \in 2 .. Len(os) + 1 : to[k] = at[k - 1] + 1
    BY <1>2
  <2>6. to \in [DOMAIN ps -> DOMAIN gs]
    BY <1>2, <1>4, <1>5, <2>4
  <2>. HIDE DEF to
  <2>7. \A k, l \in DOMAIN ps : k < l => to[k] < to[l]
    <3>. SUFFICES ASSUME NEW k \in DOMAIN ps, NEW l \in DOMAIN ps, k < l
                  PROVE  to[k] < to[l]
      OBVIOUS
    <3>1. l \in 2 .. Len(os) + 1 /\ l - 1 \in DOMAIN os /\ at[l - 1] \in 1 .. Len(fs)
      BY <1>2, <1>5, <2>4
    <3>2. CASE k = 1
      BY <3>1, <3>2, <2>5, <1>2
    <3>3. CASE k # 1
      <4>1. k \in 2 .. Len(os) + 1 /\ k - 1 \in DOMAIN os /\ k - 1 < l - 1
        BY <1>2, <2>4, <3>3
      <4>2. at[k - 1] < at[l - 1]
        BY <4>1, <3>1, <1>1
      <4>. QED BY <4>1, <4>2, <3>1, <2>5, <1>2, <1>5
    <3>. QED BY <3>2, <3>3
  <2>8. ASSUME NEW i \in DOMAIN gs
        PROVE  Declares(gs[i]) <=> \E k \in DOMAIN ps : to[k] = i
    <3>1. CASE i = 1
      BY <3>1, <1>2, <1>3, <1>6, <2>4, <2>5
    <3>2. CASE i # 1
      <4>1. i - 1 \in DOMAIN fs /\ gs[i] = fs[i - 1]
        BY <3>2, <1>2, <1>3, <1>4
      <4>2. Declares(fs[i - 1]) <=> \E k \in DOMAIN os : at[k] = i - 1
        BY <4>1, <1>1
      <4>3. ASSUME NEW k \in DOMAIN os, at[k] = i - 1
            PROVE  k + 1 \in DOMAIN ps /\ to[k + 1] = i
        BY <4>3, <1>2, <1>4, <2>4, <2>5
      <4>4. ASSUME NEW k \in DOMAIN ps, to[k] = i
            PROVE  k - 1 \in DOMAIN os /\ at[k - 1] = i - 1
        <5>1. k \in 2 .. Len(os) + 1
          BY <4>4, <3>2, <1>2, <2>4, <2>5
        <5>2. k - 1 \in DOMAIN os /\ to[k] = at[k - 1] + 1 /\ at[k - 1] \in 1 .. Len(fs)
          BY <5>1, <1>2, <1>5, <2>5
        <5>3. i = at[k - 1] + 1 /\ at[k - 1] \in Nat
          BY <5>2, <4>4, <1>2
        <5>. QED BY <5>2, <5>3
      <4>. QED BY <4>1, <4>2, <4>3, <4>4
    <3>. QED BY <3>1, <3>2
  <2>9. ASSUME NEW k \in DOMAIN ps
        PROVE  ps[k] = Scripts[gs[to[k]].script].fixtures
    <3>1. CASE k = 1
      BY <3>1, <1>3, <2>3, <2>5
    <3>2. CASE k # 1
      <4>1. k \in 2 .. Len(os) + 1 /\ k - 1 \in 1 .. Len(os) /\ (k - 1) + 1 = k
        BY <3>2, <1>2, <2>4
      <4>2. ps[k] = os[k - 1]
        BY <4>1, <2>3
      <4>3. to[k] = at[k - 1] + 1 /\ at[k - 1] \in 1 .. Len(fs)
        BY <4>1, <2>5, <1>2, <1>5
      <4>4. gs[to[k]] = fs[at[k - 1]]
        BY <4>3, <1>3
      <4>. QED BY <4>1, <4>2, <4>4, <1>1, <1>2
    <3>. QED BY <3>1, <3>2
  <2>10. Scoped(gs, ps)
    BY <2>6, <2>7, <2>8, <2>9 DEF Scoped
  <2>. QED BY <2>10 DEF ps
<1>7. ASSUME ~Declares(f)
      PROVE  Scoped(gs, os)
  <2>. DEFINE to == [k \in DOMAIN os |-> at[k] + 1]
  <2>1. to \in [DOMAIN os -> DOMAIN gs]
    BY <1>2, <1>4, <1>5
  <2>2. \A k \in DOMAIN os : to[k] = at[k] + 1
    OBVIOUS
  <2>. HIDE DEF to
  <2>3. \A k, l \in DOMAIN os : k < l => to[k] < to[l]
    <3>. SUFFICES ASSUME NEW k \in DOMAIN os, NEW l \in DOMAIN os, k < l
                  PROVE  to[k] < to[l]
      OBVIOUS
    <3>1. at[k] < at[l]
      BY <1>1
    <3>. QED BY <3>1, <2>2, <1>5
  <2>4. ASSUME NEW i \in DOMAIN gs
        PROVE  Declares(gs[i]) <=> \E k \in DOMAIN os : to[k] = i
    <3>1. CASE i = 1
      <4>1. \A k \in DOMAIN os : to[k] # 1
        BY <2>2, <1>5
      <4>. QED BY <3>1, <4>1, <1>3, <1>7
    <3>2. CASE i # 1
      <4>1. i - 1 \in DOMAIN fs /\ gs[i] = fs[i - 1]
        BY <3>2, <1>2, <1>3, <1>4
      <4>2. Declares(fs[i - 1]) <=> \E k \in DOMAIN os : at[k] = i - 1
        BY <4>1, <1>1
      <4>3. \A k \in DOMAIN os : at[k] = i - 1 <=> to[k] = i
        BY <2>2, <1>2, <1>4, <1>5
      <4>. QED BY <4>1, <4>2, <4>3
    <3>. QED BY <3>1, <3>2
  <2>5. ASSUME NEW k \in DOMAIN os
        PROVE  os[k] = Scripts[gs[to[k]].script].fixtures
    <3>1. gs[to[k]] = fs[at[k]]
      BY <2>2, <1>3, <1>5
    <3>. QED BY <3>1, <1>1
  <2>. QED BY <2>1, <2>3, <2>4, <2>5 DEF Scoped
<1>. QED BY <1>6, <1>7 DEF gs

\* The innermost frame is left: what it declared is the innermost override.
LEMMA ScopedPop ==
    ASSUME NEW fs \in Seq(Frames), NEW os \in Seq(Fixtures), fs # << >>, Scoped(fs, os)
    PROVE  /\ Declares(Head(fs)) => os # << >> /\ Scoped(Tail(fs), Tail(os))
           /\ ~Declares(Head(fs)) => Scoped(Tail(fs), os)
<1>1. PICK at \in [DOMAIN os -> DOMAIN fs] :
         /\ \A k, l \in DOMAIN os : k < l => at[k] < at[l]
         /\ \A i \in DOMAIN fs : Declares(fs[i]) <=> \E k \in DOMAIN os : at[k] = i
         /\ \A k \in DOMAIN os : os[k] = Scripts[fs[at[k]].script].fixtures
  BY DEF Scoped
<1>. DEFINE gs == Tail(fs)
<1>2. /\ DOMAIN fs = 1 .. Len(fs) /\ Len(fs) \in Nat \ {0}
      /\ DOMAIN os = 1 .. Len(os) /\ Len(os) \in Nat
  BY LenProperties, EmptySeq
<1>3. /\ gs \in Seq(Frames) /\ Len(gs) = Len(fs) - 1
      /\ \A i \in 1 .. Len(fs) - 1 : gs[i] = fs[i + 1]
  BY HeadTailProperties
<1>4. DOMAIN gs = 1 .. Len(fs) - 1
  BY <1>3, LenProperties
<1>5. \A k \in DOMAIN os : at[k] \in 1 .. Len(fs)
  BY <1>2
<1>6. Head(fs) = fs[1] /\ 1 \in DOMAIN fs
  BY <1>2
<1>. HIDE DEF gs
<1>7. ASSUME Declares(Head(fs))
      PROVE  os # << >> /\ Scoped(gs, Tail(os))
  <2>1. PICK first \in DOMAIN os : at[first] = 1
    BY <1>1, <1>6, <1>7
  <2>2. os # << >> /\ Len(os) \in Nat \ {0} /\ 1 \in DOMAIN os
    BY <2>1, <1>2
  <2>3. at[1] = 1
    <3>1. CASE first = 1
      BY <2>1, <3>1
    <3>2. CASE first # 1
      <4>1. at[1] < at[first]
        BY <3>2, <2>1, <2>2, <1>1, <1>2
      <4>. QED BY <4>1, <2>1, <2>2, <1>5
    <3>. QED BY <3>1, <3>2
  <2>. DEFINE ps == Tail(os)
              to == [k \in 1 .. Len(os) - 1 |-> at[k + 1] - 1]
  <2>4. /\ ps \in Seq(Fixtures) /\ Len(ps) = Len(os) - 1
        /\ \A k \in 1 .. Len(os) - 1 : ps[k] = os[k + 1]
    BY <2>2, HeadTailProperties
  <2>5. DOMAIN ps = 1 .. Len(os) - 1
    BY <2>4, LenProperties
  <2>. HIDE DEF ps
  <2>6. \A k \in DOMAIN ps : k + 1 \in DOMAIN os /\ at[k + 1] \in 2 .. Len(fs)
    <3>. SUFFICES ASSUME NEW k \in DOMAIN ps
                  PROVE  k + 1 \in DOMAIN os /\ at[k + 1] \in 2 .. Len(fs)
      OBVIOUS
    <3>1. k + 1 \in DOMAIN os /\ 1 < k + 1
      BY <1>2, <2>5
    <3>2. at[1] < at[k + 1]
      BY <3>1, <2>2, <1>1
    <3>. QED BY <3>1, <3>2, <2>3, <1>5, <1>2
  <2>7. \A k \in DOMAIN ps : to[k] = at[k + 1] - 1
    BY <2>5
  <2>8. to \in [DOMAIN ps -> DOMAIN gs]
    BY <1>2, <1>4, <2>5, <2>6
  <2>. HIDE DEF to
  <2>9. \A k, l \in DOMAIN ps : k < l => to[k] < to[l]
    <3>. SUFFICES ASSUME NEW k \in DOMAIN ps, NEW l \in DOMAIN ps, k < l
                  PROVE  to[k] < to[l]
      OBVIOUS
    <3>1. k + 1 < l + 1
      BY <2>5, <1>2
    <3>2. at[k + 1] < at[l + 1]
      BY <3>1, <2>6, <1>1
    <3>. QED BY <3>2, <2>6, <2>7, <1>2
  <2>10. ASSUME NEW i \in DOMAIN gs
         PROVE  Declares(gs[i]) <=> \E k \in DOMAIN ps : to[k] = i
    <3>1. i + 1 \in DOMAIN fs /\ gs[i] = fs[i + 1] /\ i + 1 # 1
      BY <1>2, <1>3, <1>4
    <3>2. Declares(fs[i + 1]) <=> \E k \in DOMAIN os : at[k] = i + 1
      BY <3>1, <1>1
    <3>3. ASSUME NEW k \in DOMAIN os, at[k] = i + 1
          PROVE  k - 1 \in DOMAIN ps /\ to[k - 1] = i
      <4>1. k # 1
        BY <3>3, <3>1, <2>3
      <4>2. k - 1 \in DOMAIN ps /\ (k - 1) + 1 = k
        BY <4>1, <1>2, <2>5
      <4>. QED BY <4>2, <3>3, <2>7, <1>4, <1>2
    <3>4. ASSUME NEW k \in DOMAIN ps, to[k] = i
          PROVE  k + 1 \in DOMAIN os /\ at[k + 1] = i + 1
      <4>1. k + 1 \in DOMAIN os /\ at[k + 1] \in 2 .. Len(fs) /\ i = at[k + 1] - 1
        BY <3>4, <2>6, <2>7
      <4>. QED BY <4>1, <1>2
    <3>. QED BY <3>1, <3>2, <3>3, <3>4
  <2>11. ASSUME NEW k \in DOMAIN ps
         PROVE  ps[k] = Scripts[gs[to[k]].script].fixtures
    <3>1. ps[k] = os[k + 1] /\ k + 1 \in DOMAIN os
      BY <2>4, <2>5, <2>6
    <3>2. gs[to[k]] = fs[at[k + 1]]
      <4>1. at[k + 1] \in 2 .. Len(fs) /\ to[k] = at[k + 1] - 1
        BY <2>6, <2>7
      <4>2. to[k] \in 1 .. Len(fs) - 1 /\ to[k] + 1 = at[k + 1]
        BY <4>1, <1>2
      <4>. QED BY <4>2, <1>3
    <3>. QED BY <3>1, <3>2, <1>1
  <2>12. Scoped(gs, ps)
    BY <2>8, <2>9, <2>10, <2>11 DEF Scoped
  <2>. QED BY <2>2, <2>12 DEF ps
<1>8. ASSUME ~Declares(Head(fs))
      PROVE  Scoped(gs, os)
  <2>. DEFINE to == [k \in DOMAIN os |-> at[k] - 1]
  <2>1. \A k \in DOMAIN os : at[k] \in 2 .. Len(fs)
    <3>1. \A k \in DOMAIN os : at[k] # 1
      BY <1>1, <1>6, <1>8
    <3>. QED BY <3>1, <1>5, <1>2
  <2>2. to \in [DOMAIN os -> DOMAIN gs]
    BY <1>2, <1>4, <2>1
  <2>3. \A k \in DOMAIN os : to[k] = at[k] - 1
    OBVIOUS
  <2>. HIDE DEF to
  <2>4. \A k, l \in DOMAIN os : k < l => to[k] < to[l]
    <3>. SUFFICES ASSUME NEW k \in DOMAIN os, NEW l \in DOMAIN os, k < l
                  PROVE  to[k] < to[l]
      OBVIOUS
    <3>1. at[k] < at[l]
      BY <1>1
    <3>. QED BY <3>1, <2>1, <2>3, <1>2
  <2>5. ASSUME NEW i \in DOMAIN gs
        PROVE  Declares(gs[i]) <=> \E k \in DOMAIN os : to[k] = i
    <3>1. i + 1 \in DOMAIN fs /\ gs[i] = fs[i + 1]
      BY <1>2, <1>3, <1>4
    <3>2. Declares(fs[i + 1]) <=> \E k \in DOMAIN os : at[k] = i + 1
      BY <3>1, <1>1
    <3>3. \A k \in DOMAIN os : at[k] = i + 1 <=> to[k] = i
      BY <2>1, <2>3, <1>2, <1>4
    <3>. QED BY <3>1, <3>2, <3>3
  <2>6. ASSUME NEW k \in DOMAIN os
        PROVE  os[k] = Scripts[gs[to[k]].script].fixtures
    <3>1. at[k] \in 2 .. Len(fs) /\ to[k] = at[k] - 1
      BY <2>1, <2>3
    <3>2. to[k] \in 1 .. Len(fs) - 1 /\ to[k] + 1 = at[k]
      BY <3>1, <1>2
    <3>3. gs[to[k]] = fs[at[k]]
      BY <3>2, <1>3
    <3>. QED BY <3>3, <1>1
  <2>. QED BY <2>2, <2>4, <2>5, <2>6 DEF Scoped
<1>. QED BY <1>7, <1>8 DEF gs

-----------------------------------------------------------------------------
(* The inductive invariant.                                                  *)

\* A slice that is being slept was there to be slept.
SliceLeft == place = "slice" => left > 0

\* The frames are scripts and loops of the scripts, the overrides their fixtures.
Stacked == frames \in Seq(Frames) /\ overrides \in Seq(Fixtures)

Robust == TypeOK /\ Stacked /\ SliceLeft /\ HeldBeforeStep /\ OverridesScoped

\* The constants as the parser leaves them, one fact at a time.
LEMMA ScriptsTyped ==
    /\ AppEvents \subseteq MappingEvent
    /\ \A name \in DOMAIN Scripts :
         /\ name # Null
         /\ scriptFrame(name) \in Frames /\ Scripts[name].fixtures \in Fixtures
         /\ Scripts[name].setup.state \in TASK_STATES \cup {Null}
         /\ Scripts[name].setup.phase \in MappingPhase \cup {Null}
    /\ \A body \in Bodies : \A i \in DOMAIN body : IsStep(body[i])
BY ScriptAssumption DEF ScriptAssumption, scriptFrame, Frame, Frames, Fixtures

\* The innermost frame, and the stack with another frame of the same script in its place.
LEMMA TopTyped ==
    ASSUME frames \in Seq(Frames), frames # << >>
    PROVE  /\ top \in Frames /\ Tail(frames) \in Seq(Frames)
           /\ Len(frames) \in Nat \ {0} /\ Len(Tail(frames)) = Len(frames) - 1
           /\ Len(frames) # 1 => Tail(frames) # << >>
           /\ top = frames[1] /\ \A i \in 1 .. Len(Tail(frames)) : Tail(frames)[i] = frames[i + 1]
<1>1. Len(frames) \in Nat \ {0} /\ frames[1] = Head(frames)
  BY EmptySeq
<1>2. /\ Head(frames) \in Frames /\ Tail(frames) \in Seq(Frames)
      /\ Len(Tail(frames)) = Len(frames) - 1
      /\ \A i \in 1 .. Len(Tail(frames)) : Tail(frames)[i] = frames[i + 1]
  BY HeadTailProperties
<1>3. ASSUME Len(frames) # 1
      PROVE  Tail(frames) # << >>
  <2>1. Len(Tail(frames)) # 0
    BY <1>1, <1>2, <1>3
  <2>. QED BY <2>1, EmptySeq
<1>. QED BY <1>1, <1>2, <1>3 DEF top

\* The frame on top may change, but not its script.
LEMMA OtherTop ==
    ASSUME Stacked, OverridesScoped, frames # << >>,
           NEW f \in Frames, f.script = top.script
    PROVE  /\ << f >> \o Tail(frames) \in Seq(Frames)
           /\ << f >> \o Tail(frames) # << >>
           /\ Scoped(<< f >> \o Tail(frames), overrides)
<1>. DEFINE rest == Tail(frames)
            gs == << f >> \o rest
<1>1. /\ rest \in Seq(Frames) /\ Len(frames) \in Nat \ {0} /\ Len(rest) = Len(frames) - 1
      /\ top = frames[1] /\ \A i \in 1 .. Len(rest) : rest[i] = frames[i + 1]
  BY TopTyped DEF Stacked
<1>. HIDE DEF rest
<1>2. /\ gs \in Seq(Frames) /\ Len(gs) = Len(rest) + 1
      /\ gs[1] = f /\ \A i \in 1 .. Len(rest) : gs[i + 1] = rest[i]
  BY <1>1, PutFirst
<1>. HIDE DEF gs
<1>3. gs # << >> /\ Len(gs) = Len(frames)
  BY <1>1, <1>2, EmptySeq
<1>4. ASSUME NEW i \in 1 .. Len(frames)
      PROVE  gs[i].script = frames[i].script
  <2>1. CASE i = 1
    BY <2>1, <1>1, <1>2
  <2>2. CASE i # 1
    <3>1. i - 1 \in 1 .. Len(rest) /\ (i - 1) + 1 = i
      BY <2>2, <1>1
    <3>. QED BY <3>1, <1>1, <1>2
  <2>. QED BY <2>1, <2>2
<1>5. Scoped(gs, overrides)
  BY <1>2, <1>3, <1>4, ScopedSame DEF Stacked, OverridesScoped
<1>. QED BY <1>2, <1>3, <1>5 DEF gs, rest

\* The step that is due, and the frame once it is done.
LEMMA StepTyped ==
    ASSUME Stacked, frames # << >>, top.pc \in DOMAIN top.steps
    PROVE  IsStep(step)
<1>1. top \in Frames
  BY TopTyped DEF Stacked
<1>2. top.steps \in Bodies
  BY <1>1 DEF Frames
<1>. QED BY <1>2, ScriptsTyped DEF step

\* The next step of the same script: its fixtures stay in force.
LEMMA AdvancedTyped ==
    ASSUME Stacked, OverridesScoped, frames # << >>
    PROVE  /\ Advanced \in Seq(Frames) /\ Advanced # << >>
           /\ Scoped(Advanced, overrides)
<1>. DEFINE f == [top EXCEPT !.pc = @ + 1]
<1>1. top \in Frames
  BY TopTyped DEF Stacked
<1>2. f \in Frames /\ f.script = top.script
  BY <1>1 DEF Frames
<1>3. Advanced = << f >> \o Tail(frames)
  BY DEF Advanced
<1>. HIDE DEF f
<1>. QED BY <1>2, <1>3, OtherTop

\* A script or a loop is entered: its frame comes before the others.
LEMMA EnteredTyped ==
    ASSUME NEW fs \in Seq(Frames), NEW os \in Seq(Fixtures), Scoped(fs, os), NEW f \in Frames
    PROVE  << f >> \o fs \in Seq(Frames) /\ << f >> \o fs # << >>
<1>1. Len(<< f >> \o fs) = Len(fs) + 1 /\ << f >> \o fs \in Seq(Frames) /\ Len(fs) \in Nat
  BY PutFirst, LenProperties
<1>. QED BY <1>1, EmptySeq

\* Nothing executed, nothing overridden.
LEMMA NothingScoped == Scoped(<< >>, << >>)
<1>1. DOMAIN << >> = {}
  OBVIOUS
<1>2. [x \in {} |-> x] \in [DOMAIN << >> -> DOMAIN << >>]
  BY <1>1
<1>. QED BY <1>1, <1>2 DEF Scoped

Outcomes == { "none", "completed", "stopped", "failed", "timeout" }

\* The run is over, whatever it was in the middle of.
LEMMA ThrowRobust ==
    ASSUME Robust, NEW result \in Outcomes, Throw(result)
    PROVE  Robust'
<1>1. frames' = << >> /\ overrides' = << >> /\ place' = "idle"
  BY DEF Throw, End
<1>2. TypeOK'
  BY <1>1 DEF Robust, TypeOK, Throw, End, Outcomes, Delays
<1>3. Stacked'
  BY <1>1, EmptySeq DEF Stacked
<1>4. OverridesScoped'
  BY <1>1, NothingScoped DEF OverridesScoped
<1>. QED BY <1>1, <1>2, <1>3, <1>4 DEF Robust, SliceLeft, HeldBeforeStep

\* The chain goes on to a place where nothing is due before the next checkpoint, with
\* the frame it is in or one of the same script.
LEMMA GoesOnRobust ==
    ASSUME Robust, running # Null, running' = running, dataset' = dataset,
           robot' \in MappingContext, abortRequested' = abortRequested, paused' \in BOOLEAN,
           place' \in {"checkpoint", "waiting"}, left' \in Nat, outcome' = outcome,
           overrides' = overrides,
           frames' \in Seq(Frames), frames' # << >>, Scoped(frames', overrides)
    PROVE  Robust'
<1>1. TypeOK'
  BY DEF Robust, TypeOK, Delays
<1>2. Stacked' /\ OverridesScoped'
  BY DEF Robust, Stacked, OverridesScoped
<1>. QED BY <1>1, <1>2 DEF Robust, SliceLeft, HeldBeforeStep

\* A script or a loop of one is being executed.
LEMMA Executing ==
    ASSUME Robust, place # "idle"
    PROVE  /\ running # Null /\ frames # << >> /\ Stacked /\ OverridesScoped
           /\ robot \in MappingContext /\ paused \in BOOLEAN /\ left \in Nat
           /\ frames \in Seq(Frames) /\ Scoped(frames, overrides)
BY DEF Robust, TypeOK, Stacked, OverridesScoped

\* The check before a step stops, holds or lets on.
LEMMA CheckpointRobust ==
    ASSUME Robust, Checkpoint
    PROVE  Robust'
<1>1. CASE Throw("stopped")
  BY <1>1, ThrowRobust DEF Outcomes
<1>2. CASE /\ ~abortRequested
           /\ place' = IF paused THEN "checkpointDelay" ELSE "step"
           /\ UNCHANGED << robot, dataset, control, frames, left, overrides, outcome >>
  <2>1. place = "checkpoint"
    BY DEF Checkpoint
  <2>2. TypeOK'
    BY <1>2, <2>1 DEF Robust, TypeOK, control, Delays
  <2>3. Stacked' /\ OverridesScoped'
    BY <1>2 DEF Robust, Stacked, OverridesScoped
  <2>. QED BY <1>2, <2>2, <2>3 DEF Robust, SliceLeft, HeldBeforeStep, control
<1>. QED BY <1>1, <1>2 DEF Checkpoint

\* What the robot is after an event it knows.
LEMMA DispatchTyped ==
    ASSUME Robust, NEW event \in MappingEvent, Dispatch(event)
    PROVE  robot' \in MappingContext /\ paused' \in BOOLEAN
<1>1. robot \in MappingContext /\ paused \in BOOLEAN
  BY DEF Robust, TypeOK
<1>2. Sound(robot, mappingReducer(robot, event, FALSE))
  BY <1>1, MappingReducerSound
<1>. QED BY <1>1, <1>2 DEF Dispatch, Sound

\* Entering a script: its frame, its fixtures, its dataset and its setup.
LEMMA EnterTyped ==
    ASSUME Robust, NEW name \in DOMAIN Scripts, enterable(name), Enter(name)
    PROVE  /\ frames' \in Seq(Frames) /\ frames' # << >>
           /\ overrides' \in Seq(Fixtures) /\ Scoped(frames', overrides')
           /\ dataset' \in Datasets /\ robot' \in MappingContext /\ place' = "checkpoint"
<1>. DEFINE f == scriptFrame(name)
            rest == IF frames = << >> THEN << >> ELSE Advanced
<1>1. f \in Frames /\ f.script = name /\ name # Null
  BY ScriptsTyped DEF scriptFrame, Frame
<1>2. rest \in Seq(Frames) /\ Scoped(rest, overrides) /\ overrides \in Seq(Fixtures)
  <2>1. Stacked /\ OverridesScoped
    BY DEF Robust
  <2>2. CASE frames = << >>
    BY <2>1, <2>2, EmptySeq DEF Stacked, OverridesScoped
  <2>3. CASE frames # << >>
    BY <2>1, <2>3, AdvancedTyped DEF Stacked
  <2>. QED BY <2>2, <2>3
<1>3. frames' = << f >> \o rest
  BY DEF Enter
<1>4. overrides' = IF Declares(f) THEN << Scripts[f.script].fixtures >> \o overrides ELSE overrides
  BY <1>1 DEF Enter, pushOverrides, Declares
<1>. HIDE DEF f, rest
<1>5. frames' \in Seq(Frames) /\ frames' # << >>
  BY <1>1, <1>2, <1>3, EnteredTyped
<1>6. overrides' \in Seq(Fixtures)
  BY <1>1, <1>2, <1>4, PutFirst, ScriptsTyped
<1>7. Scoped(frames', overrides')
  BY <1>1, <1>2, <1>3, <1>4, ScopedPush
<1>8. dataset' \in Datasets /\ place' = "checkpoint"
  BY DEF Enter, enterable, Robust, TypeOK
<1>9. robot' \in MappingContext
  BY ScriptsTyped DEF Enter, applySetup, Robust, TypeOK, MappingContext
<1>. QED BY <1>5, <1>6, <1>7, <1>8, <1>9

\* A step of each kind: a wait, an action, a call, a loop.
LEMMA StepRobust ==
    ASSUME Robust, Step
    PROVE  Robust'
<1>1. place = "step" /\ top.pc \in DOMAIN top.steps
  BY DEF Step
<1>2. /\ running # Null /\ frames # << >> /\ Stacked /\ OverridesScoped
      /\ robot \in MappingContext /\ paused \in BOOLEAN /\ left \in Nat
      /\ frames \in Seq(Frames) /\ Scoped(frames, overrides)
  BY <1>1, Executing
<1>3. IsStep(step)
  BY <1>1, <1>2, StepTyped
<1>4. Advanced \in Seq(Frames) /\ Advanced # << >> /\ Scoped(Advanced, overrides)
  BY <1>2, AdvancedTyped
<1>5. CASE EmitStep
  <2>1. step.event \in MappingEvent /\ Dispatch(step.event)
    BY <1>3, <1>5 DEF EmitStep, IsStep
  <2>2. robot' \in MappingContext /\ paused' \in BOOLEAN
    BY <2>1, DispatchTyped
  <2>3. /\ frames' = Advanced /\ place' = "checkpoint"
        /\ UNCHANGED << dataset, running, abortRequested, left, overrides, outcome >>
    BY <1>5 DEF EmitStep, AfterStep
  <2>. QED BY <1>2, <1>4, <2>2, <2>3, GoesOnRobust
<1>6. CASE ExpectStep
  <2>1. CASE robot.state = step.state
    <3>1. /\ frames' = Advanced /\ place' = "checkpoint"
          /\ UNCHANGED << robot, dataset, control, left, overrides, outcome >>
      BY <1>6, <2>1 DEF ExpectStep, AfterStep
    <3>. QED BY <1>2, <1>4, <3>1, GoesOnRobust DEF control
  <2>2. CASE robot.state # step.state
    BY <1>6, <2>2, ThrowRobust DEF ExpectStep, Outcomes
  <2>. QED BY <2>1, <2>2
<1>7. CASE WaitStep
  <2>1. step.slices \in Nat
    BY <1>3, <1>7 DEF WaitStep, IsStep
  <2>2. /\ left' = step.slices /\ place' = "waiting"
        /\ UNCHANGED << robot, dataset, control, frames, overrides, outcome >>
    BY <1>7 DEF WaitStep
  <2>. QED BY <1>2, <2>1, <2>2, GoesOnRobust DEF control
<1>8. CASE LoopStep
  <2>. DEFINE f == Frame(Null, step.steps, step.rounds)
  <2>1. step.rounds \in Nat /\ step.steps \in Bodies
    BY <1>3, <1>8 DEF LoopStep, IsStep
  <2>2. f \in Frames /\ ~Declares(f)
    BY <2>1 DEF Frame, Frames, Declares
  <2>3. /\ frames' = << f >> \o Advanced /\ place' = "checkpoint"
        /\ UNCHANGED << robot, dataset, control, left, overrides, outcome >>
    BY <1>8 DEF LoopStep
  <2>. HIDE DEF f
  <2>4. overrides \in Seq(Fixtures)
    BY <1>2 DEF Stacked
  <2>5. frames' \in Seq(Frames) /\ frames' # << >>
    BY <1>4, <2>2, <2>3, <2>4, EnteredTyped
  <2>6. Scoped(frames', overrides)
    BY <1>4, <2>2, <2>3, <2>4, ScopedPush
  <2>. QED BY <1>2, <2>3, <2>5, <2>6, GoesOnRobust DEF control
<1>9. CASE IncludeStep
  <2>1. CASE step.name \in DOMAIN Scripts \ includeStack /\ enterable(step.name)
    <3>1. Enter(step.name) /\ UNCHANGED << control, left, outcome >>
      BY <1>9, <2>1 DEF IncludeStep
    <3>2. /\ frames' \in Seq(Frames) /\ frames' # << >>
          /\ overrides' \in Seq(Fixtures) /\ Scoped(frames', overrides')
          /\ dataset' \in Datasets /\ robot' \in MappingContext /\ place' = "checkpoint"
      BY <2>1, <3>1, EnterTyped
    <3>3. TypeOK'
      BY <1>1, <3>1, <3>2 DEF Robust, TypeOK, control, Delays
    <3>. QED BY <3>2, <3>3 DEF Robust, Stacked, OverridesScoped, SliceLeft, HeldBeforeStep
  <2>2. CASE ~(step.name \in DOMAIN Scripts \ includeStack /\ enterable(step.name))
    BY <1>9, <2>2, ThrowRobust DEF IncludeStep, Outcomes
  <2>. QED BY <2>1, <2>2
<1>. QED BY <1>5, <1>6, <1>7, <1>8, <1>9 DEF Step

\* The end of a body takes the fixtures of its script back, if it is the last one.
LEMMA FrameEndRobust ==
    ASSUME Robust, FrameEnd
    PROVE  Robust'
<1>1. place \in {"checkpoint", "step"}
  BY DEF FrameEnd
<1>2. /\ running # Null /\ frames # << >> /\ Stacked /\ OverridesScoped
      /\ robot \in MappingContext /\ paused \in BOOLEAN /\ left \in Nat
      /\ frames \in Seq(Frames) /\ Scoped(frames, overrides)
  BY <1>1, Executing
<1>3. /\ top \in Frames /\ Tail(frames) \in Seq(Frames)
      /\ Len(frames) # 1 => Tail(frames) # << >>
  BY <1>2, TopTyped
<1>4. CASE top.rounds # 1
  <2>. DEFINE f == [top EXCEPT !.pc = 1, !.rounds = IF @ = Forever THEN @ ELSE @ - 1]
  <2>1. f \in Frames /\ f.script = top.script
    <3>. DEFINE r == IF top.rounds = Forever THEN top.rounds ELSE top.rounds - 1
    <3>1. r \in Nat
      BY <1>3 DEF Frames, Forever
    <3>2. f = [top EXCEPT !.pc = 1, !.rounds = r]
      OBVIOUS
    <3>. HIDE DEF r, f
    <3>. QED BY <1>3, <3>1, <3>2 DEF Frames
  <2>2. /\ frames' = << f >> \o Tail(frames) /\ place' = "checkpoint"
        /\ UNCHANGED << robot, dataset, control, left, overrides, outcome >>
    BY <1>4 DEF FrameEnd
  <2>. HIDE DEF f
  <2>3. frames' \in Seq(Frames) /\ frames' # << >> /\ Scoped(frames', overrides)
    BY <1>2, <2>1, <2>2, OtherTop
  <2>. QED BY <1>2, <2>2, <2>3, GoesOnRobust DEF control
<1>5. CASE top.rounds = 1 /\ Len(frames) = 1
  BY <1>5, ThrowRobust DEF FrameEnd, Outcomes
<1>6. CASE top.rounds = 1 /\ Len(frames) # 1
  <2>1. /\ frames' = Tail(frames) /\ overrides' = popOverrides(top) /\ place' = "checkpoint"
        /\ UNCHANGED << robot, dataset, control, left, outcome >>
    BY <1>6 DEF FrameEnd
  <2>2. overrides' = IF Declares(top) THEN Tail(overrides) ELSE overrides
    BY <2>1 DEF popOverrides, Declares
  <2>3. overrides \in Seq(Fixtures) /\ Head(frames) = top
    BY <1>2 DEF Stacked, top
  <2>4. /\ Declares(top) => overrides # << >> /\ Scoped(Tail(frames), Tail(overrides))
        /\ ~Declares(top) => Scoped(Tail(frames), overrides)
    BY <1>2, <2>3, ScopedPop
  <2>5. overrides' \in Seq(Fixtures)
    BY <2>2, <2>3, <2>4, HeadTailProperties
  <2>6. Stacked' /\ OverridesScoped'
    BY <1>3, <2>1, <2>2, <2>4, <2>5 DEF Stacked, OverridesScoped
  <2>7. TypeOK'
    BY <1>1, <1>3, <1>6, <2>1 DEF Robust, TypeOK, control, Delays
  <2>. QED BY <2>1, <2>6, <2>7 DEF Robust, SliceLeft, HeldBeforeStep
<1>. QED BY <1>4, <1>5, <1>6

\* A wait that is over, and one that sleeps on.
LEMMA WaitDoneRobust ==
    ASSUME Robust, place = "waiting", WaitDone
    PROVE  Robust'
<1>1. /\ running # Null /\ frames # << >> /\ Stacked /\ OverridesScoped
      /\ robot \in MappingContext /\ paused \in BOOLEAN /\ left \in Nat
      /\ frames \in Seq(Frames) /\ Scoped(frames, overrides)
  BY Executing
<1>2. Advanced \in Seq(Frames) /\ Advanced # << >> /\ Scoped(Advanced, overrides)
  BY <1>1, AdvancedTyped
<1>3. /\ frames' = Advanced /\ place' = "checkpoint" /\ left' = 0
      /\ UNCHANGED << robot, dataset, control, overrides, outcome >>
  BY DEF WaitDone, AfterStep
<1>. QED BY <1>1, <1>2, <1>3, GoesOnRobust DEF control

\* A delay begins: nothing else changes.
LEMMA SleepRobust ==
    ASSUME Robust, place = "waiting", NEW delay \in {"heldDelay", "slice"}, left > 0,
           Sleep(delay)
    PROVE  Robust'
<1>1. place' = delay /\ UNCHANGED << robot, dataset, control, frames, left, overrides, outcome >>
  BY DEF Sleep
<1>2. TypeOK'
  BY <1>1 DEF Robust, TypeOK, control, Delays
<1>3. Stacked' /\ OverridesScoped'
  BY <1>1 DEF Robust, Stacked, OverridesScoped
<1>. QED BY <1>1, <1>2, <1>3 DEF Robust, SliceLeft, HeldBeforeStep

\* A wait is over, held, or goes on by a slice.
LEMMA WaitRobust ==
    ASSUME Robust, WaitSlice \/ WaitPoll
    PROVE  Robust'
<1>1. place = "waiting"
  BY DEF WaitSlice, WaitPoll
<1>2. \/ WaitDone
      \/ Throw("stopped") \/ Throw("timeout")
      \/ left > 0 /\ (Sleep("heldDelay") \/ Sleep("slice"))
  BY DEF WaitSlice, WaitPoll
<1>3. CASE WaitDone
  BY <1>1, <1>3, WaitDoneRobust
<1>4. CASE Throw("stopped") \/ Throw("timeout")
  BY <1>4, ThrowRobust DEF Outcomes
<1>5. CASE left > 0 /\ (Sleep("heldDelay") \/ Sleep("slice"))
  BY <1>1, <1>5, SleepRobust
<1>. QED BY <1>2, <1>3, <1>4, <1>5

\* A delay ends where it began.
LEMMA WakeRobust ==
    ASSUME Robust, Wake
    PROVE  Robust'
<1>1. /\ place \in Delays
      /\ place' = IF place = "checkpointDelay" THEN "checkpoint" ELSE "waiting"
      /\ left' = IF place = "slice" THEN left - 1 ELSE left
      /\ UNCHANGED << robot, dataset, control, frames, overrides, outcome >>
  BY DEF Wake
<1>2. /\ running # Null /\ frames # << >> /\ Stacked /\ OverridesScoped
      /\ robot \in MappingContext /\ paused \in BOOLEAN /\ left \in Nat
      /\ frames \in Seq(Frames) /\ Scoped(frames, overrides)
  BY <1>1, Executing DEF Delays
<1>3. left' \in Nat
  BY <1>1, <1>2 DEF Robust, SliceLeft
<1>. QED BY <1>1, <1>2, <1>3, GoesOnRobust DEF control

\* What an operator or the app does leaves the chain of awaits where it is.
LEMMA AsideRobust ==
    ASSUME Robust, Yielded, UNCHANGED << running, chain >>,
           robot' \in MappingContext, dataset' \in Datasets,
           paused' \in BOOLEAN, abortRequested' \in BOOLEAN
    PROVE  Robust'
<1>1. TypeOK'
  BY DEF Robust, TypeOK, chain
<1>2. Stacked' /\ OverridesScoped' /\ SliceLeft'
  BY DEF Robust, Stacked, OverridesScoped, SliceLeft, chain
<1>3. HeldBeforeStep'
  BY DEF Yielded, Delays, HeldBeforeStep, chain
<1>. QED BY <1>1, <1>2, <1>3 DEF Robust

\* A run starts with the fixtures of its script, or not at all.
LEMMA RunRobust ==
    ASSUME Robust, NEW name \in DOMAIN Scripts, Run(name)
    PROVE  Robust'
<1>1. running = Null
  BY DEF Run
<1>2. CASE enterable(name)
  <2>1. /\ Enter(name) /\ running' = name /\ abortRequested' = FALSE /\ paused' = FALSE
        /\ UNCHANGED << left, outcome >>
    BY <1>2 DEF Run
  <2>2. /\ frames' \in Seq(Frames) /\ frames' # << >>
        /\ overrides' \in Seq(Fixtures) /\ Scoped(frames', overrides')
        /\ dataset' \in Datasets /\ robot' \in MappingContext /\ place' = "checkpoint"
    BY <1>2, <2>1, EnterTyped
  <2>3. TypeOK'
    BY <2>1, <2>2, ScriptsTyped DEF Robust, TypeOK, Delays
  <2>. QED BY <2>2, <2>3 DEF Robust, Stacked, OverridesScoped, SliceLeft, HeldBeforeStep
<1>3. CASE ~enterable(name)
  BY <1>3, ThrowRobust DEF Run, Outcomes
<1>. QED BY <1>2, <1>3

\* What an operator does: pause, resume, stop, change the robot.
LEMMA OperatorRobust ==
    ASSUME Robust, Operator
    PROVE  Robust'
<1>1. /\ robot \in MappingContext /\ dataset \in Datasets
      /\ paused \in BOOLEAN /\ abortRequested \in BOOLEAN
  BY DEF Robust, TypeOK
<1>2. simulatorInitialContext \in MappingContext
  BY InitialGood DEF Good
<1>3. CASE Pause
  BY <1>1, <1>3, AsideRobust DEF Pause
<1>4. CASE Resume
  BY <1>1, <1>4, AsideRobust DEF Resume
<1>5. CASE Stop
  BY <1>1, <1>2, <1>5, AsideRobust DEF Stop
<1>6. CASE Reset
  BY <1>1, <1>2, <1>6, AsideRobust DEF Reset, control
<1>7. CASE \E name \in DOMAIN Scripts : Run(name)
  BY <1>7, RunRobust
<1>8. ASSUME NEW event \in AppEvents, AppSends(event)
      PROVE  Robust'
  <2>1. event \in MappingEvent /\ Dispatch(event)
    BY <1>8, ScriptsTyped DEF AppSends
  <2>2. robot' \in MappingContext /\ paused' \in BOOLEAN
    BY <2>1, DispatchTyped
  <2>. QED BY <1>1, <1>8, <2>2, AsideRobust DEF AppSends
<1>9. ASSUME NEW name \in Datasets, SwitchDataset(name)
      PROVE  Robust'
  BY <1>1, <1>9, AsideRobust DEF SwitchDataset, control
<1>. QED BY <1>3, <1>4, <1>5, <1>6, <1>7, <1>8, <1>9 DEF Operator

-----------------------------------------------------------------------------

\* The invariant holds of every run of every set of scripts.
THEOREM EngineRobust == Spec => []Robust
<1>1. Init => Robust
  <2>. SUFFICES ASSUME Init PROVE Robust
    OBVIOUS
  <2>1. simulatorInitialContext \in MappingContext
    BY InitialGood DEF Good
  <2>2. frames = << >> /\ overrides = << >> /\ place = "idle"
    BY DEF Init
  <2>3. TypeOK
    BY <2>1 DEF Init, TypeOK
  <2>4. Stacked /\ OverridesScoped
    BY <2>2, EmptySeq, NothingScoped DEF Stacked, OverridesScoped
  <2>. QED BY <2>2, <2>3, <2>4 DEF Robust, SliceLeft, HeldBeforeStep
<1>2. Robust /\ [Next]_vars => Robust'
  <2>. SUFFICES ASSUME Robust, [Next]_vars PROVE Robust'
    OBVIOUS
  <2>1. CASE Engine
    BY <2>1, CheckpointRobust, StepRobust, FrameEndRobust, WaitRobust, WakeRobust DEF Engine
  <2>2. CASE Operator
    BY <2>2, OperatorRobust
  <2>3. CASE UNCHANGED vars
    BY <2>3 DEF vars, control, Robust, TypeOK, Stacked, SliceLeft, HeldBeforeStep, OverridesScoped
  <2>. QED BY <2>1, <2>2, <2>3 DEF Next
<1>. QED BY <1>1, <1>2, PTL DEF Spec

\* The state has its type; in particular something is executed, and the chain of awaits
\* stands somewhere, exactly while a script runs.
THEOREM EngineTyped == Spec => []TypeOK
<1>1. Robust => TypeOK
  BY DEF Robust
<1>. QED BY <1>1, EngineRobust, PTL

\* No step of a script begins while it is paused or told to stop, wherever the request
\* came: between the checkpoint and the step no request gets in.
THEOREM EngineHeldBeforeStep == Spec => []HeldBeforeStep
<1>1. Robust => HeldBeforeStep
  BY DEF Robust
<1>. QED BY <1>1, EngineRobust, PTL

\* The fixtures in force are those of the scripts being executed, innermost first, however
\* deep they include each other and however the run ends.
THEOREM EngineOverridesScoped == Spec => []OverridesScoped
<1>1. Robust => OverridesScoped
  BY DEF Robust
<1>. QED BY <1>1, EngineRobust, PTL
=============================================================================
