----------------------------- MODULE FadeProofs -----------------------------
(* What the controls promise whose elements fade while more calls come: the  *)
(* modal and the tooltip. All handlers of an element run at one event, so a  *)
(* step is a run of handlers, one after the other, and what is proved of one *)
(* handler is carried through the run from its first to its last.            *)
EXTENDS Modal, Tooltip, SlideProofs, FiniteSetTheorems

-----------------------------------------------------------------------------
(* The modal                                                                *)

\* The states that n handlers lead through exist: RunAll is well defined.
LEMMA RanExists ==
  ASSUME NEW st, NEW dos, NEW n \in Nat
  PROVE  \E ran : ran = [k \in 0 .. n |-> IF k = 0 THEN st ELSE Run(ran[k - 1], dos[k])]
<1> DEFINE IsRan(ran, m) == ran = [k \in 0 .. m |-> IF k = 0 THEN st ELSE Run(ran[k - 1], dos[k])]
           T == {m \in Nat : ~\E ran : IsRan(ran, m)}
<1>1. SUFFICES ASSUME T # {} PROVE FALSE
  OBVIOUS
<1>2. PICK m \in T : \A l \in T : m <= l
  <2> HIDE DEF IsRan
  <2> QED  BY <1>1, FirstExists
<1>3. CASE m = 0
  <2> DEFINE ran == [k \in 0 .. 0 |-> st]
  <2>1. ran = [k \in 0 .. 0 |-> IF k = 0 THEN st ELSE Run(ran[k - 1], dos[k])]
    OBVIOUS
  <2>2. IsRan(ran, m)
    BY <1>3, <2>1
  <2> QED  BY <2>2
<1>4. CASE m # 0
  <2>1. m - 1 \in Nat /\ m - 1 \notin T
    <3>1. m \in Nat
      OBVIOUS
    <3> HIDE DEF T
    <3> QED  BY <1>2, <1>4, <3>1
  <2>2. PICK g : IsRan(g, m - 1)
    BY <2>1
  <2> DEFINE ran == [k \in 0 .. m |-> IF k = m THEN Run(g[m - 1], dos[m]) ELSE g[k]]
  <2>3. g = [k \in 0 .. m - 1 |-> IF k = 0 THEN st ELSE Run(g[k - 1], dos[k])]
    BY <2>2
  <2>4. \A k \in 0 .. m : ran[k] = IF k = 0 THEN st ELSE Run(ran[k - 1], dos[k])
    <3> TAKE k \in 0 .. m
    <3>1. CASE k = m
      BY <1>4, <2>1, <3>1
    <3>2. CASE k # m /\ k = 0
      BY <1>4, <2>1, <2>3, <3>2
    <3>3. CASE k # m /\ k # 0
      <4>1. k \in 0 .. m - 1 /\ k - 1 \in 0 .. m - 1 /\ k - 1 # m
        BY <3>3
      <4>2. ran[k] = g[k] /\ ran[k - 1] = g[k - 1]
        BY <3>3, <4>1
      <4>3. g[k] = Run(g[k - 1], dos[k])
        BY <2>3, <3>3, <4>1
      <4> QED  BY <3>3, <4>2, <4>3
    <3> QED  BY <3>1, <3>2, <3>3
  <2>5. IsRan(ran, m)
    <3>1. ran = [k \in 0 .. m |-> ran[k]]
      OBVIOUS
    <3> HIDE DEF ran
    <3> QED  BY <2>4, <3>1
  <2> QED  BY <2>5
<1> QED  BY <1>3, <1>4

\* RunAll starts with st, and each handler runs on what the one before left.
LEMMA RunAllSteps ==
  ASSUME NEW st, NEW dos, Len(dos) \in Nat
  PROVE  \E ran : /\ ran[0] = st /\ RunAll(st, dos) = ran[Len(dos)]
                  /\ \A k \in 1 .. Len(dos) : ran[k] = Run(ran[k - 1], dos[k])
<1> DEFINE f == CHOOSE ran : ran = [k \in 0 .. Len(dos) |-> IF k = 0 THEN st ELSE Run(ran[k - 1], dos[k])]
<1>1. f = [k \in 0 .. Len(dos) |-> IF k = 0 THEN st ELSE Run(f[k - 1], dos[k])]
  BY RanExists
<1>2. RunAll(st, dos) = f[Len(dos)]
  BY DEF RunAll
<1> HIDE DEF f
<1>3. f[0] = st
  BY <1>1
<1>4. \A k \in 1 .. Len(dos) : f[k] = Run(f[k - 1], dos[k])
  BY <1>1
<1> QED  BY <1>2, <1>3, <1>4

-----------------------------------------------------------------------------
(* The types                                                               *)

Dos == {"show", "hide", "remove", "restore"}

States == [visible : BOOLEAN, faded : BOOLEAN, inBody : SUBSET Backdrops,
           backdrop : Elements, bodyOpen : BOOLEAN, pad : 0 .. MaxBackdrops,
           trap : BOOLEAN, waits : [Elements -> Seq(Dos)],
           ahead : [Elements -> SUBSET Backdrops]]

LEMMA StateTyped == ModalTypeOK => State \in States
BY DEF ModalTypeOK, State, States, Dos

LEMMA BecomesTyped ==
  ASSUME NEW st \in States, Becomes(st), originalPad' \in 0 .. MaxBackdrops,
         {transition', isShown', reshown', rushed'} \subseteq BOOLEAN
  PROVE  ModalTypeOK'
BY DEF Becomes, ModalTypeOK, States, Dos

\* How many backdrops are free.
LEMMA FreeFinite ==
  ASSUME NEW st \in States
  PROVE  IsFiniteSet(Free(st)) /\ Cardinality(Free(st)) \in Nat
<1>1. IsFiniteSet(Backdrops)
  BY ModalAssumption, FS_Interval DEF Backdrops
<1> QED  BY <1>1, FS_Subset, FS_CardinalityType DEF Free

LEMMA AppearTyped ==
  ASSUME NEW st \in States
  PROVE  Appear(st) \in States /\ Free(Appear(st)) = Free(st)
BY DEF Appear, States, Free

LEMMA RestoreTyped ==
  ASSUME ModalTypeOK, NEW st \in States
  PROVE  Restore(st) \in States /\ Free(Restore(st)) = Free(st)
BY DEF Restore, States, Free, ModalTypeOK

LEMMA WaitTyped ==
  ASSUME NEW st \in States, NEW e \in Elements, NEW do \in Dos
  PROVE  Wait(st, e, do) \in States /\ Free(Wait(st, e, do)) = Free(st)
<1>1. st.waits \in [Elements -> Seq(Dos)] /\ st.ahead \in [Elements -> SUBSET Backdrops]
  BY DEF States
<1>2. Append(st.waits[e], do) \in Seq(Dos)
  BY <1>1
<1>3. [st.waits EXCEPT ![e] = Append(@, do)] \in [Elements -> Seq(Dos)]
  BY <1>1, <1>2
<1>4. PICK A \in SUBSET Backdrops :
        Wait(st, e, do) = [st EXCEPT !.waits = [st.waits EXCEPT ![e] = Append(@, do)],
                                     !.ahead = [st.ahead EXCEPT ![e] = A]]
  <2>1. st.ahead[e] \in SUBSET Backdrops
    BY <1>1
  <2>2. CASE st.waits[e] # <<>>
    BY <2>1, <2>2 DEF Wait
  <2>3. CASE st.waits[e] = <<>>
    BY <2>3 DEF Wait
  <2> QED  BY <2>2, <2>3
<1>5. [st.ahead EXCEPT ![e] = A] \in [Elements -> SUBSET Backdrops]
  BY <1>1
<1> QED  BY <1>3, <1>4, <1>5 DEF States, Free

LEMMA EndedTyped ==
  ASSUME NEW st \in States, NEW e \in Elements
  PROVE  Ended(st, e) \in States /\ Free(Ended(st, e)) = Free(st)
<1>1. st.waits \in [Elements -> Seq(Dos)] /\ st.ahead \in [Elements -> SUBSET Backdrops]
  BY DEF States
<1>2. [st.waits EXCEPT ![e] = <<>>] \in [Elements -> Seq(Dos)]
  BY <1>1
<1>3. [x \in Elements |-> IF x = e THEN {} ELSE st.ahead[x] \ {e}] \in [Elements -> SUBSET Backdrops]
  BY <1>1
<1> QED  BY <1>2, <1>3 DEF Ended, States, Free

\* A backdrop that is made takes one of the free ones.
LEMMA AddBackdropIs ==
  ASSUME NEW st \in States, Cardinality(Free(st)) >= 1
  PROVE  \E b \in Free(st) : AddBackdrop(st) = [st EXCEPT !.inBody = @ \cup {b}, !.backdrop = b]
<1>1. Free(st) # {}
  BY FS_EmptySet
<1>2. Free(st) \in SUBSET Nat
  BY ModalAssumption DEF Free, Backdrops
<1>3. \E b \in Free(st) : \A c \in Free(st) : b <= c
  BY <1>1, <1>2, FirstExists
<1> DEFINE b == CHOOSE b \in Free(st) : \A c \in Free(st) : b <= c
<1>4. b \in Free(st)
  BY <1>3
<1> QED  BY <1>4 DEF AddBackdrop

LEMMA AddBackdropTyped ==
  ASSUME NEW st \in States, Cardinality(Free(st)) >= 1
  PROVE  /\ AddBackdrop(st) \in States /\ AddBackdrop(st).backdrop \in Elements
         /\ Cardinality(Free(AddBackdrop(st))) = Cardinality(Free(st)) - 1
<1>1. PICK b \in Free(st) : AddBackdrop(st) = [st EXCEPT !.inBody = @ \cup {b}, !.backdrop = b]
  BY AddBackdropIs
<1>2. b \in Backdrops /\ b \in Elements
  BY DEF Free, Elements
<1>3. AddBackdrop(st) \in States
  <2> DEFINE body == st.inBody \cup {b}
  <2>1. body \in SUBSET Backdrops
    BY <1>2 DEF States
  <2>2. AddBackdrop(st) = [st EXCEPT !.inBody = body, !.backdrop = b]
    BY <1>1
  <2> HIDE DEF body
  <2> QED  BY <1>2, <2>1, <2>2 DEF States
<1>4. Free(AddBackdrop(st)) = Free(st) \ {b}
  BY <1>1 DEF Free, States
<1>5. Cardinality(Free(st) \ {b}) = Cardinality(Free(st)) - 1
  BY FreeFinite, FS_RemoveElement
<1> QED  BY <1>3, <1>4, <1>5 DEF States

LEMMA RemoveBackdropTyped ==
  ASSUME NEW st \in States
  PROVE  /\ RemoveBackdrop(st) \in States
         /\ Cardinality(Free(RemoveBackdrop(st))) >= Cardinality(Free(st))
<1>1. CASE st.backdrop = 0
  BY <1>1, FreeFinite DEF RemoveBackdrop
<1>2. CASE st.backdrop # 0
  <2> DEFINE en == Ended(st, st.backdrop)
  <2>1. st.backdrop \in Elements /\ 0 \in Elements
    BY DEF States, Elements, Modal
  <2>2. en \in States /\ Free(en) = Free(st)
    BY <2>1, EndedTyped
  <2>3. RemoveBackdrop(st) = [en EXCEPT !.inBody = @ \ {st.backdrop}, !.backdrop = 0]
    BY <1>2 DEF RemoveBackdrop
  <2> HIDE DEF en
  <2>4. RemoveBackdrop(st) \in States
    BY <2>1, <2>2, <2>3 DEF States
  <2>5. Free(en) \subseteq Free(RemoveBackdrop(st))
    BY <2>2, <2>3 DEF States, Free
  <2>6. Cardinality(Free(en)) <= Cardinality(Free(RemoveBackdrop(st)))
    BY <2>4, <2>5, FreeFinite, FS_Subset
  <2>7. Cardinality(Free(en)) \in Nat /\ Cardinality(Free(RemoveBackdrop(st))) \in Nat
    BY <2>2, <2>4, FreeFinite
  <2> QED  BY <2>2, <2>4, <2>6, <2>7
<1> QED  BY <1>1, <1>2

\* What hideModal() leaves has its type, and it takes one free backdrop at most.
LEMMA HideModalTyped ==
  ASSUME ModalTypeOK, NEW st \in States, NEW shown \in BOOLEAN,
         shown => Cardinality(Free(st)) >= 1
  PROVE  /\ HideModal(st, shown) \in States
         /\ Cardinality(Free(HideModal(st, shown))) >= Cardinality(Free(st)) - 1
<1> DEFINE hidden == [st EXCEPT !.visible = FALSE]
<1>1. hidden \in States /\ Free(hidden) = Free(st) /\ hidden.backdrop = st.backdrop
  BY DEF States, Free
<1>2. Cardinality(Free(st)) \in Nat
  BY FreeFinite
<1>3. CASE shown
  <2> DEFINE added == AddBackdrop(hidden)
  <2>1. /\ added \in States /\ added.backdrop \in Elements
        /\ Cardinality(Free(added)) = Cardinality(Free(st)) - 1
    BY <1>1, <1>3, AddBackdropTyped
  <2>2. HideModal(st, shown) = IF transition THEN Wait(added, added.backdrop, "restore") ELSE Restore(added)
    BY <1>3 DEF HideModal
  <2> HIDE DEF added
  <2>3. "restore" \in Dos
    BY DEF Dos
  <2> QED  BY <1>2, <2>1, <2>2, <2>3, WaitTyped, RestoreTyped
<1>4. CASE ~shown /\ st.backdrop = 0
  <2>1. HideModal(st, shown) = Restore(hidden)
    BY <1>4 DEF HideModal
  <2> HIDE DEF hidden
  <2> QED  BY <1>1, <1>2, <2>1, RestoreTyped
<1>5. CASE ~shown /\ st.backdrop # 0
  <2>1. HideModal(st, shown) = IF transition THEN Wait(hidden, st.backdrop, "remove")
                               ELSE Restore(RemoveBackdrop(hidden))
    BY <1>5 DEF HideModal
  <2>2. "remove" \in Dos /\ st.backdrop \in Elements
    BY DEF Dos, States
  <2> HIDE DEF hidden
  <2>3. CASE transition
    BY <1>1, <1>2, <2>1, <2>2, <2>3, WaitTyped
  <2>4. CASE ~transition
    <3>1. /\ RemoveBackdrop(hidden) \in States
          /\ Cardinality(Free(RemoveBackdrop(hidden))) >= Cardinality(Free(hidden))
      BY <1>1, RemoveBackdropTyped
    <3>2. Cardinality(Free(RemoveBackdrop(hidden))) \in Nat
      BY <3>1, FreeFinite
    <3> QED  BY <1>1, <1>2, <2>1, <2>4, <3>1, <3>2, RestoreTyped
  <2> QED  BY <2>3, <2>4
<1> QED  BY <1>3, <1>4, <1>5

LEMMA RunTyped ==
  ASSUME ModalTypeOK, NEW st \in States, NEW do \in Dos, Cardinality(Free(st)) >= 1
  PROVE  /\ Run(st, do) \in States
         /\ Cardinality(Free(Run(st, do))) >= Cardinality(Free(st)) - 1
<1>0. Cardinality(Free(st)) \in Nat /\ isShown \in BOOLEAN
  BY FreeFinite DEF ModalTypeOK
<1>1. CASE do = "show"
  BY <1>0, <1>1, AppearTyped DEF Run
<1>2. CASE do = "hide"
  BY <1>0, <1>2, HideModalTyped DEF Run
<1>3. CASE do = "remove"
  <2>1. Run(st, do) = Restore(RemoveBackdrop(st))
    BY <1>3 DEF Run
  <2>2. /\ RemoveBackdrop(st) \in States
        /\ Cardinality(Free(RemoveBackdrop(st))) >= Cardinality(Free(st))
        /\ Cardinality(Free(RemoveBackdrop(st))) \in Nat
    BY RemoveBackdropTyped, FreeFinite
  <2> QED  BY <1>0, <2>1, <2>2, RestoreTyped
<1>4. CASE do = "restore"
  BY <1>0, <1>4, RestoreTyped DEF Run
<1> QED  BY <1>1, <1>2, <1>3, <1>4 DEF Dos

\* All handlers of an event: each takes one free backdrop at most, so there
\* are enough for all of them if there are as many as handlers.
LEMMA RunAllTyped ==
  ASSUME ModalTypeOK, NEW st \in States, NEW dos \in Seq(Dos),
         Cardinality(Free(st)) >= Len(dos)
  PROVE  RunAll(st, dos) \in States
<1>1. Len(dos) \in Nat /\ \A k \in 1 .. Len(dos) : dos[k] \in Dos
  OBVIOUS
<1>2. PICK ran : /\ ran[0] = st /\ RunAll(st, dos) = ran[Len(dos)]
                 /\ \A k \in 1 .. Len(dos) : ran[k] = Run(ran[k - 1], dos[k])
  BY <1>1, RunAllSteps
<1> DEFINE Good(k) == ran[k] \in States /\ Cardinality(Free(ran[k])) >= Len(dos) - k
           Bad == {k \in Nat : k <= Len(dos) /\ ~Good(k)}
<1>3. Good(0)
  BY <1>1, <1>2
<1>4. ASSUME NEW k \in Nat, k < Len(dos), Good(k) PROVE Good(k + 1)
  <2>1. ran[k] \in States /\ Cardinality(Free(ran[k])) >= Len(dos) - k
    BY <1>4
  <2>2. ran[k + 1] = Run(ran[k], dos[k + 1]) /\ dos[k + 1] \in Dos
    <3>1. k + 1 \in 1 .. Len(dos) /\ (k + 1) - 1 = k
      BY <1>1, <1>4
    <3>2. ran[k + 1] = Run(ran[(k + 1) - 1], dos[k + 1])
      BY <1>2, <3>1
    <3> QED  BY <1>1, <3>1, <3>2
  <2>3. Cardinality(Free(ran[k])) \in Nat
    BY <2>1, FreeFinite
  <2>4. Cardinality(Free(ran[k])) >= 1
    BY <1>1, <1>4, <2>1, <2>3
  <2>5. /\ Run(ran[k], dos[k + 1]) \in States
        /\ Cardinality(Free(Run(ran[k], dos[k + 1]))) >= Cardinality(Free(ran[k])) - 1
    BY <2>1, <2>2, <2>4, RunTyped
  <2>6. ran[k + 1] \in States /\ Cardinality(Free(ran[k + 1])) >= Cardinality(Free(ran[k])) - 1
    BY <2>2, <2>5
  <2>7. Cardinality(Free(ran[k + 1])) \in Nat
    BY <2>6, FreeFinite
  <2> QED  BY <1>1, <2>1, <2>3, <2>6, <2>7
<1> HIDE DEF Good
<1>5. Bad = {}
  <2> SUFFICES ASSUME Bad # {} PROVE FALSE
    OBVIOUS
  <2>1. PICK k \in Bad : \A l \in Bad : k <= l
    BY FirstExists
  <2>2. k # 0 /\ k \in Nat /\ k <= Len(dos) /\ ~Good(k)
    BY <1>3, <2>1
  <2>3. k - 1 \in Nat /\ k - 1 < Len(dos) /\ k - 1 \notin Bad
    <3>1. k - 1 \in Nat /\ k - 1 < Len(dos) /\ ~(k <= k - 1)
      BY <1>1, <2>2
    <3> QED  BY <2>1, <3>1
  <2>4. Good(k - 1)
    BY <2>3, <1>1
  <2>5. Good((k - 1) + 1)
    BY <1>4, <2>3, <2>4
  <2>6. (k - 1) + 1 = k
    BY <2>2
  <2> QED  BY <2>2, <2>5, <2>6
<1>6. Good(Len(dos))
  BY <1>1, <1>5
<1> QED  BY <1>2, <1>6 DEF Good

-----------------------------------------------------------------------------
(* The steps keep the types.                                               *)

LEMMA ShowTyped ==
  ASSUME ModalTypeOK, Show
  PROVE  ModalTypeOK'
<1> DEFINE begun == [State EXCEPT !.bodyOpen = TRUE, !.pad = IF bodyOpen THEN @ ELSE @ + 1]
           added == AddBackdrop(begun)
           st    == IF transition THEN Wait(added, added.backdrop, "show") ELSE Appear(added)
<1>0. State \in States /\ pad < MaxBackdrops /\ Free(State) # {} /\ Becomes(st)
  BY StateTyped DEF Show
<1>1. begun \in States /\ Free(begun) = Free(State)
  <2> DEFINE more == IF bodyOpen THEN State.pad ELSE State.pad + 1
  <2>1. more \in 0 .. MaxBackdrops
    BY <1>0, ModalAssumption DEF ModalTypeOK, State
  <2>2. begun = [State EXCEPT !.bodyOpen = TRUE, !.pad = more]
    OBVIOUS
  <2> HIDE DEF more
  <2> QED  BY <1>0, <2>1, <2>2 DEF States, Free
<1>2. Cardinality(Free(begun)) >= 1
  BY <1>0, <1>1, FreeFinite, FS_EmptySet
<1> HIDE DEF begun
<1>3. added \in States /\ added.backdrop \in Elements
  BY <1>1, <1>2, AddBackdropTyped
<1> HIDE DEF added
<1>4. st \in States
  BY <1>3, WaitTyped, AppearTyped DEF Dos
<1> HIDE DEF st
<1>5. /\ originalPad' = pad /\ isShown' = TRUE /\ transition' = transition /\ rushed' = rushed
      /\ reshown' = (reshown \/ ~Idle)
  BY DEF Show
<1> QED  BY <1>0, <1>4, <1>5, BecomesTyped DEF ModalTypeOK

LEMMA HideTyped ==
  ASSUME ModalTypeOK, Hide
  PROVE  ModalTypeOK'
<1> DEFINE out == [State EXCEPT !.faded = FALSE, !.trap = FALSE]
           st  == IF transition THEN Wait(out, Modal, "hide") ELSE HideModal(out, FALSE)
<1>1. out \in States
  BY StateTyped DEF States
<1>2. Becomes(st) /\ Modal \in Elements
  BY DEF Hide, Elements
<1> HIDE DEF out
<1>3. st \in States
  BY <1>1, <1>2, WaitTyped, HideModalTyped DEF Dos
<1> HIDE DEF st
<1>4. /\ originalPad' = originalPad /\ isShown' = FALSE /\ transition' = transition /\ reshown' = reshown
      /\ rushed' = (rushed \/ ~Idle)
  BY DEF Hide
<1> QED  BY <1>2, <1>3, <1>4, BecomesTyped DEF ModalTypeOK

LEMMA EndOfFadeTyped ==
  ASSUME ModalTypeOK, NEW e \in Elements, EndOfFade(e)
  PROVE  ModalTypeOK'
<1>1. Ended(State, e) \in States /\ Free(Ended(State, e)) = Free(State)
  BY StateTyped, EndedTyped
<1>2. waits[e] \in Seq(Dos)
  BY DEF ModalTypeOK, Dos
<1>3. Becomes(RunAll(Ended(State, e), waits[e])) /\ Cardinality(Free(State)) >= Len(waits[e])
      /\ UNCHANGED <<transition, isShown, originalPad, reshown, rushed>>
  BY DEF EndOfFade
<1>4. RunAll(Ended(State, e), waits[e]) \in States
  BY <1>1, <1>2, <1>3, RunAllTyped
<1> QED  BY <1>3, <1>4, BecomesTyped DEF ModalTypeOK

-----------------------------------------------------------------------------
(* A modal that is not shown again while it goes                           *)

\* What is left to happen: without transitions nothing waits.
Only(e, dos) == transition /\ waits = [x \in Elements |-> IF x = e THEN dos ELSE <<>>]

\* The page is under the backdrop.
Dimmed == backdrop # 0 /\ inBody = {backdrop} /\ bodyOpen /\ pad = 1

Gone   == ~isShown /\ Idle /\ Closed /\ backdrop = 0 /\ (trap => rushed)
Coming == isShown /\ Dimmed /\ Only(backdrop, <<"show">>)
There  == isShown /\ Idle /\ Opened /\ backdrop # 0
Going  == ~isShown /\ Dimmed /\ Only(Modal, <<"hide">>) /\ (trap => rushed)
Fading == ~isShown /\ Dimmed /\ ~visible /\ Only(backdrop, <<"remove">>) /\ (trap => rushed)

\* hide() came before show() was over: the backdrop's transition is ahead.
Overtaken ==
  /\ transition /\ ~isShown /\ Dimmed /\ rushed /\ ahead[Modal] = {backdrop}
  /\ waits = [x \in Elements |-> IF x = backdrop THEN <<"show">>
                                 ELSE IF x = Modal THEN <<"hide">> ELSE <<>>]

\* The invariant: the phases a modal goes through, as long as it is not shown
\* again while it goes. ModalWhole speaks of the two phases at rest; what waits
\* in the others, and on which element, is what makes them lead there.
ModalInv ==
  /\ ModalTypeOK
  /\ ~reshown => originalPad = 0 /\ (Gone \/ Coming \/ There \/ Going \/ Fading \/ Overtaken)

LEMMA RunOne ==
  ASSUME NEW st, NEW do
  PROVE  RunAll(st, <<do>>) = Run(st, do)
<1>1. Len(<<do>>) = 1 /\ <<do>>[1] = do
  OBVIOUS
<1>2. PICK ran : /\ ran[0] = st /\ RunAll(st, <<do>>) = ran[1]
                 /\ \A k \in 1 .. 1 : ran[k] = Run(ran[k - 1], <<do>>[k])
  BY <1>1, RunAllSteps
<1> QED  BY <1>1, <1>2

\* While a phase waits for something, something waits.
LEMMA BusyPhases == ModalTypeOK /\ (Coming \/ Going \/ Fading \/ Overtaken) => ~Idle
<1> SUFFICES ASSUME ModalTypeOK, Coming \/ Going \/ Fading \/ Overtaken PROVE ~Idle
  OBVIOUS
<1>1. backdrop \in Elements /\ Modal \in Elements
  BY DEF ModalTypeOK, Elements
<1>2. waits[backdrop] \in {<<"show">>, <<"remove">>} \/ waits[Modal] = <<"hide">>
  BY <1>1 DEF Coming, Going, Fading, Overtaken, Only
<1> QED  BY <1>1, <1>2 DEF Idle

LEMMA ShowSteps ==
  ASSUME ModalInv, Show, ~reshown'
  PROVE  originalPad' = 0 /\ (Coming' \/ There')
<1>1. ~reshown /\ Idle
  BY DEF Show, ModalInv, ModalTypeOK
<1>2. Gone
  BY <1>1, BusyPhases DEF Show, ModalInv, There, Coming
<1>3. State \in States /\ Free(State) # {} /\ Cardinality(Free(State)) \in Nat
  BY StateTyped, FreeFinite DEF Show, ModalInv
<1> DEFINE begun == [State EXCEPT !.bodyOpen = TRUE, !.pad = 1]
<1>4. begun \in States /\ Free(begun) = Free(State)
  <2>1. 1 \in 0 .. MaxBackdrops
    BY ModalAssumption
  <2> QED  BY <1>3, <2>1 DEF States, Free
<1>5. Becomes(IF transition THEN Wait(AddBackdrop(begun), AddBackdrop(begun).backdrop, "show")
              ELSE Appear(AddBackdrop(begun)))
  <2>1. ~bodyOpen /\ pad = 0
    BY <1>2 DEF Gone, Closed
  <2>2. [State EXCEPT !.bodyOpen = TRUE, !.pad = IF bodyOpen THEN @ ELSE @ + 1] = begun
    BY <2>1 DEF State
  <2> QED  BY <2>2 DEF Show
<1>6. PICK b \in Free(State) : AddBackdrop(begun) = [begun EXCEPT !.inBody = @ \cup {b}, !.backdrop = b]
  <2>1. Cardinality(Free(begun)) >= 1
    BY <1>3, <1>4, FS_EmptySet, FreeFinite
  <2> HIDE DEF begun
  <2> QED  BY <1>4, <2>1, AddBackdropIs
<1>7. b \in Backdrops /\ b \in Elements /\ b # 0
  BY DEF Free, Backdrops, Elements
<1> DEFINE added == [visible |-> visible, faded |-> faded, inBody |-> {b}, backdrop |-> b,
                     bodyOpen |-> TRUE, pad |-> 1, trap |-> trap, waits |-> waits, ahead |-> ahead]
<1>8. AddBackdrop(begun) = added
  <2>1. inBody = {}
    BY <1>2 DEF Gone, Closed
  <2> QED  BY <1>6, <2>1 DEF State
<1>9. isShown' = TRUE /\ originalPad' = 0 /\ transition' = transition
  BY <1>2 DEF Show, Gone, Closed
<1>10. CASE transition
  <2>1. Becomes(Wait(added, b, "show"))
    BY <1>5, <1>8, <1>10
  <2>2. backdrop' = b /\ inBody' = {b} /\ bodyOpen' = TRUE /\ pad' = 1
        /\ waits' = [waits EXCEPT ![b] = Append(@, "show")]
    BY <2>1 DEF Becomes, Wait
  <2>3. waits[b] = <<>> /\ Append(<<>>, "show") = <<"show">>
    BY <1>1, <1>7 DEF Idle
  <2>4. waits' = [x \in Elements |-> IF x = b THEN <<"show">> ELSE <<>>]
    BY <1>1, <1>7, <2>2, <2>3 DEF Idle, ModalInv, ModalTypeOK
  <2> QED  BY <1>7, <1>9, <1>10, <2>2, <2>4 DEF Coming, Dimmed, Only
<1>11. CASE ~transition
  <2>1. Becomes(Appear(added))
    BY <1>5, <1>8, <1>11
  <2>2. backdrop' = b /\ inBody' = {b} /\ bodyOpen' = TRUE /\ pad' = 1 /\ waits' = waits
        /\ visible' = TRUE /\ faded' = TRUE /\ trap' = TRUE
    BY <2>1 DEF Becomes, Appear
  <2> QED  BY <1>1, <1>7, <1>9, <2>2 DEF There, Opened, Idle
<1> QED  BY <1>9, <1>10, <1>11

\* What hideModal() and the removal of the backdrop leave when it is not shown.
LEMMA Removed ==
  ASSUME Dimmed, NEW st \in States, st.inBody = {backdrop}, st.backdrop = backdrop,
         originalPad = 0, Becomes(Restore(RemoveBackdrop(st))), ~st.visible,
         \A x \in Elements \ {backdrop} : st.waits[x] = <<>>,
         ~isShown', st.trap => rushed'
  PROVE  Gone'
<1> DEFINE en == Ended(st, backdrop)
<1>1. backdrop \in Elements
  BY DEF States
<1>2. en \in States /\ en.inBody = {backdrop} /\ en.visible = st.visible /\ en.trap = st.trap
      /\ en.waits = [st.waits EXCEPT ![backdrop] = <<>>]
  BY <1>1, EndedTyped DEF Ended, States
<1>3. RemoveBackdrop(st) = [en EXCEPT !.inBody = @ \ {backdrop}, !.backdrop = 0]
  BY DEF RemoveBackdrop, Dimmed
<1> HIDE DEF en
<1>4. /\ visible' = st.visible /\ inBody' = {} /\ backdrop' = 0 /\ bodyOpen' = FALSE /\ pad' = 0
      /\ trap' = st.trap /\ waits' = [st.waits EXCEPT ![backdrop] = <<>>]
  BY <1>2, <1>3 DEF Becomes, Restore, States
<1>5. Idle'
  BY <1>1, <1>4 DEF Idle, States
<1> QED  BY <1>4, <1>5 DEF Gone, Closed

LEMMA HideSteps ==
  ASSUME ModalInv, Hide, ~reshown'
  PROVE  originalPad' = 0 /\ (Going' \/ Overtaken' \/ Gone')
<1> DEFINE out == [State EXCEPT !.faded = FALSE, !.trap = FALSE]
<1>1. /\ originalPad = 0 /\ originalPad' = 0 /\ transition' = transition /\ isShown' = FALSE
      /\ rushed' = (rushed \/ ~Idle) /\ (Coming \/ There) /\ ModalTypeOK
  BY DEF Hide, ModalInv, Gone, Going, Fading, Overtaken
<1>2. Dimmed /\ backdrop \in Backdrops /\ backdrop \in Elements /\ Modal \in Elements /\ Modal # backdrop
  BY <1>1 DEF Coming, There, Opened, Dimmed, ModalTypeOK, Elements, Modal
<1>3. /\ out \in States /\ out.inBody = {backdrop} /\ out.backdrop = backdrop /\ out.waits = waits
      /\ out.ahead = ahead /\ out.trap = FALSE /\ out.bodyOpen = TRUE /\ out.pad = 1
  BY <1>1, <1>2, StateTyped DEF States, State, Dimmed
<1>4. Becomes(IF transition THEN Wait(out, Modal, "hide") ELSE HideModal(out, FALSE))
  BY DEF Hide
<1> HIDE DEF out
<1>5. CASE transition
  <2> DEFINE w == [waits EXCEPT ![Modal] = Append(@, "hide")]
             a == [ahead EXCEPT ![Modal] = IF waits[Modal] # <<>> THEN @
                                           ELSE {b \in Backdrops : waits[b] # <<>>}]
  <2>a. Wait(out, Modal, "hide") = [out EXCEPT !.waits = w, !.ahead = a]
    BY <1>3 DEF Wait
  <2>b. Becomes(Wait(out, Modal, "hide"))
    BY <1>4, <1>5
  <2>1. /\ backdrop' = backdrop /\ inBody' = {backdrop} /\ bodyOpen' = TRUE /\ pad' = 1 /\ trap' = FALSE
        /\ waits' = w /\ ahead' = a
    <3> HIDE DEF w, a
    <3> QED  BY <1>3, <2>a, <2>b DEF Becomes, States
  <2>2. Dimmed'
    BY <1>2, <2>1 DEF Dimmed
  <2>3. waits[Modal] = <<>>
    BY <1>1, <1>2 DEF Coming, There, Only, Idle
  <2>4. waits' = [waits EXCEPT ![Modal] = <<"hide">>]
    <3>1. Append(<<>>, "hide") = <<"hide">>
      OBVIOUS
    <3> QED  BY <2>1, <2>3, <3>1
  <2>5. CASE There
    <3>1. waits' = [x \in Elements |-> IF x = Modal THEN <<"hide">> ELSE <<>>]
      BY <1>1, <2>4, <2>5 DEF There, Idle, ModalTypeOK
    <3> QED  BY <1>1, <1>5, <2>1, <2>2, <3>1 DEF Going, Only
  <2>6. CASE Coming
    <3>1. waits = [x \in Elements |-> IF x = backdrop THEN <<"show">> ELSE <<>>]
      BY <2>6 DEF Coming, Only
    <3>2. waits' = [x \in Elements |-> IF x = backdrop THEN <<"show">>
                                       ELSE IF x = Modal THEN <<"hide">> ELSE <<>>]
      BY <1>2, <2>4, <3>1
    <3>3. {b \in Backdrops : waits[b] # <<>>} = {backdrop}
      BY <1>2, <3>1 DEF Elements
    <3>4. ahead'[Modal] = {backdrop}
      BY <1>1, <1>2, <2>1, <2>3, <3>3 DEF ModalTypeOK
    <3>5. rushed'
      <4>1. ~Idle
        BY <1>1, <2>6, BusyPhases
      <4> QED  BY <1>1, <4>1
    <3> QED  BY <1>1, <1>5, <2>1, <2>2, <3>2, <3>4, <3>5 DEF Overtaken
  <2> QED  BY <1>1, <2>5, <2>6
<1>6. CASE ~transition
  <2> DEFINE hidden == [out EXCEPT !.visible = FALSE]
  <2>1. There /\ Idle
    BY <1>1, <1>6 DEF Coming, There, Only
  <2>2. Becomes(Restore(RemoveBackdrop(hidden)))
    BY <1>2, <1>3, <1>4, <1>6 DEF HideModal, Dimmed
  <2>3. /\ hidden \in States /\ hidden.inBody = {backdrop} /\ hidden.backdrop = backdrop
        /\ hidden.waits = waits /\ ~hidden.visible /\ ~hidden.trap
    BY <1>3 DEF States
  <2>4. \A x \in Elements \ {backdrop} : hidden.waits[x] = <<>>
    BY <2>1, <2>3 DEF Idle
  <2> HIDE DEF hidden
  <2> QED  BY <1>1, <1>2, <2>2, <2>3, <2>4, Removed
<1> QED  BY <1>1, <1>5, <1>6
\* What an event leaves before its handlers run.
LEMMA EndedIs ==
  ASSUME ModalTypeOK, NEW e \in Elements, Dimmed
  PROVE  LET en == Ended(State, e) IN
         /\ en \in States /\ en.waits = [waits EXCEPT ![e] = <<>>] /\ en.inBody = {backdrop}
         /\ en.backdrop = backdrop /\ en.bodyOpen = TRUE /\ en.pad = 1 /\ en.trap = trap
         /\ en.visible = visible /\ en.faded = faded
<1>1. State \in States /\ Ended(State, e) \in States
  BY StateTyped, EndedTyped
<1> QED  BY <1>1 DEF Ended, State, Dimmed

LEMMA EndOfFadeSteps ==
  ASSUME ModalInv, NEW e \in Elements, EndOfFade(e), ~reshown'
  PROVE  originalPad' = 0 /\ (Gone' \/ There' \/ Going' \/ Fading')
<1> DEFINE en == Ended(State, e)
<1>1. /\ waits[e] # <<>> /\ ahead[e] = {} /\ Becomes(RunAll(en, waits[e]))
      /\ transition' = transition /\ isShown' = isShown /\ rushed' = rushed
      /\ originalPad = 0 /\ originalPad' = 0 /\ ModalTypeOK
      /\ (Gone \/ Coming \/ There \/ Going \/ Fading \/ Overtaken)
  BY DEF EndOfFade, ModalInv
<1>2. ~Gone /\ ~There
  BY <1>1 DEF Gone, There, Idle
<1>3. Dimmed /\ transition
  BY <1>1, <1>2 DEF Coming, Going, Fading, Overtaken, Only
<1>4. backdrop \in Elements /\ Modal \in Elements /\ Modal # backdrop /\ backdrop # 0
  BY <1>1, <1>3 DEF Dimmed, ModalTypeOK, Elements, Modal
<1>5. /\ en \in States /\ en.waits = [waits EXCEPT ![e] = <<>>] /\ en.inBody = {backdrop}
      /\ en.backdrop = backdrop /\ en.bodyOpen = TRUE /\ en.pad = 1 /\ en.trap = trap
      /\ en.visible = visible /\ en.faded = faded
  BY <1>1, <1>3, EndedIs
<1> HIDE DEF en
\* The callback of show().
<1>6. ASSUME waits[e] = <<"show">>
      PROVE  /\ visible' = TRUE /\ faded' = TRUE /\ trap' = TRUE /\ inBody' = {backdrop}
             /\ backdrop' = backdrop /\ bodyOpen' = TRUE /\ pad' = 1
             /\ waits' = [waits EXCEPT ![e] = <<>>]
  <2>1. RunAll(en, waits[e]) = Appear(en)
    BY <1>6, RunOne DEF Run
  <2> QED  BY <1>1, <1>5, <2>1 DEF Becomes, Appear, States
<1>7. CASE Coming
  <2>1. waits = [x \in Elements |-> IF x = backdrop THEN <<"show">> ELSE <<>>]
    BY <1>7 DEF Coming, Only
  <2>2. e = backdrop /\ waits[e] = <<"show">>
    BY <1>1, <1>4, <2>1
  <2>3. Idle'
    BY <1>6, <2>1, <2>2 DEF Idle
  <2> QED  BY <1>1, <1>4, <1>6, <1>7, <2>2, <2>3 DEF There, Opened, Coming
<1>8. CASE Overtaken
  <2>1. waits = [x \in Elements |-> IF x = backdrop THEN <<"show">>
                                    ELSE IF x = Modal THEN <<"hide">> ELSE <<>>]
    BY <1>8 DEF Overtaken
  <2>2. e = backdrop /\ waits[e] = <<"show">>
    <3>1. e # Modal
      BY <1>1, <1>8 DEF Overtaken
    <3> QED  BY <1>1, <2>1, <3>1
  <2>3. waits' = [x \in Elements |-> IF x = Modal THEN <<"hide">> ELSE <<>>]
    BY <1>4, <1>6, <2>1, <2>2
  <2>4. ~isShown' /\ rushed'
    BY <1>1, <1>8 DEF Overtaken
  <2> QED  BY <1>1, <1>3, <1>4, <1>6, <2>2, <2>3, <2>4 DEF Going, Dimmed, Only
<1>9. CASE Going
  <2>1. waits = [x \in Elements |-> IF x = Modal THEN <<"hide">> ELSE <<>>] /\ ~isShown
    BY <1>9 DEF Going, Only
  <2>2. e = Modal /\ waits[e] = <<"hide">>
    BY <1>1, <2>1
  <2> DEFINE hidden == [en EXCEPT !.visible = FALSE]
             w == [hidden.waits EXCEPT ![backdrop] = Append(@, "remove")]
             a == [hidden.ahead EXCEPT ![backdrop] = IF hidden.waits[backdrop] # <<>> THEN @
                                                     ELSE {b \in Backdrops : hidden.waits[b] # <<>>}]
  <2>3. /\ hidden \in States /\ hidden.waits = en.waits /\ hidden.inBody = {backdrop}
        /\ hidden.backdrop = backdrop /\ hidden.bodyOpen = TRUE /\ hidden.pad = 1
        /\ hidden.trap = trap /\ hidden.visible = FALSE
    BY <1>5 DEF States
  <2>4. RunAll(en, waits[e]) = Wait(hidden, backdrop, "remove")
    BY <1>3, <1>4, <1>5, <2>1, <2>2, RunOne DEF Run, HideModal
  <2> HIDE DEF hidden
  <2>5. Wait(hidden, backdrop, "remove") = [hidden EXCEPT !.waits = w, !.ahead = a]
    BY DEF Wait
  <2>6. /\ waits' = w /\ inBody' = {backdrop} /\ backdrop' = backdrop /\ bodyOpen' = TRUE
        /\ pad' = 1 /\ trap' = trap /\ visible' = FALSE
    <3> HIDE DEF w, a
    <3> QED  BY <1>1, <2>3, <2>4, <2>5 DEF Becomes, States
  <2>7. waits' = [x \in Elements |-> IF x = backdrop THEN <<"remove">> ELSE <<>>]
    <3>1. hidden.waits = [x \in Elements |-> <<>>]
      BY <1>5, <2>1, <2>2, <2>3
    <3>2. Append(<<>>, "remove") = <<"remove">>
      OBVIOUS
    <3> QED  BY <1>4, <2>6, <3>1, <3>2
  <2>8. ~isShown' /\ (trap' => rushed')
    BY <1>1, <1>9, <2>1, <2>6 DEF Going
  <2> QED  BY <1>1, <1>3, <1>4, <2>6, <2>7, <2>8 DEF Fading, Dimmed, Only
<1>10. CASE Fading
  <2>1. /\ waits = [x \in Elements |-> IF x = backdrop THEN <<"remove">> ELSE <<>>]
        /\ ~isShown /\ ~visible /\ (trap => rushed)
    BY <1>10 DEF Fading, Only
  <2>2. e = backdrop /\ waits[e] = <<"remove">>
    BY <1>1, <2>1
  <2>3. RunAll(en, waits[e]) = Restore(RemoveBackdrop(en))
    BY <2>2, RunOne DEF Run
  <2>4. \A x \in Elements \ {backdrop} : en.waits[x] = <<>>
    BY <1>5, <2>1
  <2>5. ~isShown' /\ (en.trap => rushed') /\ ~en.visible
    BY <1>1, <1>5, <2>1
  <2>6. Becomes(Restore(RemoveBackdrop(en)))
    BY <1>1, <2>3
  <2> QED  BY <1>1, <1>3, <1>5, <2>4, <2>5, <2>6, Removed
<1> QED  BY <1>1, <1>2, <1>7, <1>8, <1>9, <1>10

-----------------------------------------------------------------------------
LEMMA ModalInitInv == ModalInit => ModalInv
<1> SUFFICES ASSUME ModalInit PROVE ModalInv
  OBVIOUS
<1>1. ModalTypeOK
  <2>1. 0 \in 0 .. MaxBackdrops /\ 0 \in Elements
    BY ModalAssumption DEF Elements, Modal
  <2>2. /\ waits = [element \in Elements |-> <<>>] /\ ahead = [element \in Elements |-> {}]
        /\ inBody = {} /\ backdrop = 0 /\ pad = 0 /\ originalPad = 0
        /\ {transition, isShown, visible, faded, bodyOpen, trap, reshown, rushed} \subseteq BOOLEAN
    BY DEF ModalInit, TransitionInit
  <2> QED  BY <2>1, <2>2 DEF ModalTypeOK
<1>2. originalPad = 0 /\ Gone
  BY DEF ModalInit, Gone, Idle, Closed
<1> QED  BY <1>1, <1>2 DEF ModalInv

LEMMA ModalStepInv == ModalInv /\ [ModalNext]_modalVars => ModalInv'
<1> SUFFICES ASSUME ModalInv, [ModalNext]_modalVars PROVE ModalInv'
  OBVIOUS
<1>1. ModalTypeOK
  BY DEF ModalInv
<1>2. CASE Show
  BY <1>1, <1>2, ShowTyped, ShowSteps DEF ModalInv
<1>3. CASE Hide
  BY <1>1, <1>3, HideTyped, HideSteps DEF ModalInv
<1>4. ASSUME NEW e \in Elements, EndOfFade(e) PROVE ModalInv'
  BY <1>1, <1>4, EndOfFadeTyped, EndOfFadeSteps DEF ModalInv
<1>5. CASE UNCHANGED modalVars
  BY <1>5 DEF modalVars, ModalInv, ModalTypeOK, Gone, Coming, There, Going, Fading, Overtaken,
              Only, Dimmed, Idle, Opened, Closed
<1> QED  BY <1>2, <1>3, <1>4, <1>5 DEF ModalNext

\* Nothing waits in two of the phases only.
LEMMA ModalInvGivesWhole == ModalInv => ModalWhole
<1> SUFFICES ASSUME ModalInv, Idle, ~reshown
             PROVE  (isShown => Opened) /\ (~isShown => Closed /\ (trap => rushed))
  BY DEF ModalWhole
<1>1. Gone \/ There
  BY BusyPhases DEF ModalInv
<1> QED  BY <1>1 DEF Gone, There

\* bootstrap.js:986 and :1080: after the transitions a modal is there or gone
\* as a whole, whatever show and hide cut across them, unless show() came
\* before a hide() was over.
THEOREM ModalEndsWhole == ModalSpec => []ModalWhole
BY ModalInitInv, ModalStepInv, ModalInvGivesWhole, PTL DEF ModalSpec

-----------------------------------------------------------------------------
(* The tooltip                                                              *)

\* The states that n handlers of the tip lead through exist.
LEMMA TipRanExists ==
  ASSUME NEW t, NEW dos, NEW n \in Nat
  PROVE  \E ran : ran = [k \in 0 .. n |-> IF k = 0 THEN t ELSE RunTip(ran[k - 1], dos[k])]
<1> DEFINE IsRan(ran, m) == ran = [k \in 0 .. m |-> IF k = 0 THEN t ELSE RunTip(ran[k - 1], dos[k])]
           T == {m \in Nat : ~\E ran : IsRan(ran, m)}
<1>1. SUFFICES ASSUME T # {} PROVE FALSE
  OBVIOUS
<1>2. PICK m \in T : \A l \in T : m <= l
  <2> HIDE DEF IsRan
  <2> QED  BY <1>1, FirstExists
<1>3. CASE m = 0
  <2> DEFINE ran == [k \in 0 .. 0 |-> t]
  <2>1. ran = [k \in 0 .. 0 |-> IF k = 0 THEN t ELSE RunTip(ran[k - 1], dos[k])]
    OBVIOUS
  <2>2. IsRan(ran, m)
    BY <1>3, <2>1
  <2> QED  BY <2>2
<1>4. CASE m # 0
  <2>1. m - 1 \in Nat /\ m - 1 \notin T
    <3>1. m \in Nat
      OBVIOUS
    <3> HIDE DEF T
    <3> QED  BY <1>2, <1>4, <3>1
  <2>2. PICK g : IsRan(g, m - 1)
    BY <2>1
  <2> DEFINE ran == [k \in 0 .. m |-> IF k = m THEN RunTip(g[m - 1], dos[m]) ELSE g[k]]
  <2>3. g = [k \in 0 .. m - 1 |-> IF k = 0 THEN t ELSE RunTip(g[k - 1], dos[k])]
    BY <2>2
  <2>4. \A k \in 0 .. m : ran[k] = IF k = 0 THEN t ELSE RunTip(ran[k - 1], dos[k])
    <3> TAKE k \in 0 .. m
    <3>1. CASE k = m
      BY <1>4, <2>1, <3>1
    <3>2. CASE k # m /\ k = 0
      BY <1>4, <2>1, <2>3, <3>2
    <3>3. CASE k # m /\ k # 0
      <4>1. k \in 0 .. m - 1 /\ k - 1 \in 0 .. m - 1 /\ k - 1 # m
        BY <3>3
      <4>2. ran[k] = g[k] /\ ran[k - 1] = g[k - 1]
        BY <3>3, <4>1
      <4>3. g[k] = RunTip(g[k - 1], dos[k])
        BY <2>3, <3>3, <4>1
      <4> QED  BY <3>3, <4>2, <4>3
    <3> QED  BY <3>1, <3>2, <3>3
  <2>5. IsRan(ran, m)
    <3>1. ran = [k \in 0 .. m |-> ran[k]]
      OBVIOUS
    <3> HIDE DEF ran
    <3> QED  BY <2>4, <3>1
  <2> QED  BY <2>5
<1> QED  BY <1>3, <1>4

\* RunTips starts with t, and each handler runs on what the one before left.
LEMMA RunTipsSteps ==
  ASSUME NEW t, NEW dos, Len(dos) \in Nat
  PROVE  \E ran : /\ ran[0] = t /\ RunTips(t, dos) = ran[Len(dos)]
                  /\ \A k \in 1 .. Len(dos) : ran[k] = RunTip(ran[k - 1], dos[k])
<1> DEFINE f == CHOOSE ran : ran = [k \in 0 .. Len(dos) |-> IF k = 0 THEN t ELSE RunTip(ran[k - 1], dos[k])]
<1>1. f = [k \in 0 .. Len(dos) |-> IF k = 0 THEN t ELSE RunTip(f[k - 1], dos[k])]
  BY TipRanExists
<1>2. RunTips(t, dos) = f[Len(dos)]
  BY DEF RunTips
<1> HIDE DEF f
<1>3. f[0] = t
  BY <1>1
<1>4. \A k \in 1 .. Len(dos) : f[k] = RunTip(f[k - 1], dos[k])
  BY <1>1
<1> QED  BY <1>2, <1>3, <1>4

-----------------------------------------------------------------------------
Tips == [hoverState : {"in", "out", "null"}, timeout : {"none", "show", "hide"}, fade : BOOLEAN,
         tipIn : BOOLEAN, attached : BOOLEAN, fades : Seq({"shown", "hidden"})]

\* The last fade of the tip is one out.
Leaving(t) == t.fades # <<>> /\ t.fades[Len(t.fades)] = "hidden"

\* What nothing holds goes: its timer or its fade will see to it.
Released(t) ==
  /\ t.hoverState # "in"
  /\ t.hoverState = "out" => t.timeout = "hide"
  /\ t.hoverState = "null" => ~t.attached \/ Leaving(t)

\* No fade takes a tip that has class in.
Stays(t) == t.tipIn => t.attached /\ \A n \in 1 .. Len(t.fades) : t.fades[n] = "shown"

\* A tip that is held and has not class in will be shown.
Due(t) == ~t.tipIn => t.hoverState = "in" /\ t.timeout = "show" /\ t.fades = <<>>

\* Without transitions nothing fades.
Instant(t) == t.fades # <<>> => transition

\* TipFollows speaks of a tip at rest. In between, a tip that nothing holds is on
\* its way out by its timer or its last fade, and one that is held is in or on
\* its way in, unless it was entered again while it faded out.
Coherent(t, held, again) ==
  /\ Instant(t)
  /\ IF held THEN t.hoverState # "out" ELSE Released(t)
  /\ ~again => Stays(t) /\ (held => Due(t))

\* The invariant.
TipInv == TooltipTypeOK /\ Coherent(Tip, inState # {}, bounced)

LEMMA TipTyped == TooltipTypeOK => Tip \in Tips
BY DEF TooltipTypeOK, Tip, Tips

LEMMA HiddenCompleteIs ==
  ASSUME NEW t \in Tips
  PROVE  LET u == HiddenComplete(t) IN
         /\ u \in Tips /\ u.hoverState = t.hoverState /\ u.timeout = t.timeout /\ u.fades = t.fades
         /\ u.tipIn = t.tipIn /\ (u.hoverState # "in" => ~u.attached)
<1> DEFINE stays == t.attached /\ t.hoverState = "in"
<1>1. stays \in BOOLEAN /\ (t.hoverState # "in" => ~stays)
  OBVIOUS
<1>2. HiddenComplete(t) = [t EXCEPT !.attached = stays]
  BY DEF HiddenComplete
<1> HIDE DEF stays
<1> QED  BY <1>1, <1>2 DEF Tips

LEMMA HideTipIs ==
  ASSUME NEW t \in Tips, transition \in BOOLEAN, t.hoverState # "in", Instant(t)
  PROVE  LET u == HideTip(t) IN
         u \in Tips /\ Released(u) /\ Instant(u) /\ ~u.tipIn
<1> DEFINE out == [t EXCEPT !.tipIn = FALSE]
<1>1. out \in Tips /\ out.hoverState = t.hoverState /\ out.fades = t.fades /\ out.tipIn = FALSE
  BY DEF Tips
<1>2. CASE transition /\ t.fade
  <2> DEFINE more == Append(t.fades, "hidden")
  <2>1. more \in Seq({"shown", "hidden"}) /\ more # <<>> /\ more[Len(more)] = "hidden"
    BY DEF Tips
  <2>2. HideTip(t) = [out EXCEPT !.fades = more, !.hoverState = "null"]
    BY <1>1, <1>2 DEF HideTip
  <2> HIDE DEF more, out
  <2> QED  BY <1>1, <1>2, <2>1, <2>2 DEF Tips, Released, Leaving, Instant
<1>3. CASE ~(transition /\ t.fade)
  <2> DEFINE u == HiddenComplete(out)
  <2>1. /\ u \in Tips /\ u.fades = t.fades /\ u.tipIn = FALSE /\ ~u.attached
    BY <1>1, HiddenCompleteIs
  <2>2. HideTip(t) = [u EXCEPT !.hoverState = "null"]
    BY <1>3 DEF HideTip
  <2> HIDE DEF u, out
  <2> QED  BY <2>1, <2>2 DEF Tips, Released, Instant
<1> QED  BY <1>2, <1>3

LEMMA LeaveTipIs ==
  ASSUME NEW t \in Tips, transition \in BOOLEAN, Instant(t)
  PROVE  LET u == LeaveTip(t) IN
         /\ u \in Tips /\ Released(u) /\ Instant(u)
         /\ Stays(t) => Stays(u)
         /\ ~t.tipIn => ~u.tipIn
<1> DEFINE out == [t EXCEPT !.hoverState = "out", !.timeout = "none"]
<1>1. out \in Tips /\ out.hoverState = "out" /\ out.fades = t.fades /\ out.tipIn = t.tipIn
      /\ out.attached = t.attached
  BY DEF Tips
<1>2. LeaveTip(t) = IF "hide" \in delayed THEN [out EXCEPT !.timeout = "hide"] ELSE HideTip(out)
  BY DEF LeaveTip
<1> HIDE DEF out
<1>3. CASE "hide" \in delayed
  BY <1>1, <1>2, <1>3 DEF Tips, Released, Instant, Stays
<1>4. CASE "hide" \notin delayed
  BY <1>1, <1>2, <1>4, HideTipIs DEF Instant, Stays
<1> QED  BY <1>3, <1>4

LEMMA ShownCompleteIs ==
  ASSUME NEW t \in Tips, transition \in BOOLEAN, NEW held \in BOOLEAN, Instant(t)
  PROVE  LET u == ShownComplete(t, held) IN
         /\ u \in Tips /\ Instant(u)
         /\ held => u.hoverState = "null" /\ u.tipIn = t.tipIn /\ u.attached = t.attached /\ u.fades = t.fades
         /\ ~held /\ t.hoverState = "out" => Released(u)
         /\ ~held /\ t.hoverState = "null" => u.hoverState = "null" /\ u.attached = t.attached /\ u.fades = t.fades
         /\ Stays(t) => Stays(u)
         /\ ~t.tipIn => ~u.tipIn
<1> DEFINE shown == [t EXCEPT !.hoverState = "null"]
<1>1. /\ shown \in Tips /\ shown.hoverState = "null" /\ shown.fades = t.fades /\ shown.tipIn = t.tipIn
      /\ shown.attached = t.attached
  BY DEF Tips
<1>2. ShownComplete(t, held) = IF t.hoverState = "out" /\ ~held THEN LeaveTip(shown) ELSE shown
  BY DEF ShownComplete
<1> HIDE DEF shown
<1>3. CASE t.hoverState = "out" /\ ~held
  <2>1. Instant(shown) /\ (Stays(t) => Stays(shown))
    BY <1>1 DEF Instant, Stays
  <2> QED  BY <1>1, <1>2, <1>3, <2>1, LeaveTipIs
<1>4. CASE ~(t.hoverState = "out" /\ ~held)
  BY <1>1, <1>2, <1>4 DEF Instant, Stays
<1> QED  BY <1>3, <1>4

\* show() for what holds the tip.
LEMMA ShowTipIs ==
  ASSUME NEW t \in Tips, transition \in BOOLEAN, Instant(t), t.hoverState = "in"
  PROVE  LET u == ShowTip(t, TRUE) IN
         /\ u \in Tips /\ Instant(u) /\ u.hoverState # "out" /\ u.tipIn
         /\ (\A n \in 1 .. Len(t.fades) : t.fades[n] = "shown") => Stays(u)
         /\ transition => u.hoverState = "in"
<1> DEFINE in == [t EXCEPT !.fade = TRUE, !.tipIn = TRUE, !.attached = TRUE]
<1>1. in \in Tips /\ in.hoverState = "in" /\ in.fades = t.fades /\ in.tipIn = TRUE /\ in.attached = TRUE
  BY DEF Tips
<1>2. ShowTip(t, TRUE) = IF transition THEN [in EXCEPT !.fades = Append(@, "shown")] ELSE ShownComplete(in, TRUE)
  BY DEF ShowTip
<1>3. CASE transition
  <2> DEFINE more == Append(t.fades, "shown")
  <2>1. /\ more \in Seq({"shown", "hidden"})
        /\ (\A n \in 1 .. Len(t.fades) : t.fades[n] = "shown") => (\A n \in 1 .. Len(more) : more[n] = "shown")
    BY DEF Tips
  <2>2. ShowTip(t, TRUE) = [in EXCEPT !.fades = more]
    BY <1>1, <1>2, <1>3
  <2> HIDE DEF more, in
  <2> QED  BY <1>1, <1>3, <2>1, <2>2 DEF Tips, Instant, Stays
<1>4. CASE ~transition
  <2> HIDE DEF in
  <2>1. Instant(in) /\ ((\A n \in 1 .. Len(t.fades) : t.fades[n] = "shown") => Stays(in))
    BY <1>1 DEF Instant, Stays
  <2> DEFINE u == ShownComplete(in, TRUE)
  <2>2. /\ u \in Tips /\ Instant(u) /\ u.hoverState = "null" /\ u.tipIn = TRUE
        /\ Stays(in) => Stays(u)
    BY <1>1, <2>1, ShownCompleteIs
  <2>3. ShowTip(t, TRUE) = u
    BY <1>2, <1>4
  <2> HIDE DEF u
  <2> QED  BY <1>4, <2>1, <2>2, <2>3
<1> QED  BY <1>3, <1>4

\* enter(), of a tip that is held from now on.
LEMMA EnterTipIs ==
  ASSUME TooltipTypeOK, NEW held \in BOOLEAN, Coherent(Tip, held, bounced),
         NEW again \in BOOLEAN, bounced => again,
         fades # <<>> /\ ~tipIn /\ hoverState # "in" /\ EnterTip(Tip).hoverState = "in" => again
  PROVE  EnterTip(Tip) \in Tips /\ Coherent(EnterTip(Tip), TRUE, again)
<1> DEFINE in == [Tip EXCEPT !.hoverState = "in", !.timeout = "none"]
<1>1. Tip \in Tips /\ transition \in BOOLEAN /\ Instant(Tip)
  BY TipTyped DEF TooltipTypeOK, Coherent
<1>2. /\ in \in Tips /\ in.hoverState = "in" /\ in.timeout = "none" /\ in.fades = fades /\ in.tipIn = tipIn
      /\ in.attached = attached /\ Instant(in)
  BY <1>1 DEF Tips, Tip, Instant
<1>3. CASE tipIn \/ hoverState = "in"
  <2>1. EnterTip(Tip) = [Tip EXCEPT !.hoverState = "in"]
    BY <1>3 DEF EnterTip, Tip
  <2>2. ~bounced => Stays(Tip) /\ (held => Due(Tip))
    BY DEF Coherent
  <2>3. ~tipIn => held
    BY <1>3 DEF Coherent, Released, Tip
  <2> DEFINE u == EnterTip(Tip)
  <2>4. /\ u \in Tips /\ u.hoverState = "in" /\ u.timeout = timeout /\ u.fades = fades
        /\ u.tipIn = tipIn /\ u.attached = attached
    BY <1>1, <2>1 DEF Tips, Tip
  <2> HIDE DEF u
  <2>5. Instant(u) /\ (~again => Stays(u))
    BY <1>1, <2>2, <2>4 DEF Instant, Stays, Tip
  <2>6. ~again => Due(u)
    <3>1. CASE tipIn
      BY <2>4, <3>1 DEF Due
    <3>2. CASE ~tipIn
      BY <2>2, <2>3, <2>4, <3>2 DEF Due, Tip
    <3> QED  BY <3>1, <3>2
  <2>7. u \in Tips /\ Coherent(u, TRUE, again)
    BY <2>4, <2>5, <2>6 DEF Coherent
  <2> QED  BY <2>7 DEF u
<1>4. CASE ~tipIn /\ hoverState # "in"
  <2> DEFINE u == EnterTip(Tip)
  <2>1. u = IF "show" \in delayed THEN [in EXCEPT !.timeout = "show"] ELSE ShowTip(in, TRUE)
    BY <1>4 DEF EnterTip, Tip
  <2>2. ~again /\ u.hoverState = "in" => fades = <<>>
    BY <1>4
  <2> HIDE DEF u, in
  <2>3. ASSUME "show" \in delayed PROVE u \in Tips /\ Coherent(u, TRUE, again)
    <3>1. /\ u \in Tips /\ u.hoverState = "in" /\ u.timeout = "show" /\ u.fades = fades /\ u.tipIn = FALSE
          /\ Instant(u)
      BY <1>2, <1>4, <2>1, <2>3 DEF Tips, Instant, Tip
    <3>2. ~again => Stays(u) /\ Due(u)
      BY <2>2, <3>1 DEF Stays, Due
    <3> QED  BY <3>1, <3>2 DEF Coherent
  <2>4. ASSUME "show" \notin delayed PROVE u \in Tips /\ Coherent(u, TRUE, again)
    <3>1. /\ u \in Tips /\ Instant(u) /\ u.hoverState # "out" /\ u.tipIn
          /\ (\A n \in 1 .. Len(fades) : fades[n] = "shown") => Stays(u)
          /\ transition => u.hoverState = "in"
      BY <1>1, <1>2, <2>1, <2>4, ShowTipIs
    <3>2. ~again => fades = <<>>
      BY <1>1, <2>2, <3>1 DEF Instant, Tip
    <3>3. ~again => Stays(u)
      BY <3>1, <3>2
    <3>4. Due(u)
      BY <3>1 DEF Due
    <3> QED  BY <3>1, <3>3, <3>4 DEF Coherent
  <2>5. u \in Tips /\ Coherent(u, TRUE, again)
    BY <2>3, <2>4
  <2> QED  BY <2>5 DEF u
<1> QED  BY <1>3, <1>4 DEF TooltipTypeOK

LEMMA BouncesIs ==
  ASSUME TooltipTypeOK, Bounces(EnterTip(Tip))
  PROVE  /\ bounced' \in BOOLEAN /\ (bounced => bounced')
         /\ fades # <<>> /\ ~tipIn /\ hoverState # "in" /\ EnterTip(Tip).hoverState = "in" => bounced'
BY DEF Bounces, TooltipTypeOK

\* leave(), of a tip that nothing holds any more.
LEMMA LeaveTipCoheres ==
  ASSUME TooltipTypeOK, NEW held \in BOOLEAN, Coherent(Tip, held, bounced), NEW again \in BOOLEAN, bounced => again
  PROVE  LeaveTip(Tip) \in Tips /\ Coherent(LeaveTip(Tip), FALSE, again)
<1>1. Tip \in Tips /\ transition \in BOOLEAN /\ Instant(Tip) /\ (~bounced => Stays(Tip))
  BY TipTyped DEF TooltipTypeOK, Coherent
<1> DEFINE u == LeaveTip(Tip)
<1>2. u \in Tips /\ Released(u) /\ Instant(u) /\ (Stays(Tip) => Stays(u))
  BY <1>1, LeaveTipIs
<1> HIDE DEF u
<1>3. u \in Tips /\ Coherent(u, FALSE, again)
  BY <1>1, <1>2 DEF Coherent
<1> QED  BY <1>3 DEF u

\* What a step leaves is typed and coherent if the record of it is.
LEMMA TipBecomesInv ==
  ASSUME NEW u \in Tips, TipBecomes(u), Coherent(u, inState' # {}, bounced'), bounced' \in BOOLEAN,
         transition' \in BOOLEAN, transition' = transition, delayed' \subseteq {"show", "hide"},
         inState' \subseteq triggers'
  PROVE  TipInv'
<1>1. Tip' = u
  BY DEF TipBecomes, Tip, Tips
<1>2. TooltipTypeOK'
  BY DEF TipBecomes, TooltipTypeOK, Tips
<1>3. Coherent(Tip, inState # {}, bounced)'
  <2>1. Coherent(u, inState' # {}, bounced') <=> Coherent(Tip, inState # {}, bounced)'
    BY <1>1 DEF Coherent, Instant, Released, Leaving, Stays, Due
  <2> QED  BY <2>1
<1> QED  BY <1>2, <1>3 DEF TipInv

LEMMA EnterInv ==
  ASSUME TipInv, NEW trigger, Enter(trigger)
  PROVE  TipInv'
<1>1. /\ inState' = inState \cup {trigger} /\ trigger \in triggers /\ TipBecomes(EnterTip(Tip))
      /\ Bounces(EnterTip(Tip)) /\ transition' = transition /\ triggers' = triggers /\ delayed' = delayed
  BY DEF Enter
<1>2. TooltipTypeOK /\ Coherent(Tip, inState # {}, bounced)
  BY DEF TipInv
<1>3. EnterTip(Tip) \in Tips /\ Coherent(EnterTip(Tip), TRUE, bounced') /\ bounced' \in BOOLEAN
  BY <1>1, <1>2, BouncesIs, EnterTipIs
<1>4. (inState' # {}) = TRUE /\ inState' \subseteq triggers'
  BY <1>1, <1>2 DEF TooltipTypeOK
<1>5. Coherent(EnterTip(Tip), inState' # {}, bounced')
  BY <1>3, <1>4
<1> QED  BY <1>1, <1>2, <1>3, <1>4, <1>5, TipBecomesInv DEF TooltipTypeOK

LEMMA LeaveInv ==
  ASSUME TipInv, NEW trigger, Leave(trigger)
  PROVE  TipInv'
<1>1. /\ inState' = inState \ {trigger} /\ trigger \in inState /\ transition' = transition
      /\ triggers' = triggers /\ delayed' = delayed
  BY DEF Leave
<1>2. TooltipTypeOK /\ Coherent(Tip, inState # {}, bounced) /\ inState # {}
  BY <1>1 DEF TipInv
<1>3. inState' \subseteq triggers' /\ transition \in BOOLEAN /\ bounced \in BOOLEAN /\ delayed \subseteq {"show", "hide"}
  BY <1>1, <1>2 DEF TooltipTypeOK
<1>4. CASE inState' # {}
  <2>1. UNCHANGED tipVars
    BY <1>4 DEF Leave
  <2>2. TipBecomes(Tip) /\ Tip \in Tips /\ bounced' = bounced
    BY <1>2, <2>1, TipTyped DEF tipVars, TipBecomes, Tip
  <2>3. (inState' # {}) = (inState # {})
    BY <1>2, <1>4
  <2>4. Coherent(Tip, inState' # {}, bounced')
    BY <1>2, <2>2, <2>3
  <2> QED  BY <1>1, <1>3, <2>2, <2>4, TipBecomesInv
<1>5. CASE inState' = {}
  <2>1. TipBecomes(LeaveTip(Tip)) /\ bounced' = bounced
    BY <1>5 DEF Leave
  <2>2. LeaveTip(Tip) \in Tips /\ Coherent(LeaveTip(Tip), FALSE, bounced)
    BY <1>2, <1>3, LeaveTipCoheres
  <2>3. (inState' # {}) = FALSE
    BY <1>5
  <2>4. Coherent(LeaveTip(Tip), inState' # {}, bounced')
    BY <2>1, <2>2, <2>3
  <2> QED  BY <1>1, <1>3, <2>1, <2>2, <2>4, TipBecomesInv
<1> QED  BY <1>4, <1>5

LEMMA ClickTipInv ==
  ASSUME TipInv, ClickTip
  PROVE  TipInv'
<1> DEFINE next == IF "click" \in inState THEN inState \ {"click"} ELSE inState \cup {"click"}
<1>1. /\ inState' = next /\ "click" \in triggers /\ transition' = transition /\ triggers' = triggers
      /\ delayed' = delayed
      /\ TipBecomes(IF next # {} THEN EnterTip(Tip) ELSE LeaveTip(Tip))
      /\ Bounces(IF next # {} THEN EnterTip(Tip) ELSE LeaveTip(Tip))
  BY DEF ClickTip
<1>2. TooltipTypeOK /\ Coherent(Tip, inState # {}, bounced)
  BY DEF TipInv
<1>3. inState' \subseteq triggers' /\ transition \in BOOLEAN /\ bounced \in BOOLEAN /\ delayed \subseteq {"show", "hide"}
  BY <1>1, <1>2 DEF TooltipTypeOK
<1> HIDE DEF next
<1>4. CASE next # {}
  <2>1. TipBecomes(EnterTip(Tip)) /\ Bounces(EnterTip(Tip))
    BY <1>1, <1>4
  <2>2. EnterTip(Tip) \in Tips /\ Coherent(EnterTip(Tip), TRUE, bounced') /\ bounced' \in BOOLEAN
    BY <1>2, <2>1, BouncesIs, EnterTipIs
  <2>3. (inState' # {}) = TRUE
    BY <1>1, <1>4
  <2>4. Coherent(EnterTip(Tip), inState' # {}, bounced')
    BY <2>2, <2>3
  <2> QED  BY <1>1, <1>3, <2>1, <2>2, <2>4, TipBecomesInv
<1>5. CASE next = {}
  <2>1. TipBecomes(LeaveTip(Tip)) /\ Bounces(LeaveTip(Tip))
    BY <1>1, <1>5
  <2>2. bounced' \in BOOLEAN /\ (bounced => bounced')
    BY <1>3, <2>1 DEF Bounces
  <2>3. LeaveTip(Tip) \in Tips /\ Coherent(LeaveTip(Tip), FALSE, bounced')
    BY <1>2, <2>2, LeaveTipCoheres
  <2>4. (inState' # {}) = FALSE
    BY <1>1, <1>5
  <2>5. Coherent(LeaveTip(Tip), inState' # {}, bounced')
    BY <2>3, <2>4
  <2> QED  BY <1>1, <1>3, <2>1, <2>2, <2>3, <2>5, TipBecomesInv
<1> QED  BY <1>4, <1>5
LEMMA TimeoutInv ==
  ASSUME TipInv, Timeout
  PROVE  TipInv'
<1> DEFINE out == [Tip EXCEPT !.timeout = "none"]
           u   == CASE timeout = "show" /\ hoverState = "in"  -> ShowTip(out, inState # {})
                    [] timeout = "hide" /\ hoverState = "out" -> HideTip(out)
                    [] OTHER -> out
           held == inState # {}
<1>1. TooltipTypeOK /\ Coherent(Tip, held, bounced) /\ Tip \in Tips /\ transition \in BOOLEAN
  BY TipTyped DEF TipInv, TooltipTypeOK
<1>2. /\ TipBecomes(u) /\ Bounces(u) /\ transition' = transition /\ triggers' = triggers
      /\ delayed' = delayed /\ inState' = inState
  BY DEF Timeout
<1>3. /\ out \in Tips /\ out.hoverState = hoverState /\ out.timeout = "none" /\ out.fades = fades
      /\ out.tipIn = tipIn /\ out.attached = attached
  BY <1>1 DEF Tips, Tip
<1>4. /\ Instant(out) /\ held \in BOOLEAN
      /\ held => hoverState # "out"
      /\ ~held => /\ hoverState # "in"
                  /\ hoverState = "out" => timeout = "hide"
                  /\ hoverState = "null" => ~attached \/ Leaving(out)
      /\ ~bounced => Stays(out)
      /\ ~bounced /\ held /\ ~tipIn => hoverState = "in" /\ timeout = "show" /\ fades = <<>>
  <2>1. Tip.hoverState = hoverState /\ Tip.timeout = timeout /\ Tip.tipIn = tipIn /\ Tip.attached = attached
        /\ Tip.fades = fades /\ held \in BOOLEAN
    BY DEF Tip
  <2> HIDE DEF held, out
  <2>2. Instant(Tip) /\ (~bounced => Stays(Tip) /\ (held => Due(Tip)))
    BY <1>1 DEF Coherent
  <2>3. Instant(out) /\ (Stays(Tip) => Stays(out)) /\ (Leaving(Tip) => Leaving(out))
    BY <1>3, <2>1, <2>2 DEF Instant, Stays, Leaving
  <2>4. held => hoverState # "out"
    BY <1>1, <2>1 DEF Coherent
  <2>5. ~held => Released(Tip)
    BY <1>1 DEF Coherent
  <2>6. Due(Tip) /\ ~tipIn => hoverState = "in" /\ timeout = "show" /\ fades = <<>>
    BY <2>1 DEF Due
  <2>7. Released(Tip) => /\ hoverState # "in"
                         /\ hoverState = "out" => timeout = "hide"
                         /\ hoverState = "null" => ~attached \/ Leaving(out)
    BY <2>1, <2>3 DEF Released
  <2> QED  BY <2>1, <2>2, <2>3, <2>4, <2>5, <2>6, <2>7
<1>5. ASSUME timeout = "show", hoverState = "in" PROVE u \in Tips /\ Coherent(u, held, bounced)
  <2>1. held = TRUE
    BY <1>4, <1>5
  <2>2. u = ShowTip(out, TRUE)
    BY <1>5, <2>1
  <2> HIDE DEF held, out, u
  <2>3. /\ u \in Tips /\ Instant(u) /\ u.hoverState # "out" /\ u.tipIn
        /\ (\A n \in 1 .. Len(fades) : fades[n] = "shown") => Stays(u)
    BY <1>1, <1>3, <1>4, <1>5, <2>2, ShowTipIs
  <2>4. ~bounced => \A n \in 1 .. Len(fades) : fades[n] = "shown"
    <3>1. CASE tipIn
      BY <1>3, <1>4, <3>1 DEF Stays
    <3>2. CASE ~tipIn
      BY <1>4, <2>1, <3>2
    <3> QED  BY <3>1, <3>2
  <2>5. (~bounced => Stays(u)) /\ Due(u)
    BY <2>3, <2>4 DEF Due
  <2> QED  BY <2>1, <2>3, <2>5 DEF Coherent
<1>6. ASSUME timeout = "hide", hoverState = "out" PROVE u \in Tips /\ Coherent(u, held, bounced)
  <2>1. held = FALSE
    BY <1>4, <1>6
  <2>2. u = HideTip(out)
    BY <1>6
  <2> HIDE DEF held, out, u
  <2>3. u \in Tips /\ Released(u) /\ Instant(u) /\ ~u.tipIn
    BY <1>1, <1>3, <1>4, <1>6, <2>2, HideTipIs
  <2> QED  BY <2>1, <2>3 DEF Coherent, Stays
<1>7. ASSUME ~(timeout = "show" /\ hoverState = "in"), ~(timeout = "hide" /\ hoverState = "out")
      PROVE  u \in Tips /\ Coherent(u, held, bounced)
  <2>1. u = out
    BY <1>7
  <2> HIDE DEF held, out, u
  <2>2. ~held => Released(out)
    BY <1>1, <1>3, <1>4, <1>7 DEF Released, TooltipTypeOK
  <2>3. ~bounced => Stays(out) /\ (held => Due(out))
    BY <1>3, <1>4, <1>7 DEF Due
  <2>4. held => out.hoverState # "out"
    BY <1>3, <1>4
  <2> QED  BY <1>3, <1>4, <2>1, <2>2, <2>3, <2>4 DEF Coherent
<1> HIDE DEF out, u
<1>8. u \in Tips /\ Coherent(u, held, bounced)
  BY <1>5, <1>6, <1>7
<1>9. bounced' \in BOOLEAN /\ (bounced => bounced')
  BY <1>1, <1>2 DEF Bounces, TooltipTypeOK
<1>10. Coherent(u, inState' # {}, bounced')
  <2>1. (inState' # {}) = held
    BY <1>2
  <2> HIDE DEF held
  <2>2. Coherent(u, held, bounced')
    BY <1>8, <1>9 DEF Coherent
  <2> QED  BY <2>1, <2>2
<1> QED  BY <1>1, <1>2, <1>8, <1>9, <1>10, TipBecomesInv DEF TooltipTypeOK

\* While no fade takes a tip that was entered again, a tip with class in keeps
\* it through the end of its fades, and one without does not get it.
Kept(t, dos, held) ==
  \/ Stays(t) /\ (held => t.tipIn) /\ \A n \in 1 .. Len(dos) : dos[n] = "shown"
  \/ ~held /\ ~t.tipIn

\* How far the handlers of an end event are: k of dos have run and left t.
Underway(t, k, dos, held, again) ==
  /\ t \in Tips /\ Instant(t)
  /\ held => t.hoverState # "out"
  /\ ~held => /\ t.hoverState # "in"
              /\ t.hoverState = "out" => t.timeout = "hide"
              /\ t.hoverState = "null" =>
                   ~t.attached \/ Leaving(t) \/ (k < Len(dos) /\ dos[Len(dos)] = "hidden")
  /\ ~again => Kept(t, dos, held)

LEMMA RunTipUnderway ==
  ASSUME transition \in BOOLEAN, NEW dos \in Seq({"shown", "hidden"}), NEW k \in Nat, k < Len(dos),
         NEW t, NEW again, Underway(t, k, dos, inState # {}, again)
  PROVE  Underway(RunTip(t, dos[k + 1]), k + 1, dos, inState # {}, again)
<1> DEFINE held == inState # {}
           u == RunTip(t, dos[k + 1])
<1>1. k + 1 \in 1 .. Len(dos) /\ dos[k + 1] \in {"shown", "hidden"} /\ held \in BOOLEAN
  OBVIOUS
<1>2. Underway(t, k, dos, held, again)
  OBVIOUS
<1>3. ASSUME dos[k + 1] = "shown" PROVE Underway(u, k + 1, dos, held, again)
  <2>1. u = ShownComplete(t, held)
    BY <1>3 DEF RunTip
  <2> HIDE DEF u, held
  <2>2. /\ u \in Tips /\ Instant(u)
        /\ held => u.hoverState = "null" /\ u.tipIn = t.tipIn
        /\ ~held /\ t.hoverState = "out" => Released(u)
        /\ ~held /\ t.hoverState = "null" => u.hoverState = "null" /\ u.attached = t.attached /\ u.fades = t.fades
        /\ Stays(t) => Stays(u)
        /\ ~t.tipIn => ~u.tipIn
    BY <1>1, <1>2, <2>1, ShownCompleteIs DEF Underway
  <2>3. ~again => Kept(u, dos, held)
    BY <1>2, <2>2 DEF Underway, Kept
  <2>4. CASE held
    BY <2>2, <2>3, <2>4 DEF Underway
  <2>5. CASE ~held /\ t.hoverState = "out"
    BY <2>2, <2>3, <2>5 DEF Underway, Released
  <2>6. CASE ~held /\ t.hoverState = "null"
    <3>1. k + 1 < Len(dos) \/ dos[Len(dos)] = "shown"
      BY <1>3, k + 1 = Len(dos) \/ k + 1 < Len(dos)
    <3>2. ~t.attached \/ Leaving(t) \/ (k < Len(dos) /\ dos[Len(dos)] = "hidden")
      BY <1>2, <2>6 DEF Underway
    <3> QED  BY <2>2, <2>3, <2>6, <3>1, <3>2 DEF Underway, Leaving
  <2>7. t.hoverState \in {"in", "out", "null"} /\ (~held => t.hoverState # "in")
    BY <1>2 DEF Underway, Tips
  <2> QED  BY <2>4, <2>5, <2>6, <2>7
<1>4. ASSUME dos[k + 1] = "hidden" PROVE Underway(u, k + 1, dos, held, again)
  <2>1. u = HiddenComplete(t)
    BY <1>4 DEF RunTip
  <2> HIDE DEF u, held
  <2>2. /\ u \in Tips /\ u.hoverState = t.hoverState /\ u.timeout = t.timeout /\ u.fades = t.fades
        /\ u.tipIn = t.tipIn /\ (u.hoverState # "in" => ~u.attached)
    BY <1>2, <2>1, HiddenCompleteIs DEF Underway
  <2>3. ~again => Kept(u, dos, held)
    BY <1>1, <1>2, <1>4, <2>2 DEF Underway, Kept
  <2> QED  BY <1>2, <2>2, <2>3 DEF Underway, Instant
<1> HIDE DEF u, held
<1>5. Underway(u, k + 1, dos, held, again)
  BY <1>1, <1>3, <1>4
<1> QED  BY <1>5 DEF u, held

\* All handlers of an end event.
LEMMA RunTipsUnderway ==
  ASSUME transition \in BOOLEAN, NEW dos \in Seq({"shown", "hidden"}),
         NEW t, NEW again, Underway(t, 0, dos, inState # {}, again)
  PROVE  Underway(RunTips(t, dos), Len(dos), dos, inState # {}, again)
<1>1. Len(dos) \in Nat
  OBVIOUS
<1>2. PICK ran : /\ ran[0] = t /\ RunTips(t, dos) = ran[Len(dos)]
                 /\ \A k \in 1 .. Len(dos) : ran[k] = RunTip(ran[k - 1], dos[k])
  BY <1>1, RunTipsSteps
<1> DEFINE Good(k) == Underway(ran[k], k, dos, inState # {}, again)
           Bad == {k \in Nat : k <= Len(dos) /\ ~Good(k)}
<1>3. Good(0)
  BY <1>2
<1>4. ASSUME NEW k \in Nat, k < Len(dos), Good(k) PROVE Good(k + 1)
  <2>1. k + 1 \in 1 .. Len(dos) /\ (k + 1) - 1 = k
    BY <1>1, <1>4
  <2>2. ran[k + 1] = RunTip(ran[k], dos[k + 1])
    BY <1>2, <2>1
  <2>3. Underway(ran[k], k, dos, inState # {}, again)
    BY <1>4
  <2>4. Underway(RunTip(ran[k], dos[k + 1]), k + 1, dos, inState # {}, again)
    BY <1>4, <2>3, RunTipUnderway
  <2> QED  BY <2>2, <2>4
<1> HIDE DEF Good
<1>5. Bad = {}
  <2> SUFFICES ASSUME Bad # {} PROVE FALSE
    OBVIOUS
  <2>1. PICK k \in Bad : \A l \in Bad : k <= l
    BY FirstExists
  <2>2. k # 0 /\ k \in Nat /\ k <= Len(dos) /\ ~Good(k)
    BY <1>3, <2>1
  <2>3. k - 1 \in Nat /\ k - 1 < Len(dos) /\ k - 1 \notin Bad
    <3>1. k - 1 \in Nat /\ k - 1 < Len(dos) /\ ~(k <= k - 1)
      BY <1>1, <2>2
    <3> QED  BY <2>1, <3>1
  <2>4. Good(k - 1)
    BY <2>3, <1>1
  <2>5. Good((k - 1) + 1)
    BY <1>4, <2>3, <2>4
  <2>6. (k - 1) + 1 = k
    BY <2>2
  <2> QED  BY <2>2, <2>5, <2>6
<1>6. Good(Len(dos))
  BY <1>1, <1>5
<1> QED  BY <1>2, <1>6 DEF Good

LEMMA EndOfTipInv ==
  ASSUME TipInv, EndOfTip
  PROVE  TipInv'
<1> DEFINE held == inState # {}
           start == [Tip EXCEPT !.fades = <<>>]
           u == RunTips(start, fades)
<1>1. TooltipTypeOK /\ Coherent(Tip, held, bounced) /\ Tip \in Tips /\ transition \in BOOLEAN
      /\ fades \in Seq({"shown", "hidden"}) /\ Len(fades) \in Nat /\ held \in BOOLEAN
  BY TipTyped DEF TipInv, TooltipTypeOK
<1>2. /\ fades # <<>> /\ TipBecomes(u) /\ transition' = transition /\ triggers' = triggers
      /\ delayed' = delayed /\ inState' = inState /\ bounced' = bounced
  BY DEF EndOfTip
<1>3. /\ start \in Tips /\ start.hoverState = hoverState /\ start.timeout = timeout /\ start.fades = <<>>
      /\ start.tipIn = tipIn /\ start.attached = attached
  <2>1. <<>> \in Seq({"shown", "hidden"})
    OBVIOUS
  <2> HIDE DEF held, u
  <2> QED  BY <1>1, <2>1 DEF Tips, Tip
<1>4. Underway(start, 0, fades, held, bounced)
  <2>1. Tip.hoverState = hoverState /\ Tip.timeout = timeout /\ Tip.tipIn = tipIn /\ Tip.attached = attached
        /\ Tip.fades = fades
    BY DEF Tip
  <2> HIDE DEF held, start
  <2>2. (held => hoverState # "out") /\ (~held => Released(Tip)) /\ (~bounced => Stays(Tip) /\ (held => Due(Tip)))
    BY <1>1, <2>1 DEF Coherent
  <2>3. Instant(start)
    BY <1>3 DEF Instant
  <2>4. ~bounced => Kept(start, fades, held)
    <3>1. CASE tipIn
      BY <1>3, <2>1, <2>2, <3>1 DEF Kept, Stays
    <3>2. CASE ~tipIn
      BY <1>2, <1>3, <2>1, <2>2, <3>2 DEF Kept, Due
    <3> QED  BY <3>1, <3>2
  <2>5. ~held /\ hoverState = "null" => ~attached \/ (0 < Len(fades) /\ fades[Len(fades)] = "hidden")
    <3>1. 0 < Len(fades)
      BY <1>1, <1>2
    <3> QED  BY <2>1, <2>2, <3>1 DEF Released, Leaving
  <2>6. ~held => hoverState # "in" /\ (hoverState = "out" => timeout = "hide")
    BY <2>1, <2>2 DEF Released
  <2> QED  BY <1>3, <2>2, <2>3, <2>4, <2>5, <2>6 DEF Underway
<1>5. Underway(u, Len(fades), fades, held, bounced)
  <2> HIDE DEF start
  <2> QED  BY <1>1, <1>4, RunTipsUnderway
<1> HIDE DEF start, u
<1>6. u \in Tips /\ Coherent(u, held, bounced)
  <2> HIDE DEF held
  <2>1. (held => u.hoverState # "out") /\ (~held => Released(u)) /\ Instant(u) /\ u \in Tips
    BY <1>1, <1>5 DEF Underway, Released
  <2>2. ~bounced => Stays(u) /\ (held => Due(u))
    BY <1>5 DEF Underway, Kept, Stays, Due
  <2> QED  BY <2>1, <2>2 DEF Coherent
<1>7. Coherent(u, inState' # {}, bounced')
  BY <1>2, <1>6
<1> QED  BY <1>1, <1>2, <1>6, <1>7, TipBecomesInv DEF TooltipTypeOK

-----------------------------------------------------------------------------
LEMMA TipInitInv == TooltipInit => TipInv
<1> SUFFICES ASSUME TooltipInit PROVE TipInv
  OBVIOUS
<1>1. TooltipTypeOK
  <2>1. <<>> \in Seq({"shown", "hidden"}) /\ {FALSE} \subseteq BOOLEAN
    OBVIOUS
  <2>2. {fade, tipIn, attached, bounced} = {FALSE}
    BY DEF TooltipInit
  <2>3. /\ transition \in BOOLEAN /\ delayed \subseteq {"show", "hide"} /\ inState \subseteq triggers
        /\ hoverState = "null" /\ timeout = "none" /\ fades = <<>>
    BY DEF TooltipInit, TransitionInit
  <2> QED  BY <2>1, <2>2, <2>3 DEF TooltipTypeOK
<1>2. Tip.hoverState = "null" /\ Tip.tipIn = FALSE /\ Tip.attached = FALSE /\ Tip.fades = <<>> /\ inState = {}
  BY DEF TooltipInit, Tip
<1>3. Released(Tip) /\ Instant(Tip) /\ Stays(Tip)
  BY <1>2 DEF Released, Instant, Stays
<1>4. Coherent(Tip, inState # {}, bounced)
  BY <1>2, <1>3 DEF Coherent
<1> QED  BY <1>1, <1>4 DEF TipInv

LEMMA TipStepInv == TipInv /\ [TooltipNext]_tooltipVars => TipInv'
<1> SUFFICES ASSUME TipInv, [TooltipNext]_tooltipVars PROVE TipInv'
  OBVIOUS
<1>1. ASSUME NEW trigger, Enter(trigger) \/ Leave(trigger) PROVE TipInv'
  BY <1>1, EnterInv, LeaveInv
<1>2. CASE ClickTip
  BY <1>2, ClickTipInv
<1>3. CASE Timeout
  BY <1>3, TimeoutInv
<1>4. CASE EndOfTip
  BY <1>4, EndOfTipInv
<1>5. CASE UNCHANGED tooltipVars
  BY <1>5 DEF tooltipVars, TipInv, TooltipTypeOK, Coherent, Tip, Instant, Released, Leaving, Stays, Due
<1> QED  BY <1>1, <1>2, <1>3, <1>4, <1>5 DEF TooltipNext

LEMMA TipInvGivesFollows == TipInv => TipFollows
<1> SUFFICES ASSUME TipInv, timeout = "none", fades = <<>>
             PROVE  (inState # {} /\ ~bounced => attached /\ tipIn) /\ (inState = {} => ~attached)
  BY DEF TipFollows
<1>1. Coherent(Tip, inState # {}, bounced) /\ hoverState \in {"in", "out", "null"}
  BY DEF TipInv, TooltipTypeOK
<1>2. Tip.hoverState = hoverState /\ Tip.timeout = timeout /\ Tip.tipIn = tipIn /\ Tip.attached = attached
      /\ Tip.fades = fades
  BY DEF Tip
<1>3. CASE inState = {}
  BY <1>1, <1>2, <1>3 DEF Coherent, Released, Leaving
<1>4. CASE inState # {}
  BY <1>1, <1>2, <1>4 DEF Coherent, Stays, Due
<1> QED  BY <1>3, <1>4

\* bootstrap.js:1481: at rest the tip is there if and only if something holds
\* it, whatever events, delays and fades overlapped, unless it was entered
\* again while it faded out.
THEOREM TipFollowsItsTriggers == TooltipSpec => []TipFollows
BY TipInitInv, TipStepInv, TipInvGivesFollows, PTL DEF TooltipSpec
=============================================================================
