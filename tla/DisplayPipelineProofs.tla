------------------------ MODULE DisplayPipelineProofs ------------------------
(***************************************************************************)
(* Proofs about DisplayPipeline, for every value of its constants.         *)
(*                                                                         *)
(* Type correctness comes first.  Then the inductive invariant of the      *)
(* connections: a display is sent only frames that were rendered for its   *)
(* canvas, from a stream whose process is alive, whatever the order in     *)
(* which builds, mode changes, timeouts and reconnects meet.  On it rest   *)
(* the invariants of what the displays show: the acknowledged program in   *)
(* its own text, and the acknowledged background; and what no mode change  *)
(* touches, the displays after the first.  Last, tick loop and listener    *)
(* implement ModeControl, what the D-Bus calls rely on.                    *)
(***************************************************************************)
EXTENDS DisplayPipeline, SequenceTheorems, TLAPS

\* The only commit in the channel is the one the listener waits for.
CommitAwaited ==
    \A i \in 1..Len(resultQ) : resultQ[i].commit =>
        /\ lpc = "commit"
        /\ \A j \in 1..Len(resultQ) : resultQ[j].commit => i = j

------------------------------------------------------------------------------
(* Lemmas about the operators on sources *)

\* A function on 1..n is a sequence of length n.
LEMMA FunctionIsSequence ==
    ASSUME NEW S, NEW n \in Nat, NEW t \in [1..n -> S]
    PROVE  t \in Seq(S) /\ Len(t) = n /\ DOMAIN t = 1..n
  <1>1. t \in Seq(S)
    BY SeqDef
  <1> QED
    BY <1>1, LenProperties

\* Setting a background changes nothing else of a source.
LEMMA SetBackgroundFacts ==
    ASSUME NEW s \in Source, NEW image \in Images
    PROVE  /\ SetBackground(s, image) \in Source
           /\ SetBackground(s, image).prog = s.prog
           /\ SetBackground(s, image).text = s.text
           /\ SetBackground(s, image).dim = s.dim
           /\ SetBackground(s, image).proc = s.proc
  BY DEF SetBackground, Source

\* What it changes is what a layout that can show a background shows.
LEMMA SetBackgroundShown ==
    ASSUME NEW s \in Source, NEW image \in Images
    PROVE  /\ [SetBackground(s, image) EXCEPT !.bg = None] = [s EXCEPT !.bg = None]
           /\ TakesBackground(s.prog) => SetBackground(s, image).bg = image
  BY DEF SetBackground, Source

\* A sequence of sources keeps its length, and each source all but its
\* background, whether the first refusal stops the loop ...
LEMMA SetBackgroundsFacts ==
    ASSUME NEW ss \in Seq(Source), NEW image \in Images
    PROVE  /\ SetBackgrounds(ss, image) \in Seq(Source)
           /\ DOMAIN SetBackgrounds(ss, image) = DOMAIN ss
           /\ Len(SetBackgrounds(ss, image)) = Len(ss)
           /\ \A i \in DOMAIN ss :
                 /\ SetBackgrounds(ss, image)[i].prog = ss[i].prog
                 /\ SetBackgrounds(ss, image)[i].text = ss[i].text
                 /\ SetBackgrounds(ss, image)[i].dim = ss[i].dim
                 /\ SetBackgrounds(ss, image)[i].proc = ss[i].proc
  <1> DEFINE t == SetBackgrounds(ss, image)
  <1>1. \A i \in DOMAIN ss : ss[i] \in Source
    OBVIOUS
  <1>2. /\ DOMAIN t = DOMAIN ss
        /\ \A i \in DOMAIN ss : t[i] \in {ss[i], SetBackground(ss[i], image)}
    BY DEF SetBackgrounds
  <1>3. \A i \in DOMAIN ss : /\ t[i] \in Source
                            /\ t[i].prog = ss[i].prog
                            /\ t[i].text = ss[i].text
                            /\ t[i].dim = ss[i].dim
                            /\ t[i].proc = ss[i].proc
    BY <1>1, <1>2, SetBackgroundFacts
  <1>4. Len(ss) \in Nat /\ t \in [1..Len(ss) -> Source]
    BY <1>3, LenProperties DEF SetBackgrounds
  <1>5. t \in Seq(Source) /\ Len(t) = Len(ss)
    BY <1>4, FunctionIsSequence
  <1> QED
    BY <1>2, <1>3, <1>5

\* ... or refusals are passed over.
LEMMA TrySetBackgroundsFacts ==
    ASSUME NEW ss \in Seq(Source), NEW image \in Images
    PROVE  /\ TrySetBackgrounds(ss, image) \in Seq(Source)
           /\ DOMAIN TrySetBackgrounds(ss, image) = DOMAIN ss
           /\ Len(TrySetBackgrounds(ss, image)) = Len(ss)
           /\ \A i \in DOMAIN ss :
                 /\ TrySetBackgrounds(ss, image)[i].prog = ss[i].prog
                 /\ TrySetBackgrounds(ss, image)[i].text = ss[i].text
                 /\ TrySetBackgrounds(ss, image)[i].dim = ss[i].dim
                 /\ TrySetBackgrounds(ss, image)[i].proc = ss[i].proc
  <1> DEFINE t == TrySetBackgrounds(ss, image)
  <1>1. \A i \in DOMAIN ss : ss[i] \in Source
    OBVIOUS
  <1>2. /\ DOMAIN t = DOMAIN ss
        /\ \A i \in DOMAIN ss : t[i] \in {ss[i], SetBackground(ss[i], image)}
    BY DEF TrySetBackgrounds
  <1>3. \A i \in DOMAIN ss : /\ t[i] \in Source
                            /\ t[i].prog = ss[i].prog
                            /\ t[i].text = ss[i].text
                            /\ t[i].dim = ss[i].dim
                            /\ t[i].proc = ss[i].proc
    BY <1>1, <1>2, SetBackgroundFacts
  <1>4. Len(ss) \in Nat /\ t \in [1..Len(ss) -> Source]
    BY <1>3, LenProperties DEF TrySetBackgrounds
  <1>5. t \in Seq(Source) /\ Len(t) = Len(ss)
    BY <1>4, FunctionIsSequence
  <1> QED
    BY <1>2, <1>3, <1>5

\* An image that every source accepts is shown by every layout that can ...
LEMMA SetBackgroundsShown ==
    ASSUME NEW ss \in Seq(Source), NEW image \in Images
    PROVE  \A i \in DOMAIN ss :
             /\ [SetBackgrounds(ss, image)[i] EXCEPT !.bg = None] = [ss[i] EXCEPT !.bg = None]
             /\ AllAccept(ss, image) /\ TakesBackground(ss[i].prog) =>
                   SetBackgrounds(ss, image)[i].bg = image
  <1> DEFINE t == SetBackgrounds(ss, image)
  <1>1. \A i \in DOMAIN ss : ss[i] \in Source
    OBVIOUS
  <1>2. \A i \in DOMAIN ss : [t[i] EXCEPT !.bg = None] = [ss[i] EXCEPT !.bg = None]
    <2>1. \A i \in DOMAIN ss : t[i] \in {ss[i], SetBackground(ss[i], image)}
      BY DEF SetBackgrounds
    <2> QED
      BY <1>1, <2>1, SetBackgroundShown
  <1>3. Len(ss) \in Nat /\ DOMAIN ss = 1..Len(ss)
    BY LenProperties
  <1>4. ASSUME AllAccept(ss, image), NEW i \in DOMAIN ss, TakesBackground(ss[i].prog)
        PROVE  t[i].bg = image
    <2>1. \A j \in 1..i : Accepts(ss[j], image)
      BY <1>3, <1>4 DEF AllAccept
    <2>2. t[i] = SetBackground(ss[i], image)
      BY <2>1 DEF SetBackgrounds
    <2>3. SetBackground(ss[i], image).bg = image
      BY <1>1, <1>4, SetBackgroundShown
    <2> QED
      BY <2>2, <2>3
  <1> QED
    BY <1>2, <1>4

\* ... either way.
LEMMA TrySetBackgroundsShown ==
    ASSUME NEW ss \in Seq(Source), NEW image \in Images
    PROVE  \A i \in DOMAIN ss :
             /\ [TrySetBackgrounds(ss, image)[i] EXCEPT !.bg = None] = [ss[i] EXCEPT !.bg = None]
             /\ AllAccept(ss, image) /\ TakesBackground(ss[i].prog) =>
                   TrySetBackgrounds(ss, image)[i].bg = image
  <1> DEFINE t == TrySetBackgrounds(ss, image)
  <1>1. \A i \in DOMAIN ss : ss[i] \in Source
    OBVIOUS
  <1>2. \A i \in DOMAIN ss : [t[i] EXCEPT !.bg = None] = [ss[i] EXCEPT !.bg = None]
    <2>1. \A i \in DOMAIN ss : t[i] \in {ss[i], SetBackground(ss[i], image)}
      BY DEF TrySetBackgrounds
    <2> QED
      BY <1>1, <2>1, SetBackgroundShown
  <1>4. ASSUME AllAccept(ss, image), NEW i \in DOMAIN ss, TakesBackground(ss[i].prog)
        PROVE  t[i].bg = image
    <2>1. t[i] = SetBackground(ss[i], image)
      BY <1>4 DEF AllAccept, TrySetBackgrounds
    <2>2. SetBackground(ss[i], image).bg = image
      BY <1>1, <1>4, SetBackgroundShown
    <2> QED
      BY <2>1, <2>2
  <1> QED
    BY <1>2, <1>4

\* The mode handler builds a source for the program, canvas and Xvfb process
\* it is given; a layout has no process.
LEMMA MakeSourceFacts ==
    ASSUME NEW prog \in Programs, NEW dim \in Dims, NEW image \in Images,
           NEW proc \in Nat
    PROVE  LET s == MakeSource(prog, dim, image, proc) IN
             /\ s \in Source /\ s.prog = prog /\ s.text = prog /\ s.dim = dim
             /\ prog \in Commands => s.proc = proc
             /\ prog \notin Commands => s.proc = 0
  <1> DEFINE bare == [prog |-> prog, text |-> prog, dim |-> dim, bg |-> None,
                      proc |-> IF prog \in Commands THEN proc ELSE 0]
  <1>1. bare \in Source
    BY DEF Source, Images
  <1> QED
    BY <1>1, SetBackgroundFacts DEF MakeSource

\* For a connection, one source per output, the first running the program the
\* listener was told of.
LEMMA MakeSourcesFacts ==
    ASSUME NEW first \in Programs, NEW dims \in Canvases, NEW image \in Images,
           NEW proc \in Nat
    PROVE  LET ss == MakeSources(first, dims, image, proc) IN
             /\ ss \in [Outputs -> Source] /\ ss \in Seq(Source)
             /\ DOMAIN ss = Outputs /\ Len(ss) = SourceCount
             /\ \A i \in Outputs : ss[i].dim = dims[i]
             /\ ss[1].prog = first /\ ss[1].text = first
             /\ first \in Commands => ss[1].proc = proc
             /\ first \notin Commands => ss[1].proc = 0
  <1> DEFINE ss == MakeSources(first, dims, image, proc)
  <1>1. Outputs = 1..SourceCount /\ SourceCount \in Nat /\ 1 \in Outputs
    BY CanvasAssumption DEF Outputs
  <1>2. \A i \in Outputs : ProgramOf(i, first) \in Programs /\ dims[i] \in Dims
    BY ProgramAssumption DEF ProgramOf, Programs, Canvases
  <1>3. ss = [i \in Outputs |-> MakeSource(ProgramOf(i, first), dims[i], image, proc)]
    BY DEF MakeSources
  <1>4. \A i \in Outputs : ss[i] \in Source /\ ss[i].dim = dims[i]
    BY <1>2, <1>3, MakeSourceFacts
  <1>5. ss[1] = MakeSource(first, dims[1], image, proc)
    BY <1>1, <1>3 DEF ProgramOf
  <1>6. /\ ss[1].prog = first /\ ss[1].text = first
        /\ first \in Commands => ss[1].proc = proc
        /\ first \notin Commands => ss[1].proc = 0
    BY <1>1, <1>2, <1>5, MakeSourceFacts
  <1>7. ss \in [Outputs -> Source] /\ ss \in Seq(Source) /\ Len(ss) = SourceCount
    BY <1>1, <1>3, <1>4
  <1> QED
    BY <1>3, <1>4, <1>6, <1>7

------------------------------------------------------------------------------
(* Type correctness *)

\* A daemon that starts with open displays has a source for each.
StartShape == tpc = "startConnected" => DOMAIN sources = Outputs

TypeInv == TypeOK /\ StartShape /\ CommitAwaited

LEMMA InitType == Init => TypeInv
  <1> SUFFICES ASSUME Init PROVE TypeInv
    OBVIOUS
  <1>1. PICK dims \in Canvases :
          /\ sources = TrySetBackgrounds(MakeSources(lProg, dims, None, 1),
                                         cachedBg)
          /\ lDim = dims[1]
    BY DEF Init, InitialSources
  <1>2. lProg \in Programs /\ cachedBg \in Images /\ None \in Images
    BY ProgramAssumption DEF Init, Images
  <1>3. sources \in Seq(Source) /\ DOMAIN sources = Outputs
    BY <1>1, <1>2, MakeSourcesFacts, TrySetBackgroundsFacts
  <1>4. NoConn \in Conn
    BY CanvasAssumption DEF NoConn, Conn, Canvases
  <1>5. TickTypeOK
    BY <1>2, <1>3, <1>4 DEF Init, TickTypeOK, TickPhases
  <1>6. lDim \in Dims
    BY <1>1, CanvasAssumption DEF Canvases, Outputs
  <1>7. ListenerTypeOK
    BY <1>2, <1>6 DEF Init, InitiallyTracked, ListenerTypeOK, ListenerPhases, ModePhases, BackgroundPhases
  <1>8. ChannelTypeOK
    BY EmptySeq DEF Init, ChannelTypeOK
  <1> QED
    BY <1>3, <1>5, <1>7, <1>8 DEF Init, TypeInv, TypeOK, StartShape, CommitAwaited

\* The steps that move the tick loop on and change nothing else.
TickMovesOn ==
    \/ StartDisconnected \/ RevisionsDrained \/ ResultsDrained
    \/ BackgroundsDrained \/ SkipDiscovery \/ SendFrames

LEMMA TickMovesOnFacts ==
    ASSUME TickMovesOn
    PROVE  /\ UNCHANGED <<connVars, sourceVars, listenerVars, channelVars,
                          clientVars, faults>>
           /\ tpc' \in TickPhases \ {"startConnected", "startDisconnected", "stopped"}
           /\ tpc # "stopped"
  BY DEF TickMovesOn, StartDisconnected, RevisionsDrained, ResultsDrained,
         BackgroundsDrained, SkipDiscovery, SendFrames, TickPhases

\* The head of a channel and what is left of it keep the channel's type.
LEMMA ResultHead ==
    ASSUME TypeOK, resultQ # <<>>
    PROVE  /\ Head(resultQ) \in Result /\ Head(resultQ) = resultQ[1]
           /\ Tail(resultQ) \in Seq(Result)
           /\ Len(resultQ) \in Nat /\ Len(resultQ) >= 1
           /\ Len(Tail(resultQ)) = Len(resultQ) - 1
           /\ \A i \in 1..Len(Tail(resultQ)) : Tail(resultQ)[i] = resultQ[i + 1]
  BY HeadTailProperties, EmptySeq DEF TypeOK, ChannelTypeOK

LEMMA RequestHead ==
    ASSUME TypeOK, buildQ # <<>>
    PROVE  /\ Head(buildQ) \in Request /\ Head(buildQ) = buildQ[1]
           /\ Tail(buildQ) \in Seq(Request)
           /\ Len(buildQ) \in Nat /\ Len(buildQ) >= 1
           /\ Len(Tail(buildQ)) = Len(buildQ) - 1
           /\ \A i \in 1..Len(Tail(buildQ)) : Tail(buildQ)[i] = buildQ[i + 1]
  BY HeadTailProperties, EmptySeq DEF TypeOK, ChannelTypeOK

LEMMA ChangeHead ==
    ASSUME TypeOK, modeQ # <<>>
    PROVE  Head(modeQ) \in Change /\ Tail(modeQ) \in Seq(Change)
  BY HeadTailProperties DEF TypeOK, ChannelTypeOK

\* Installing a result leaves a sequence of sources.
LEMMA InstalledType ==
    ASSUME TypeOK, NEW m \in Result, m.ok
    PROVE  /\ m.sources \in Seq(Source) /\ Len(m.sources) >= 1
           /\ Installed(m) \in Seq(Source)
  <1> DEFINE built == IF cachedBg = None THEN m.sources
                      ELSE SetBackgrounds(m.sources, cachedBg)
  <1>1. SourceCount \in Nat /\ SourceCount >= 1 /\ Outputs = 1..SourceCount
    BY CanvasAssumption DEF Outputs
  <1>2. m.sources \in Seq(Source) /\ Len(m.sources) >= 1
    <2>1. m.sources \in [Outputs -> Source] \/ m.sources \in [1..1 -> Source]
      BY DEF Result
    <2>2. CASE m.sources \in [Outputs -> Source]
      <3>1. m.sources \in [1..SourceCount -> Source]
        BY <1>1, <2>2
      <3> QED
        BY <1>1, <3>1, FunctionIsSequence
    <2>3. CASE m.sources \in [1..1 -> Source]
      <3>1. PICK n \in Nat : n = 1
        OBVIOUS
      <3>2. m.sources \in [1..n -> Source]
        BY <2>3, <3>1
      <3>3. m.sources \in Seq(Source) /\ Len(m.sources) = n
        BY <3>2, FunctionIsSequence
      <3> QED
        BY <3>1, <3>3
    <2> QED
      BY <2>1, <2>2, <2>3
  <1>3. built \in Seq(Source) /\ Len(built) >= 1
    BY <1>2, SetBackgroundsFacts DEF TypeOK, TickTypeOK
  <1>4. built[1] \in Source
    BY <1>3, ElementOfSeq
  <1>5. ASSUME Len(sources) > 1
        PROVE  [sources EXCEPT ![1] = built[1]] \in Seq(Source)
    BY <1>4, <1>5, ExceptSeq, LenProperties DEF TypeOK, TickTypeOK
  <1> QED
    BY <1>2, <1>3, <1>5 DEF Installed

\* The tick loop takes the first result and answers it when it is a commit.
ResultConsumed ==
    /\ resultQ # <<>> /\ resultQ' = Tail(resultQ)
    /\ \E accepted \in BOOLEAN : Answer(Head(resultQ), accepted)
    /\ UNCHANGED <<op, viewVars, procVars, buildQ, modeQ, watches, clientVars,
                   faults>>

LEMMA ResultConsumedType ==
    ASSUME TypeInv, ResultConsumed
    PROVE  ListenerTypeOK' /\ ChannelTypeOK' /\ CommitAwaited'
  <1> DEFINE m == Head(resultQ)
  <1>a. TypeOK /\ ListenerTypeOK /\ ChannelTypeOK /\ CommitAwaited
    BY DEF TypeInv, TypeOK
  <1>1. /\ m = resultQ[1] /\ resultQ' \in Seq(Result)
        /\ Len(resultQ) \in Nat /\ Len(resultQ) >= 1
        /\ Len(resultQ') = Len(resultQ) - 1
        /\ \A i \in 1..Len(resultQ') : resultQ'[i] = resultQ[i + 1]
    BY <1>a, ResultHead DEF ResultConsumed
  <1>2. m.commit => lpc = "commit" /\ lpc' = "commitDone" /\ ack' \in BOOLEAN
    BY <1>a, <1>1 DEF ResultConsumed, Answer, CommitAwaited
  <1>3. ~m.commit => UNCHANGED <<lpc, ack>>
    BY DEF ResultConsumed, Answer
  <1>4. ListenerTypeOK'
    BY <1>a, <1>2, <1>3 DEF ResultConsumed, viewVars, procVars, ListenerTypeOK,
       ListenerPhases, ModePhases, BackgroundPhases
  <1>5. ChannelTypeOK'
    BY <1>a, <1>1 DEF ResultConsumed, watches, clientVars, ChannelTypeOK
  <1>6. CommitAwaited'
    <2> SUFFICES ASSUME NEW i \in 1..Len(resultQ'), resultQ'[i].commit
                 PROVE  /\ lpc' = "commit"
                        /\ \A j \in 1..Len(resultQ') : resultQ'[j].commit => i = j
      BY DEF CommitAwaited
    <2>1. i + 1 \in 1..Len(resultQ) /\ resultQ[i + 1].commit
      BY <1>1
    <2>2. lpc = "commit" /\ \A j \in 1..Len(resultQ) : resultQ[j].commit => i + 1 = j
      BY <1>a, <2>1 DEF CommitAwaited
    <2>3. ~m.commit
      BY <1>1, <2>2
    <2>4. ASSUME NEW j \in 1..Len(resultQ'), resultQ'[j].commit PROVE i = j
      <3>1. j + 1 \in 1..Len(resultQ) /\ resultQ[j + 1].commit
        BY <1>1, <2>4
      <3> QED
        BY <2>2, <3>1
    <2> QED
      BY <1>3, <2>2, <2>3, <2>4
  <1> QED
    BY <1>4, <1>5, <1>6

\* The channel after a send.
LEMMA ResultSent ==
    ASSUME TypeOK, NEW m \in Result, SendResult(m)
    PROVE  /\ resultQ' \in Seq(Result)
           /\ Len(resultQ) \in Nat /\ Len(resultQ') = Len(resultQ) + 1
           /\ \A i \in 1..Len(resultQ) : resultQ'[i] = resultQ[i]
           /\ resultQ'[Len(resultQ) + 1] = m
  BY AppendProperties DEF SendResult, TypeOK, ChannelTypeOK

LEMMA CommitAwaitedAfterSend ==
    ASSUME TypeOK, CommitAwaited, NEW m \in Result, SendResult(m),
           IF m.commit THEN lpc # "commit" /\ lpc' = "commit" ELSE lpc' = lpc
    PROVE  CommitAwaited'
  <1>1. /\ Len(resultQ) \in Nat /\ Len(resultQ') = Len(resultQ) + 1
        /\ \A i \in 1..Len(resultQ) : resultQ'[i] = resultQ[i]
        /\ resultQ'[Len(resultQ) + 1] = m
    BY ResultSent
  <1>2. CASE m.commit
    <2>1. \A i \in 1..Len(resultQ) : ~resultQ[i].commit
      BY <1>2 DEF CommitAwaited
    <2>2. \A i \in 1..Len(resultQ') : resultQ'[i].commit => i = Len(resultQ) + 1
      BY <1>1, <2>1
    <2> QED
      BY <1>2, <2>2 DEF CommitAwaited
  <1>3. CASE ~m.commit
    <2>1. \A i \in 1..Len(resultQ') : resultQ'[i].commit =>
             i \in 1..Len(resultQ) /\ resultQ[i].commit
      BY <1>1, <1>3
    <2> QED
      BY <1>3, <2>1 DEF CommitAwaited
  <1> QED
    BY <1>2, <1>3

\* A build for the first source leaves a canvas and a process number.
LEMMA FirstSourceBuiltType ==
    ASSUME TypeOK, NEW dims \in Canvases, FirstSourceBuilt(dims)
    PROVE  lDim' \in Dims /\ handle' \in Nat /\ nextProc' \in Nat
  <1>1. dims[1] \in Dims
    BY CanvasAssumption DEF Canvases, Outputs
  <1> QED
    BY <1>1 DEF FirstSourceBuilt, TypeOK, ListenerTypeOK

LEMMA ListenerType == TypeInv /\ ListenerStep => TypeInv'
  <1> SUFFICES ASSUME TypeInv, ListenerStep PROVE TypeInv'
    OBVIOUS
  <1>a. TypeOK /\ TickTypeOK /\ ListenerTypeOK /\ ChannelTypeOK
        /\ StartShape /\ CommitAwaited
    BY DEF TypeInv, TypeOK
  <1> USE <1>a DEF TypeOK, TypeInv
  <1> USE DEF connVars, sourceVars, tickVars, syncVars, viewVars, procVars,
              listenerVars, watches, channelVars, clientVars
  <1>b. TickTypeOK' /\ StartShape'
    <2>1. UNCHANGED tickVars
      BY DEF ListenerStep, BuildSources, FirstBuildFails, LaterBuildFails, TakeLayout,
         TakeStream, TakeBackground, RefuseModeChange, RecordOffline, SendCommit,
         CommitAccepted, CommitRefused, BackgroundAccepted, BackgroundRefused
    <2> QED
      BY <2>1 DEF TickTypeOK, StartShape
  <1>1. CASE BuildSources
    <2> DEFINE r == Head(buildQ)
               m == [gen |-> r.gen, rev |-> lRev, ok |-> TRUE, commit |-> FALSE,
                     sources |-> MakeSources(lProg, r.dims, lBg, nextProc)]
    <2>1. r.gen \in Nat /\ r.dims \in Canvases /\ buildQ' \in Seq(Request)
      BY <1>1, RequestHead DEF BuildSources, Request
    <2>2. m.sources \in [Outputs -> Source]
      BY <2>1, MakeSourcesFacts DEF ListenerTypeOK
    <2>3. m \in Result
      BY <2>1, <2>2 DEF Result, ListenerTypeOK
    <2>4. SendResult(m)
      BY <1>1 DEF BuildSources
    <2>5. resultQ' \in Seq(Result) /\ CommitAwaited'
      BY <1>1, <2>3, <2>4, ResultSent, CommitAwaitedAfterSend DEF BuildSources
    <2>6. lDim' \in Dims /\ handle' \in Nat /\ nextProc' \in Nat
      BY <1>1, <2>1, FirstSourceBuiltType DEF BuildSources
    <2>7. ListenerTypeOK'
      BY <1>1, <2>6 DEF BuildSources, ListenerTypeOK
    <2>8. ChannelTypeOK'
      BY <1>1, <2>1, <2>5 DEF BuildSources, ChannelTypeOK
    <2> QED
      BY <1>b, <2>5, <2>7, <2>8
  <1>2. CASE FirstBuildFails \/ LaterBuildFails
    <2> DEFINE r == Head(buildQ)
    <2>1. r.gen \in Nat /\ r.dims \in Canvases /\ buildQ' \in Seq(Request)
      BY <1>2, RequestHead DEF FirstBuildFails, LaterBuildFails, Request
    <2>2. FailedBuild(r) \in Result /\ ~FailedBuild(r).commit
      BY <2>1 DEF FailedBuild, Result, ListenerTypeOK
    <2>3. SendResult(FailedBuild(r))
      BY <1>2 DEF FirstBuildFails, LaterBuildFails
    <2>4. resultQ' \in Seq(Result) /\ CommitAwaited'
      BY <1>2, <2>2, <2>3, ResultSent, CommitAwaitedAfterSend
         DEF FirstBuildFails, LaterBuildFails
    <2>5. lDim' \in Dims /\ handle' \in Nat /\ nextProc' \in Nat
      <3>1. CASE FirstBuildFails
        BY <3>1 DEF FirstBuildFails, ListenerTypeOK
      <3>2. CASE LaterBuildFails
        BY <2>1, <3>2, FirstSourceBuiltType DEF LaterBuildFails
      <3> QED
        BY <1>2, <3>1, <3>2
    <2>6. ListenerTypeOK'
      BY <1>2, <2>5 DEF FirstBuildFails, LaterBuildFails, ListenerTypeOK
    <2>7. faults' \in Nat
      BY <1>2 DEF FirstBuildFails, LaterBuildFails, FailureOf, ChannelTypeOK
    <2>8. ChannelTypeOK'
      BY <1>2, <2>1, <2>4, <2>7 DEF FirstBuildFails, LaterBuildFails, ChannelTypeOK
    <2> QED
      BY <1>b, <2>4, <2>6, <2>8
  <1>3. CASE TakeLayout
    <2> DEFINE change == Head(modeQ)
               s == MakeSource(change.prog, lDim, lBg, 0)
    <2>1. change \in ModeChange /\ change.prog \in Programs /\ modeQ' \in Seq(Change)
      BY <1>3, ChangeHead DEF TakeLayout, Change, ModeChange, BackgroundChange, Programs
    <2>2. s \in Source
      BY <2>1, MakeSourceFacts DEF ListenerTypeOK
    <2>3. op' \in ModeOp
      BY <1>3, <2>1, <2>2 DEF TakeLayout, ModeOp, TickTypeOK
    <2>4. ListenerTypeOK'
      BY <1>3, <2>3 DEF TakeLayout, ListenerTypeOK, ListenerPhases, ModePhases,
                        BackgroundPhases
    <2>5. ChannelTypeOK' /\ CommitAwaited'
      BY <1>3, <2>1 DEF TakeLayout, ChannelTypeOK, CommitAwaited
    <2> QED
      BY <1>b, <2>4, <2>5
  <1>4. CASE TakeStream
    <2> DEFINE change == Head(modeQ)
               s == MakeSource(change.prog, lDim, lBg, nextProc)
    <2>1. change \in ModeChange /\ change.prog \in Programs /\ modeQ' \in Seq(Change)
      BY <1>4, ChangeHead DEF TakeStream, Change, ModeChange, BackgroundChange, Programs
    <2>2. s \in Source
      BY <2>1, MakeSourceFacts DEF ListenerTypeOK
    <2>3. op' \in ModeOp
      BY <1>4, <2>1, <2>2 DEF TakeStream, ModeOp, TickTypeOK
    <2>4. ListenerTypeOK'
      BY <1>4, <2>3 DEF TakeStream, ListenerTypeOK, ListenerPhases, ModePhases,
                        BackgroundPhases
    <2>5. ChannelTypeOK' /\ CommitAwaited'
      BY <1>4, <2>1 DEF TakeStream, ChannelTypeOK, CommitAwaited
    <2> QED
      BY <1>b, <2>4, <2>5
  <1>5. CASE TakeBackground
    <2>1. Head(modeQ) \in BackgroundChange /\ modeQ' \in Seq(Change)
      BY <1>5, ChangeHead DEF TakeBackground, Change, ModeChange
    <2>2. op' \in BackgroundOp
      BY <1>5, <2>1 DEF TakeBackground, BackgroundOp
    <2>3. ListenerTypeOK'
      BY <1>5, <2>2 DEF TakeBackground, ListenerTypeOK, ListenerPhases, ModePhases,
                        BackgroundPhases
    <2>4. ChannelTypeOK' /\ CommitAwaited'
      BY <1>5, <2>1 DEF TakeBackground, ChannelTypeOK, CommitAwaited
    <2> QED
      BY <1>b, <2>3, <2>4
  <1>6. CASE RefuseModeChange
    <2>1. modeQ' \in Seq(Change)
      BY <1>6, ChangeHead DEF RefuseModeChange
    <2>2. faults' \in Nat
      BY <1>6 DEF RefuseModeChange, FailureOf, ChannelTypeOK
    <2>3. ListenerTypeOK' /\ CommitAwaited'
      BY <1>6 DEF RefuseModeChange, RefuseChange, ListenerTypeOK, CommitAwaited,
                  ListenerPhases, ModePhases, BackgroundPhases
    <2>4. ChannelTypeOK'
      BY <1>6, <2>1, <2>2 DEF RefuseModeChange, RefuseChange, Reply, ChannelTypeOK
    <2> QED
      BY <1>b, <2>3, <2>4
  <1>7. CASE SendCommit
    <2> DEFINE m == [gen |-> op.gen, rev |-> lRev + 1, ok |-> TRUE, commit |-> TRUE,
                     sources |-> <<op.src>>]
    <2>1. op.gen \in Nat /\ op.src \in Source
      BY <1>7 DEF SendCommit, ListenerTypeOK, ModePhases, ModeOp
    <2>2. m \in Result
      BY <2>1 DEF Result, ListenerTypeOK
    <2>3. SendResult(m)
      BY <1>7 DEF SendCommit
    <2>4. resultQ' \in Seq(Result) /\ CommitAwaited'
      BY <1>7, <2>2, <2>3, ResultSent, CommitAwaitedAfterSend DEF SendCommit
    <2>5. ListenerTypeOK'
      BY <1>7 DEF SendCommit, ListenerTypeOK, ListenerPhases, ModePhases, BackgroundPhases
    <2>6. ChannelTypeOK'
      BY <1>7, <2>4 DEF SendCommit, ChannelTypeOK
    <2> QED
      BY <1>b, <2>4, <2>5, <2>6
  <1>8. CASE RecordOffline \/ CommitAccepted
    <2>1. op \in ModeOp
      BY <1>8 DEF RecordOffline, CommitAccepted, ListenerTypeOK, ModePhases
    <2>2. op.change \in ModeChange /\ op.src.dim \in Dims /\ op.src.proc \in Nat
      BY <2>1 DEF ModeOp, Source
    <2>3. lProg' \in Programs /\ lTracked' \in Commands \cup {None}
          /\ template' \in Layouts \cup {Seen}
      BY <1>8, <2>2 DEF RecordOffline, CommitAccepted, Adopt, ModeChange, Programs,
                        ChannelTypeOK
    <2>4. ListenerTypeOK' /\ CommitAwaited'
      BY <1>8, <2>2, <2>3 DEF RecordOffline, CommitAccepted, ListenerTypeOK,
            CommitAwaited, ListenerPhases, ModePhases, BackgroundPhases
    <2>5. ChannelTypeOK'
      BY <1>8, <2>3 DEF RecordOffline, CommitAccepted, Reply, ChannelTypeOK
    <2> QED
      BY <1>b, <2>4, <2>5
  <1>9. CASE CommitRefused \/ BackgroundRefused
    <2>1. ListenerTypeOK' /\ CommitAwaited'
      BY <1>9 DEF CommitRefused, BackgroundRefused, RefuseChange, ListenerTypeOK,
                  CommitAwaited, ListenerPhases, ModePhases, BackgroundPhases
    <2>2. ChannelTypeOK'
      BY <1>9 DEF CommitRefused, BackgroundRefused, RefuseChange, Reply, ChannelTypeOK
    <2> QED
      BY <1>b, <2>1, <2>2
  <1>10. CASE BackgroundAccepted
    <2>1. op.change.image \in Images
      BY <1>10 DEF BackgroundAccepted, ListenerTypeOK, BackgroundPhases, BackgroundOp,
                   BackgroundChange
    <2>2. ListenerTypeOK' /\ CommitAwaited'
      BY <1>10, <2>1 DEF BackgroundAccepted, ListenerTypeOK, CommitAwaited,
                         ListenerPhases, ModePhases, BackgroundPhases
    <2>3. ChannelTypeOK'
      BY <1>10, <2>1 DEF BackgroundAccepted, Reply, ChannelTypeOK
    <2> QED
      BY <1>b, <2>2, <2>3
  <1> QED
    BY <1>1, <1>2, <1>3, <1>4, <1>5, <1>6, <1>7, <1>8, <1>9, <1>10 DEF ListenerStep

LEMMA TypeStep == TypeInv /\ [Next]_vars => TypeInv'
  <1> SUFFICES ASSUME TypeInv, [Next]_vars PROVE TypeInv'
    OBVIOUS
  <1>a. TypeOK /\ TickTypeOK /\ ListenerTypeOK /\ ChannelTypeOK
        /\ StartShape /\ CommitAwaited
    BY DEF TypeInv, TypeOK
  <1>b. NoConn \in Conn
    BY CanvasAssumption DEF NoConn, Conn, Canvases
  <1> USE <1>a DEF TypeOK, TypeInv
  <1> USE DEF connVars, sourceVars, tickVars, syncVars, viewVars, procVars,
              listenerVars, watches, channelVars, clientVars
  <1>1. CASE TickMovesOn
    BY <1>1, TickMovesOnFacts
       DEF TickTypeOK, ListenerTypeOK, ChannelTypeOK, StartShape, CommitAwaited
  <1>2. CASE StartConnected
    <2>1. sources' \in Seq(Source)
      BY <1>2, TrySetBackgroundsFacts DEF StartConnected, TickTypeOK
    <2>2. active' \in Conn
      <3>1. \A i \in Outputs : sources[i].dim \in Dims
        <4>1. \A i \in DOMAIN sources : sources[i] \in Source
          BY DEF TickTypeOK
        <4> QED
          BY <1>2, <4>1 DEF StartConnected, Source, StartShape
      <3> QED
        BY <1>2, <3>1 DEF StartConnected, Conn, Canvases
    <2>3. TickTypeOK' /\ StartShape'
      BY <1>2, <2>1, <2>2 DEF StartConnected, TickPhases, TickTypeOK, StartShape
    <2>4. ListenerTypeOK' /\ ChannelTypeOK' /\ CommitAwaited'
      BY <1>2 DEF StartConnected, ListenerTypeOK, ChannelTypeOK, CommitAwaited
    <2> QED
      BY <2>3, <2>4
  <1>3. CASE ApplyRevision
    <2>1. TickTypeOK' /\ StartShape'
      BY <1>b, <1>3 DEF ApplyRevision, TickTypeOK, ListenerTypeOK, StartShape
    <2>2. ListenerTypeOK' /\ ChannelTypeOK' /\ CommitAwaited'
      BY <1>3 DEF ApplyRevision, ListenerTypeOK, ChannelTypeOK, CommitAwaited,
                  ListenerPhases, ModePhases, BackgroundPhases
    <2> QED
      BY <2>1, <2>2
  <1>4. CASE IgnoreStaleResult
    <2>1. ResultConsumed
      BY <1>4 DEF IgnoreStaleResult, ResultConsumed
    <2>2. TickTypeOK' /\ StartShape'
      BY <1>4 DEF IgnoreStaleResult, TickTypeOK, StartShape
    <2> QED
      BY <2>1, <2>2, ResultConsumedType
  <1>5. CASE RejectFailedBuild
    <2>1. ResultConsumed
      BY <1>5 DEF RejectFailedBuild, ResultConsumed
    <2>2. TickTypeOK' /\ StartShape'
      BY <1>b, <1>5 DEF RejectFailedBuild, DropPending, KeepPending, TickTypeOK, StartShape
    <2> QED
      BY <2>1, <2>2, ResultConsumedType
  <1>6. CASE RejectBackgroundMisfit
    <2>1. ResultConsumed
      BY <1>6 DEF RejectBackgroundMisfit, ResultConsumed
    <2>2. TickTypeOK' /\ StartShape'
      BY <1>b, <1>6 DEF RejectBackgroundMisfit, DropPending, KeepPending, TickTypeOK, StartShape
    <2> QED
      BY <2>1, <2>2, ResultConsumedType
  <1>7. CASE InstallResult
    <2>1. ResultConsumed
      BY <1>7 DEF InstallResult, ResultConsumed
    <2>2. Head(resultQ) \in Result /\ Head(resultQ).ok
      BY <1>7, ResultHead DEF InstallResult
    <2>3. sources' \in Seq(Source)
      BY <1>7, <2>2, InstalledType DEF InstallResult
    <2>4. Head(resultQ).rev \in Nat /\ Head(resultQ).gen \in Nat
      BY <2>2 DEF Result
    <2>5. TickTypeOK' /\ StartShape'
      BY <1>b, <1>7, <2>3, <2>4 DEF InstallResult, TickTypeOK, StartShape
    <2> QED
      BY <2>1, <2>5, ResultConsumedType
  <1>8. CASE ApplyTemplate
    <2>1. sources' \in Seq(Source)
      <3>1. CASE template # Seen /\ TakesTemplate(sources[1].prog) /\ 1 \in DOMAIN sources
        <4>1. template \in Programs
          BY <3>1 DEF ChannelTypeOK, Programs
        <4>2. sources[1] \in Source
          BY <3>1 DEF TickTypeOK
        <4>3. [sources[1] EXCEPT !.text = template] \in Source
          BY <4>1, <4>2 DEF Source
        <4>4. sources' = [sources EXCEPT ![1] = [sources[1] EXCEPT !.text = template]]
          BY <1>8, <3>1 DEF ApplyTemplate
        <4> QED
          BY <3>1, <4>3, <4>4, ExceptSeq DEF TickTypeOK
      <3>2. CASE template # Seen /\ TakesTemplate(sources[1].prog) /\ 1 \notin DOMAIN sources
        <4>1. sources' = [sources EXCEPT ![1].text = template]
          BY <1>8, <3>2 DEF ApplyTemplate
        <4>2. sources = [i \in DOMAIN sources |-> sources[i]]
          BY DEF TickTypeOK
        <4>3. sources' = sources
          BY <3>2, <4>1, <4>2
        <4> QED
          BY <4>3 DEF TickTypeOK
      <3>3. CASE ~(template # Seen /\ TakesTemplate(sources[1].prog))
        BY <1>8, <3>3 DEF ApplyTemplate, TickTypeOK
      <3> QED
        BY <3>1, <3>2, <3>3
    <2>2. TickTypeOK' /\ StartShape'
      BY <1>8, <2>1 DEF ApplyTemplate, TickPhases, TickTypeOK, StartShape
    <2>3. ListenerTypeOK' /\ ChannelTypeOK' /\ CommitAwaited'
      BY <1>8 DEF ApplyTemplate, ListenerTypeOK, ChannelTypeOK, CommitAwaited
    <2> QED
      BY <2>2, <2>3
  <1>9. CASE ApplyBackground
    <2>1. op.change.image \in Images
      BY <1>9 DEF ApplyBackground, ListenerTypeOK, BackgroundPhases, BackgroundOp,
                  BackgroundChange
    <2>2. sources' \in Seq(Source)
      BY <1>9, <2>1, SetBackgroundsFacts DEF ApplyBackground, TickTypeOK
    <2>3. TickTypeOK' /\ StartShape'
      BY <1>9, <2>1, <2>2 DEF ApplyBackground, TickTypeOK, StartShape
    <2>4. ListenerTypeOK' /\ ChannelTypeOK' /\ CommitAwaited'
      BY <1>9 DEF ApplyBackground, ListenerTypeOK, ChannelTypeOK, CommitAwaited,
                  ListenerPhases, ModePhases, BackgroundPhases
    <2> QED
      BY <2>3, <2>4
  <1>10. CASE RollBackBackground
    <2>1. op.change.image \in Images
      BY <1>10 DEF RollBackBackground, ListenerTypeOK, BackgroundPhases, BackgroundOp,
                   BackgroundChange
    <2>2. sources' \in Seq(Source)
      BY <1>10, <2>1, SetBackgroundsFacts, TrySetBackgroundsFacts
         DEF RollBackBackground, TickTypeOK
    <2>3. TickTypeOK' /\ StartShape'
      BY <1>b, <1>10, <2>2 DEF RollBackBackground, TickTypeOK, StartShape
    <2>4. ListenerTypeOK' /\ ChannelTypeOK' /\ CommitAwaited'
      BY <1>10 DEF RollBackBackground, ListenerTypeOK, ChannelTypeOK, CommitAwaited,
                   ListenerPhases, ModePhases, BackgroundPhases
    <2> QED
      BY <2>3, <2>4
  <1>11. CASE WatchBackground
    <2>1. sources' \in Seq(Source) /\ cachedBg' \in Images
      BY <1>11, SetBackgroundsFacts DEF WatchBackground, TickTypeOK, ChannelTypeOK
    <2>2. TickTypeOK' /\ StartShape'
      BY <1>11, <2>1 DEF WatchBackground, TickPhases, TickTypeOK, StartShape
    <2>3. ListenerTypeOK' /\ ChannelTypeOK' /\ CommitAwaited'
      BY <1>11 DEF WatchBackground, ListenerTypeOK, ChannelTypeOK, CommitAwaited
    <2> QED
      BY <2>2, <2>3
  <1>12. ASSUME NEW dims \in Canvases, Negotiate(dims) PROVE TypeInv'
    <2>1. [gen |-> generation + 1, dims |-> dims] \in Conn \cap Request
      BY DEF TickTypeOK, Conn, Request
    <2>2. TickTypeOK' /\ StartShape'
      BY <1>12, <2>1 DEF Negotiate, TickPhases, TickTypeOK, StartShape
    <2>3. buildQ' \in Seq(Request)
      BY <1>12, <2>1, AppendProperties DEF Negotiate, ChannelTypeOK
    <2>4. ListenerTypeOK' /\ ChannelTypeOK' /\ CommitAwaited'
      BY <1>12, <2>3 DEF Negotiate, ListenerTypeOK, ChannelTypeOK, CommitAwaited
    <2> QED
      BY <2>2, <2>4
  <1>13. CASE PendingTimesOut \/ RequestQueueFull \/ NoDisplayFound
              \/ SendIsFatal \/ Stop \/ RetryFallsDue
    <2>1. TickTypeOK' /\ StartShape'
      BY <1>b, <1>13 DEF PendingTimesOut, RequestQueueFull, NoDisplayFound,
           SendIsFatal, Stop, RetryFallsDue, TickPhases, TickTypeOK, StartShape
    <2>2. ListenerTypeOK' /\ ChannelTypeOK' /\ CommitAwaited'
      BY <1>13 DEF PendingTimesOut, RequestQueueFull, NoDisplayFound, SendIsFatal,
           Stop, RetryFallsDue, ListenerTypeOK, ChannelTypeOK, CommitAwaited
    <2> QED
      BY <2>1, <2>2
  <1>14. CASE ListenerStep
    BY <1>14, ListenerType
  <1>15. ASSUME NEW change \in Change, Ask(change) PROVE TypeInv'
    <2>1. TickTypeOK' /\ ListenerTypeOK' /\ StartShape' /\ CommitAwaited'
      BY <1>15 DEF Ask, TickTypeOK, ListenerTypeOK, StartShape, CommitAwaited
    <2>2. modeQ' \in Seq(Change)
      BY <1>15, AppendProperties DEF Ask, ChannelTypeOK
    <2>3. waiting' \in [Locks -> BOOLEAN]
      BY <1>15 DEF Ask, ChannelTypeOK
    <2>4. ChannelTypeOK'
      BY <1>15, <2>2, <2>3 DEF Ask, ChannelTypeOK
    <2> QED
      BY <2>1, <2>4
  <1>16. CASE UNCHANGED vars
    BY <1>16 DEF vars, TickTypeOK, ListenerTypeOK, ChannelTypeOK, StartShape,
                 CommitAwaited
  <1> QED
    BY <1>1, <1>2, <1>3, <1>4, <1>5, <1>6, <1>7, <1>8, <1>9, <1>10, <1>11, <1>12,
       <1>13, <1>14, <1>15, <1>16 DEF Next, TickStep, TickMovesOn, Gone

\* Every variable keeps its type in every behaviour of the pipeline: an operation
\* is in flight exactly in the phases that work on it, and of their kind.
THEOREM TypeCorrect == Spec => []TypeOK
  <1>1. TypeInv => TypeOK
    BY DEF TypeInv
  <1> QED
    BY InitType, TypeStep, <1>1, PTL DEF Spec

------------------------------------------------------------------------------
(* The invariant of the connections *)

Results  == {resultQ[i] : i \in 1..Len(resultQ)}
Builds   == {m \in Results : ~m.commit}
Requested == {buildQ[i] : i \in 1..Len(buildQ)}

\* Before its first iteration the tick loop has asked for nothing, and its
\* sources are those main handed to it.
Starting ==
    tpc \in {"startConnected", "startDisconnected"} =>
        /\ generation = 0 /\ pending = NoConn /\ active = NoConn
        /\ buildQ = <<>> /\ resultQ = <<>>
        /\ lpc \in {"select", "revision", "background"}
        /\ sources[1].dim = lDim
        /\ sources[1].prog \in Commands => sources[1].proc = handle

\* While a mode change is in flight its source has the listener's canvas, and
\* every connection that waits for its sources is newer than the change.
ChangeCoherent ==
    lpc \in ModePhases =>
        /\ op.src.dim = lDim
        /\ op.gen <= generation
        /\ pending # NoConn => op.gen < pending.gen
        /\ lpc \in {"commit", "commitDone"} => op.gen # 0

\* A commit carries the source of the change in flight.
CommitCoherent ==
    \A m \in Results : m.commit => m.gen = op.gen /\ m.sources = <<op.src>>

\* No message is newer than the last connection, and no result than the
\* listener's revision.
Bounded ==
    /\ \A r \in Requested : r.gen <= generation
    /\ \A m \in Results : m.gen <= generation /\ m.rev <= lRev

\* Requests, and the results built from them, are in the order of their
\* generations.
Ordered ==
    /\ \A i, j \in 1..Len(buildQ) : i < j => buildQ[i].gen < buildQ[j].gen
    /\ \A i, j \in 1..Len(resultQ) :
          i < j /\ ~resultQ[i].commit /\ ~resultQ[j].commit =>
              resultQ[i].gen < resultQ[j].gen
    /\ \A m \in Builds, r \in Requested : m.gen < r.gen

\* What is on its way to the pending connection fits it, and its stream is the
\* one that the listener holds.
FitsPending(m) ==
    m.ok /\ m.gen = pending.gen =>
        /\ lDim = pending.dims[1]
        /\ \A k \in Outputs : m.sources[k].dim = pending.dims[k]
        /\ m.sources[1].prog \in Commands => m.sources[1].proc = handle

PendingServed ==
    pending # NoConn =>
        /\ pending.gen > 0
        /\ \A r \in Requested : r.gen = pending.gen => r.dims = pending.dims
        /\ \A m \in Builds : FitsPending(m)

\* Once a connection is active nothing is left to build or to install for it.
ActiveSettled ==
    Connected =>
        /\ buildQ = <<>>
        /\ \A m \in Builds : m.gen < active.gen
        /\ lDim = active.dims[1]

\* A listener that waits for the answer to a mode change has built nothing for a
\* connection negotiated since.
Committed == \/ lpc = "revisionDone"
             \/ lpc \in {"revision", "commit", "commitDone"} /\ op.gen # 0

NothingNewBuilt ==
    Committed /\ pending # NoConn => \A m \in Builds : m.gen < pending.gen

\* A layout recorded offline finds the connection closed.
OfflineReset == lpc = "revisionDone" /\ op.gen = 0 => ~Connected

\* The process the active stream reads: that of an accepted change until the
\* listener has heard of it, the one the listener holds otherwise.
StreamOwned ==
    Connected =>
        IF lpc = "commitDone" /\ ack
        THEN sources[1].prog = op.src.prog /\ sources[1].proc = op.src.proc
        ELSE sources[1].prog \in Commands => sources[1].proc = handle

Coherent ==
    /\ ConnectionCoherent /\ SourcePerOutput /\ DimensionCorrect /\ RevisionsAgree
    /\ Starting /\ ChangeCoherent /\ CommitCoherent /\ Bounded /\ Ordered
    /\ PendingServed /\ ActiveSettled /\ NothingNewBuilt /\ OfflineReset
    /\ StreamOwned

SafetyInv == TypeInv /\ Coherent

------------------------------------------------------------------------------
(* The channels *)

LEMMA MessageTypes ==
    ASSUME TypeOK
    PROVE  /\ Results \subseteq Result /\ Requested \subseteq Request
           /\ resultQ = <<>> => Results = {}
           /\ buildQ = <<>> <=> Requested = {}
  <1>1. \A i \in 1..Len(resultQ) : resultQ[i] \in Result
    BY ElementOfSeq DEF TypeOK, ChannelTypeOK
  <1>2. \A i \in 1..Len(buildQ) : buildQ[i] \in Request
    BY ElementOfSeq DEF TypeOK, ChannelTypeOK
  <1>3. resultQ = <<>> => Results = {}
    BY DEF Results
  <1>4. buildQ = <<>> => Requested = {}
    BY DEF Requested
  <1>5. buildQ # <<>> => Requested # {}
    <2> SUFFICES ASSUME buildQ # <<>> PROVE buildQ[1] \in Requested
      OBVIOUS
    <2>1. Len(buildQ) \in Nat /\ Len(buildQ) >= 1
      BY RequestHead
    <2> QED
      BY <2>1 DEF Requested
  <1> QED
    BY <1>1, <1>2, <1>3, <1>4, <1>5 DEF Results, Requested

\* Taking the first result ...
LEMMA TakenResult ==
    ASSUME TypeOK, resultQ # <<>>, resultQ' = Tail(resultQ)
    PROVE  /\ Head(resultQ) \in Results /\ Results' \subseteq Results
           /\ Builds' \subseteq Builds
           /\ Ordered /\ ~Head(resultQ).commit =>
                \A m \in Builds' : Head(resultQ).gen < m.gen
           /\ Ordered /\ UNCHANGED buildQ => Ordered'
  <1>1. /\ Head(resultQ) = resultQ[1]
        /\ Len(resultQ) \in Nat /\ Len(resultQ) >= 1
        /\ Len(resultQ') = Len(resultQ) - 1
        /\ \A i \in 1..Len(resultQ') : resultQ'[i] = resultQ[i + 1]
    BY ResultHead
  <1>2. Head(resultQ) \in Results
    BY <1>1 DEF Results
  <1>3. \A i \in 1..Len(resultQ') : i + 1 \in 1..Len(resultQ) /\ resultQ'[i] = resultQ[i + 1]
    BY <1>1
  <1>4. Results' \subseteq Results
    BY <1>3 DEF Results
  <1>5. Builds' \subseteq Builds
    BY <1>4 DEF Builds
  <1>6. ASSUME Ordered, ~Head(resultQ).commit, NEW m \in Builds'
        PROVE  Head(resultQ).gen < m.gen
    <2>1. PICK i \in 1..Len(resultQ') : m = resultQ'[i]
      BY DEF Builds, Results
    <2>2. i + 1 \in 1..Len(resultQ) /\ m = resultQ[i + 1] /\ 1 \in 1..Len(resultQ)
          /\ 1 < i + 1 /\ ~resultQ[1].commit /\ ~resultQ[i + 1].commit
      BY <1>1, <1>3, <1>6, <2>1 DEF Builds
    <2> QED
      BY <1>1, <1>6, <2>2 DEF Ordered
  <1>7. ASSUME Ordered, UNCHANGED buildQ PROVE Ordered'
    <2>1. \A i, j \in 1..Len(resultQ') :
            i < j /\ ~resultQ'[i].commit /\ ~resultQ'[j].commit =>
                resultQ'[i].gen < resultQ'[j].gen
      <3> SUFFICES ASSUME NEW i \in 1..Len(resultQ'), NEW j \in 1..Len(resultQ'),
                          i < j, ~resultQ'[i].commit, ~resultQ'[j].commit
                   PROVE  resultQ'[i].gen < resultQ'[j].gen
        OBVIOUS
      <3>1. /\ i + 1 \in 1..Len(resultQ) /\ resultQ'[i] = resultQ[i + 1]
            /\ j + 1 \in 1..Len(resultQ) /\ resultQ'[j] = resultQ[j + 1]
            /\ i + 1 < j + 1
        BY <1>3
      <3> QED
        BY <1>7, <3>1 DEF Ordered
    <2>2. Requested' = Requested
      BY <1>7 DEF Requested
    <2> QED
      BY <1>5, <1>7, <2>1, <2>2 DEF Ordered
  <1> QED
    BY <1>2, <1>4, <1>5, <1>6, <1>7

\* ... and the first request.
LEMMA TakenRequest ==
    ASSUME TypeOK, buildQ # <<>>, buildQ' = Tail(buildQ)
    PROVE  /\ Head(buildQ) \in Requested /\ Requested' \subseteq Requested
           /\ Ordered =>
                /\ \A r \in Requested' : Head(buildQ).gen < r.gen
                /\ \A i, j \in 1..Len(buildQ') : i < j => buildQ'[i].gen < buildQ'[j].gen
  <1>1. /\ Head(buildQ) = buildQ[1]
        /\ Len(buildQ) \in Nat /\ Len(buildQ) >= 1
        /\ Len(buildQ') = Len(buildQ) - 1
        /\ \A i \in 1..Len(buildQ') : buildQ'[i] = buildQ[i + 1]
    BY RequestHead
  <1>2. Head(buildQ) \in Requested
    BY <1>1 DEF Requested
  <1>3. \A i \in 1..Len(buildQ') : i + 1 \in 1..Len(buildQ) /\ buildQ'[i] = buildQ[i + 1]
    BY <1>1
  <1>4. Requested' \subseteq Requested
    BY <1>3 DEF Requested
  <1>5. ASSUME Ordered, NEW r \in Requested' PROVE Head(buildQ).gen < r.gen
    <2>1. PICK i \in 1..Len(buildQ') : r = buildQ'[i]
      BY DEF Requested
    <2>2. i + 1 \in 1..Len(buildQ) /\ r = buildQ[i + 1] /\ 1 \in 1..Len(buildQ) /\ 1 < i + 1
      BY <1>1, <1>3, <2>1
    <2> QED
      BY <1>1, <1>5, <2>2 DEF Ordered
  <1>6. ASSUME Ordered, NEW i \in 1..Len(buildQ'), NEW j \in 1..Len(buildQ'), i < j
        PROVE  buildQ'[i].gen < buildQ'[j].gen
    <2>1. /\ i + 1 \in 1..Len(buildQ) /\ buildQ'[i] = buildQ[i + 1]
          /\ j + 1 \in 1..Len(buildQ) /\ buildQ'[j] = buildQ[j + 1]
          /\ i + 1 < j + 1
      BY <1>3, <1>6
    <2> QED
      BY <1>6, <2>1 DEF Ordered
  <1> QED
    BY <1>2, <1>4, <1>5, <1>6

\* A send adds one result, after those already there.
LEMMA SentResult ==
    ASSUME TypeOK, NEW m \in Result, SendResult(m)
    PROVE  /\ Results' = Results \cup {m}
           /\ Builds' = IF m.commit THEN Builds ELSE Builds \cup {m}
  <1>1. /\ Len(resultQ) \in Nat /\ Len(resultQ') = Len(resultQ) + 1
        /\ \A i \in 1..Len(resultQ) : resultQ'[i] = resultQ[i]
        /\ resultQ'[Len(resultQ) + 1] = m
    BY ResultSent
  <1>2. \A i \in 1..Len(resultQ') : i \in 1..Len(resultQ) \/ i = Len(resultQ) + 1
    BY <1>1
  <1>3. \A i \in 1..Len(resultQ) : i \in 1..Len(resultQ')
    BY <1>1
  <1>4. Len(resultQ) + 1 \in 1..Len(resultQ')
    BY <1>1
  <1>5. Results' \subseteq Results \cup {m}
    BY <1>1, <1>2 DEF Results
  <1>6. Results \cup {m} \subseteq Results'
    BY <1>1, <1>3, <1>4 DEF Results
  <1>7. Results' = Results \cup {m}
    BY <1>5, <1>6
  <1> QED
    BY <1>7 DEF Builds

LEMMA SentResultOrdered ==
    ASSUME TypeOK, Ordered, NEW m \in Result, SendResult(m),
           ~m.commit => \A b \in Builds : b.gen < m.gen
    PROVE  \A i, j \in 1..Len(resultQ') :
             i < j /\ ~resultQ'[i].commit /\ ~resultQ'[j].commit =>
                 resultQ'[i].gen < resultQ'[j].gen
  <1>1. /\ Len(resultQ) \in Nat /\ Len(resultQ') = Len(resultQ) + 1
        /\ \A i \in 1..Len(resultQ) : resultQ'[i] = resultQ[i]
        /\ resultQ'[Len(resultQ) + 1] = m
    BY ResultSent
  <1> SUFFICES ASSUME NEW i \in 1..Len(resultQ'), NEW j \in 1..Len(resultQ'), i < j,
                      ~resultQ'[i].commit, ~resultQ'[j].commit
               PROVE  resultQ'[i].gen < resultQ'[j].gen
    OBVIOUS
  <1>2. i \in 1..Len(resultQ) /\ resultQ'[i] = resultQ[i]
    BY <1>1
  <1>3. CASE j \in 1..Len(resultQ)
    BY <1>1, <1>2, <1>3 DEF Ordered
  <1>4. CASE j = Len(resultQ) + 1
    <2>1. resultQ[i] \in Builds
      BY <1>2 DEF Builds, Results
    <2> QED
      BY <1>1, <1>2, <1>4, <2>1
  <1> QED
    BY <1>1, <1>3, <1>4

\* A request is added after those already there.
LEMMA SentRequest ==
    ASSUME TypeOK, NEW r \in Request, buildQ' = Append(buildQ, r)
    PROVE  /\ Requested' = Requested \cup {r}
           /\ Ordered /\ (\A q \in Requested : q.gen < r.gen) =>
                \A i, j \in 1..Len(buildQ') : i < j => buildQ'[i].gen < buildQ'[j].gen
  <1>1. /\ Len(buildQ) \in Nat /\ Len(buildQ') = Len(buildQ) + 1
        /\ \A i \in 1..Len(buildQ) : buildQ'[i] = buildQ[i]
        /\ buildQ'[Len(buildQ) + 1] = r
    BY AppendProperties DEF TypeOK, ChannelTypeOK
  <1>2. \A i \in 1..Len(buildQ') : i \in 1..Len(buildQ) \/ i = Len(buildQ) + 1
    BY <1>1
  <1>3. \A i \in 1..Len(buildQ) : i \in 1..Len(buildQ')
    BY <1>1
  <1>4. Len(buildQ) + 1 \in 1..Len(buildQ')
    BY <1>1
  <1>5. Requested' \subseteq Requested \cup {r}
    BY <1>1, <1>2 DEF Requested
  <1>6. Requested \cup {r} \subseteq Requested'
    BY <1>1, <1>3, <1>4 DEF Requested
  <1>7. ASSUME Ordered, \A q \in Requested : q.gen < r.gen,
               NEW i \in 1..Len(buildQ'), NEW j \in 1..Len(buildQ'), i < j
        PROVE  buildQ'[i].gen < buildQ'[j].gen
    <2>1. i \in 1..Len(buildQ) /\ buildQ'[i] = buildQ[i]
      BY <1>1, <1>7
    <2>2. CASE j \in 1..Len(buildQ)
      BY <1>1, <1>7, <2>1, <2>2 DEF Ordered
    <2>3. CASE j = Len(buildQ) + 1
      <3>1. buildQ[i] \in Requested
        BY <2>1 DEF Requested
      <3> QED
        BY <1>1, <1>7, <2>1, <2>3, <3>1
    <2> QED
      BY <1>2, <2>2, <2>3
  <1> QED
    BY <1>5, <1>6, <1>7

------------------------------------------------------------------------------
(* Steps that no part of the invariant depends on *)

\* The sources keep everything but text and background.
SourcesKept ==
    /\ DOMAIN sources' = DOMAIN sources
    /\ \A i \in DOMAIN sources :
          /\ sources'[i].prog = sources[i].prog
          /\ sources'[i].dim = sources[i].dim
          /\ sources'[i].proc = sources[i].proc

\* The listener stays where it is, or goes between waiting for work and work
\* that is no mode change; a mode change it leaves was refused.
ListenerAside ==
    \/ UNCHANGED <<lpc, op, ack>>
    \/ /\ lpc' \in {"select"} \cup BackgroundPhases
       /\ lpc \notin {"commit", "revisionDone"}
       /\ ~(lpc = "commitDone" /\ ack)

StartPhases == {"startConnected", "startDisconnected"}

TickMoves ==
    \/ tpc' = tpc /\ (tpc \in StartPhases => lpc' # "backgroundDone")
    \/ tpc' \notin StartPhases /\ tpc # "stopped"

QuietStep ==
    /\ UNCHANGED <<generation, active, published, tickRev, lRev, lDim, handle,
                   buildQ, resultQ>>
    /\ pending' \in {pending, NoConn}
    /\ SourcesKept /\ ListenerAside /\ TickMoves

LEMMA QuietStepCoherent == SafetyInv /\ QuietStep => Coherent'
  <1> SUFFICES ASSUME SafetyInv, QuietStep PROVE Coherent'
    OBVIOUS
  <1>a. TypeInv /\ TypeOK /\ Coherent /\ CommitAwaited
    BY DEF SafetyInv, TypeInv
  <1>b. Results' = Results /\ Builds' = Builds /\ Requested' = Requested
    BY DEF QuietStep, Results, Builds, Requested
  <1>c. Outputs = DOMAIN sources /\ 1 \in Outputs
    BY <1>a, CanvasAssumption DEF Coherent, SourcePerOutput, Outputs
  <1> USE <1>a DEF QuietStep, Coherent
  <1>1. ConnectionCoherent'
    BY DEF TickMoves, ConnectionCoherent
  <1>2. SourcePerOutput' /\ DimensionCorrect'
    BY <1>c DEF SourcesKept, SourcePerOutput, DimensionCorrect, Connected
  <1>3. RevisionsAgree' /\ OfflineReset'
    BY DEF ListenerAside, BackgroundPhases, RevisionsAgree, OfflineReset, Connected
  <1>4. Starting'
    BY <1>c DEF TickMoves, StartPhases, ListenerAside, BackgroundPhases, SourcesKept,
                Starting
  <1>5. ChangeCoherent'
    BY DEF ListenerAside, BackgroundPhases, ModePhases, ChangeCoherent
  <1>6. CommitCoherent'
    <2>1. CASE UNCHANGED op
      BY <1>b, <2>1 DEF CommitCoherent
    <2>2. CASE lpc # "commit"
      BY <1>b, <2>2 DEF CommitAwaited, CommitCoherent, Results
    <2> QED
      BY <2>1, <2>2 DEF ListenerAside
  <1>7. Bounded' /\ Ordered'
    BY <1>b DEF Bounded, Ordered
  <1>8. PendingServed'
    BY <1>b DEF PendingServed, FitsPending
  <1>9. ActiveSettled'
    BY <1>b DEF ActiveSettled, Connected
  <1>10. NothingNewBuilt'
    BY <1>b DEF ListenerAside, BackgroundPhases, NothingNewBuilt, Committed
  <1>11. StreamOwned'
    BY <1>c DEF ListenerAside, BackgroundPhases, SourcesKept, StreamOwned, Connected
  <1> QED
    BY <1>1, <1>2, <1>3, <1>4, <1>5, <1>6, <1>7, <1>8, <1>9, <1>10, <1>11


\* Which steps those are.
OtherSteps ==
    \/ NoDisplayFound \/ PendingTimesOut \/ RetryFallsDue
    \/ TakeBackground \/ RefuseModeChange \/ CommitRefused
    \/ BackgroundAccepted \/ BackgroundRefused
    \/ \E change \in Change : Ask(change)
    \/ UNCHANGED vars

LEMMA OtherStepsQuiet == SafetyInv /\ (TickMovesOn \/ OtherSteps) => QuietStep
  <1> SUFFICES ASSUME SafetyInv, TickMovesOn \/ OtherSteps PROVE QuietStep
    OBVIOUS
  <1> USE DEF connVars, sourceVars, tickVars, syncVars, viewVars, procVars,
              listenerVars, watches, channelVars, clientVars
  <1>1. CASE TickMovesOn
    BY <1>1, TickMovesOnFacts
       DEF QuietStep, SourcesKept, ListenerAside, TickMoves, StartPhases
  <1>2. CASE NoDisplayFound \/ PendingTimesOut \/ RetryFallsDue
             \/ (\E change \in Change : Ask(change)) \/ UNCHANGED vars
    <2>1. lpc \in ListenerPhases /\ (tpc \in StartPhases => lpc # "backgroundDone")
      BY DEF SafetyInv, TypeInv, TypeOK, ListenerTypeOK, Coherent, Starting, StartPhases
    <2> QED
      BY <1>2, <2>1 DEF NoDisplayFound, PendingTimesOut, RetryFallsDue, Ask, vars,
         QuietStep, SourcesKept, ListenerAside, TickMoves, StartPhases
  <1>3. CASE TakeBackground \/ RefuseModeChange \/ CommitRefused
             \/ BackgroundAccepted \/ BackgroundRefused
    BY <1>3 DEF TakeBackground, RefuseModeChange, CommitRefused, BackgroundAccepted,
       BackgroundRefused, RefuseChange, BackgroundPhases,
       QuietStep, SourcesKept, ListenerAside, TickMoves
  <1> QED
    BY <1>1, <1>2, <1>3 DEF OtherSteps

\* Text and backgrounds: the steps of the tick loop that touch sources and
\* keep their programs, canvases and processes.
LEMMA ApplyTemplateQuiet == SafetyInv /\ ApplyTemplate => QuietStep
  <1> SUFFICES ASSUME SafetyInv, ApplyTemplate PROVE QuietStep
    OBVIOUS
  <1>1. SourcesKept
    <2>1. sources \in Seq(Source)
      BY DEF SafetyInv, TypeInv, TypeOK, TickTypeOK
    <2>2. \A i \in DOMAIN sources : sources[i] \in Source
      BY <2>1
    <2>3. CASE sources' = [sources EXCEPT ![1].text = template]
      <3>1. DOMAIN sources' = DOMAIN sources
        BY <2>3
      <3>2. ASSUME NEW i \in DOMAIN sources
            PROVE  sources'[i] \in {sources[i], [sources[i] EXCEPT !.text = template]}
        BY <2>3, <3>2
      <3> QED
        BY <2>2, <3>1, <3>2 DEF Source, SourcesKept
    <2>4. CASE sources' = sources
      BY <2>4 DEF SourcesKept
    <2> QED
      BY <2>3, <2>4 DEF ApplyTemplate
  <1> QED
    BY <1>1 DEF ApplyTemplate, connVars, listenerVars, syncVars, viewVars, procVars,
       QuietStep, ListenerAside, TickMoves, StartPhases

LEMMA BackgroundsQuiet ==
    SafetyInv /\ (ApplyBackground \/ RollBackBackground \/ WatchBackground) => QuietStep
  <1> SUFFICES ASSUME SafetyInv, ApplyBackground \/ RollBackBackground \/ WatchBackground
               PROVE  QuietStep
    OBVIOUS
  <1>1. sources \in Seq(Source) /\ cachedBg \in Images /\ bgWatch \in Images \cup {Seen}
        /\ (lpc \in BackgroundPhases => op.change.image \in Images)
    BY DEF SafetyInv, TypeInv, TypeOK, TickTypeOK, ListenerTypeOK, ChannelTypeOK,
           BackgroundOp, BackgroundChange
  <1>2. CASE ApplyBackground
    <2>1. SourcesKept
      BY <1>1, <1>2, SetBackgroundsFacts DEF ApplyBackground, BackgroundPhases, SourcesKept
    <2> QED
      BY <1>2, <2>1 DEF ApplyBackground, connVars, viewVars, procVars, channelVars,
         QuietStep, ListenerAside, BackgroundPhases, TickMoves, StartPhases
  <1>3. CASE RollBackBackground
    <2> DEFINE half == SetBackgrounds(sources, op.change.image)
    <2>1. /\ half \in Seq(Source) /\ DOMAIN half = DOMAIN sources
          /\ \A i \in DOMAIN sources : /\ half[i].prog = sources[i].prog
                                      /\ half[i].dim = sources[i].dim
                                      /\ half[i].proc = sources[i].proc
      BY <1>1, <1>3, SetBackgroundsFacts DEF RollBackBackground, BackgroundPhases
    <2>2. sources' = TrySetBackgrounds(half, cachedBg)
      BY <1>3 DEF RollBackBackground
    <2> HIDE DEF half
    <2>3. SourcesKept
      BY <1>1, <2>1, <2>2, TrySetBackgroundsFacts DEF SourcesKept
    <2> QED
      BY <1>3, <2>3 DEF RollBackBackground, viewVars, procVars, channelVars,
         QuietStep, ListenerAside, BackgroundPhases, TickMoves, StartPhases
  <1>4. CASE WatchBackground
    <2>1. SourcesKept
      BY <1>1, <1>4, SetBackgroundsFacts DEF WatchBackground, SourcesKept
    <2> QED
      BY <1>4, <2>1 DEF WatchBackground, connVars, listenerVars, syncVars, viewVars,
         procVars, QuietStep, ListenerAside, TickMoves, StartPhases
  <1> QED
    BY <1>2, <1>3, <1>4


------------------------------------------------------------------------------
(* Connections come and go *)

LEMMA StartConnectedCoherent == SafetyInv /\ StartConnected => Coherent'
  <1> SUFFICES ASSUME SafetyInv, StartConnected PROVE Coherent'
    OBVIOUS
  <1>a. TypeInv /\ TypeOK /\ Coherent /\ CommitAwaited
    BY DEF SafetyInv, TypeInv
  <1>b. /\ generation = 0 /\ pending = NoConn /\ buildQ = <<>> /\ resultQ = <<>>
        /\ lpc \in {"select", "revision", "background"}
        /\ sources[1].dim = lDim
        /\ sources[1].prog \in Commands => sources[1].proc = handle
    BY <1>a DEF Coherent, Starting, StartConnected
  <1>c. Results = {} /\ Builds = {} /\ Requested = {}
    BY <1>a, <1>b, MessageTypes DEF Builds
  <1>d. Results' = Results /\ Builds' = Builds /\ Requested' = Requested
    BY DEF StartConnected, channelVars, Results, Builds, Requested
  <1>e. Outputs = DOMAIN sources /\ 1 \in Outputs
    BY <1>a, CanvasAssumption DEF Coherent, SourcePerOutput, Outputs
  <1>f. SourcesKept
    <2>1. sources \in Seq(Source) /\ cachedBg \in Images
      BY <1>a DEF TypeOK, TickTypeOK
    <2> QED
      BY <2>1, TrySetBackgroundsFacts DEF StartConnected, SourcesKept
  <1> USE <1>a, <1>b, <1>c, <1>d, <1>e, <1>f
      DEF Coherent, StartConnected, listenerVars, syncVars, viewVars, procVars,
          channelVars, clientVars
  <1>g. active'.gen = 1 /\ active' # NoConn
        /\ \A i \in Outputs : active'.dims[i] = sources[i].dim
    BY DEF NoConn
  <1>1. ConnectionCoherent'
    BY <1>g DEF ConnectionCoherent
  <1>2. SourcePerOutput' /\ DimensionCorrect'
    BY <1>g DEF SourcesKept, SourcePerOutput, DimensionCorrect
  <1>3. RevisionsAgree' /\ OfflineReset' /\ Starting'
    BY DEF RevisionsAgree, OfflineReset, Starting
  <1>4. ChangeCoherent'
    BY DEF ChangeCoherent, TypeOK, ListenerTypeOK, ModeOp, ModePhases
  <1>5. CommitCoherent' /\ Bounded' /\ Ordered'
    BY DEF CommitCoherent, Bounded, Ordered
  <1>6. PendingServed' /\ NothingNewBuilt'
    BY DEF PendingServed, NothingNewBuilt
  <1>7. ActiveSettled'
    BY <1>g DEF ActiveSettled
  <1>8. StreamOwned'
    BY DEF SourcesKept, StreamOwned
  <1> QED
    BY <1>1, <1>2, <1>3, <1>4, <1>5, <1>6, <1>7, <1>8

\* A connection is lost, or a number is spent on none.
LEMMA DisconnectCoherent ==
    SafetyInv /\ (SendIsFatal \/ Stop \/ RequestQueueFull) => Coherent'
  <1> SUFFICES ASSUME SafetyInv, SendIsFatal \/ Stop \/ RequestQueueFull
               PROVE  Coherent'
    OBVIOUS
  <1>a. TypeInv /\ TypeOK /\ Coherent
    BY DEF SafetyInv, TypeInv
  <1>b. /\ UNCHANGED <<sources, tickRev, lpc, op, ack, lRev, lDim, handle, buildQ, resultQ>>
        /\ pending' = NoConn /\ active' = NoConn
        /\ generation' \in {generation, generation + 1} /\ generation \in Nat
        /\ tpc' \in {"send", "revision", "stopped"}
        /\ tpc' # "stopped" => published' = 0
    BY <1>a DEF SendIsFatal, Stop, RequestQueueFull, Idle, Coherent, ConnectionCoherent,
       NoConn, TypeOK, TickTypeOK, sourceVars, listenerVars, syncVars, viewVars, procVars,
       channelVars
  <1>c. Results' = Results /\ Builds' = Builds /\ Requested' = Requested
    BY <1>b DEF Results, Builds, Requested
  <1>d. /\ \A m \in Results : m.gen \in Nat
        /\ \A r \in Requested : r.gen \in Nat
    BY <1>a, MessageTypes DEF Result, Request
  <1>e. lpc \in ModePhases => op.gen \in Nat
    BY <1>a DEF TypeOK, ListenerTypeOK, ModeOp
  <1> USE <1>a, <1>b DEF Coherent
  <1>1. ConnectionCoherent'
    BY DEF ConnectionCoherent, NoConn
  <1>2. SourcePerOutput' /\ DimensionCorrect' /\ ActiveSettled' /\ StreamOwned'
        /\ OfflineReset'
    BY DEF SourcePerOutput, DimensionCorrect, Connected, ActiveSettled, StreamOwned,
           OfflineReset
  <1>3. RevisionsAgree' /\ Starting'
    BY DEF RevisionsAgree, Starting
  <1>4. ChangeCoherent'
    BY <1>e DEF ChangeCoherent
  <1>5. CommitCoherent' /\ Ordered'
    BY <1>c DEF CommitCoherent, Ordered
  <1>6. Bounded'
    BY <1>c, <1>d DEF Bounded
  <1>7. PendingServed' /\ NothingNewBuilt'
    BY DEF PendingServed, NothingNewBuilt
  <1> QED
    BY <1>1, <1>2, <1>3, <1>4, <1>5, <1>6, <1>7

\* A negotiated connection is newer than every message and every change.
LEMMA NegotiateCoherent ==
    ASSUME SafetyInv, NEW dims \in Canvases, Negotiate(dims)
    PROVE  Coherent'
  <1> DEFINE r == [gen |-> generation + 1, dims |-> dims]
  <1>a. TypeInv /\ TypeOK /\ Coherent
    BY DEF SafetyInv, TypeInv
  <1>b. /\ UNCHANGED <<active, published, sources, tickRev, lpc, op, ack, lRev, lDim,
                       handle, resultQ>>
        /\ pending = NoConn /\ active = NoConn /\ pending' = r
        /\ buildQ' = Append(buildQ, r)
        /\ generation' = generation + 1 /\ generation \in Nat
        /\ tpc' = "send" /\ tpc = "connect"
    BY <1>a DEF Negotiate, Idle, TypeOK, TickTypeOK, sourceVars, listenerVars, syncVars,
       viewVars, procVars
  <1>c. r \in Request
    BY <1>b DEF Request
  <1>d. /\ \A m \in Results : m.gen \in Nat /\ m.gen < generation + 1 /\ m.rev <= lRev
        /\ \A q \in Requested : q.gen \in Nat /\ q.gen < generation + 1
    <2>1. /\ \A m \in Results : m.gen \in Nat
          /\ \A q \in Requested : q.gen \in Nat
      BY <1>a, MessageTypes DEF Result, Request
    <2>2. /\ \A m \in Results : m.gen <= generation /\ m.rev <= lRev
          /\ \A q \in Requested : q.gen <= generation
      BY <1>a DEF Coherent, Bounded
    <2> QED
      BY <1>b, <2>1, <2>2
  <1>e. /\ Results' = Results /\ Builds' = Builds
        /\ Requested' = Requested \cup {r}
        /\ \A i, j \in 1..Len(buildQ') : i < j => buildQ'[i].gen < buildQ'[j].gen
    <2>1. Requested' = Requested \cup {r}
          /\ \A i, j \in 1..Len(buildQ') : i < j => buildQ'[i].gen < buildQ'[j].gen
      BY <1>a, <1>b, <1>c, <1>d, SentRequest DEF Coherent
    <2> QED
      BY <1>b, <2>1 DEF Results, Builds
  <1>f. r.gen = generation + 1 /\ r.dims = dims /\ r # NoConn
    BY <1>b DEF NoConn
  <1>g. Builds \subseteq Results
    BY DEF Builds
  <1>h. lpc \in ModePhases => op.gen \in Nat
    BY <1>a DEF TypeOK, ListenerTypeOK, ModeOp
  <1> HIDE DEF r
  <1> USE <1>a, <1>b DEF Coherent
  <1>1. ConnectionCoherent'
    BY <1>f DEF ConnectionCoherent
  <1>2. SourcePerOutput' /\ DimensionCorrect' /\ ActiveSettled' /\ StreamOwned'
        /\ OfflineReset'
    BY DEF SourcePerOutput, DimensionCorrect, Connected, ActiveSettled, StreamOwned,
           OfflineReset
  <1>3. RevisionsAgree' /\ Starting'
    BY DEF RevisionsAgree, Starting
  <1>4. ChangeCoherent'
    BY <1>f, <1>h DEF ChangeCoherent
  <1>5. CommitCoherent'
    BY <1>e DEF CommitCoherent
  <1>6. Ordered'
    <2>1. \A m \in Builds', q \in Requested' : m.gen < q.gen
      BY <1>d, <1>e, <1>f, <1>g DEF Ordered
    <2> QED
      BY <1>e, <2>1 DEF Ordered
  <1>7. Bounded'
    BY <1>d, <1>e, <1>f DEF Bounded
  <1>8. PendingServed'
    BY <1>d, <1>e, <1>f, <1>g DEF PendingServed, FitsPending
  <1>9. NothingNewBuilt'
    BY <1>d, <1>e, <1>f, <1>g DEF NothingNewBuilt
  <1> QED
    BY <1>1, <1>2, <1>3, <1>4, <1>5, <1>6, <1>7, <1>8, <1>9

\* A source revision closes the connection that waits for older builds.
LEMMA ApplyRevisionCoherent == SafetyInv /\ ApplyRevision => Coherent'
  <1> SUFFICES ASSUME SafetyInv, ApplyRevision PROVE Coherent'
    OBVIOUS
  <1>a. TypeInv /\ TypeOK /\ Coherent
    BY DEF SafetyInv, TypeInv
  <1>b. Results' = Results /\ Builds' = Builds /\ Requested' = Requested
    BY DEF ApplyRevision, channelVars, Results, Builds, Requested
  <1>c. op.gen \in Nat /\ active.gen \in Nat
    BY <1>a DEF ApplyRevision, TypeOK, TickTypeOK, ListenerTypeOK, ModePhases, ModeOp, Conn
  <1> USE <1>a DEF Coherent, ApplyRevision, viewVars, procVars, channelVars
  <1>1. ConnectionCoherent'
    BY DEF ConnectionCoherent, NoConn
  <1>2. SourcePerOutput' /\ DimensionCorrect' /\ ActiveSettled'
    BY <1>b DEF SourcePerOutput, DimensionCorrect, Connected, ActiveSettled
  <1>3. RevisionsAgree' /\ Starting'
    BY DEF RevisionsAgree, Starting
  <1>4. ChangeCoherent'
    BY DEF ChangeCoherent, ModePhases
  <1>5. CommitCoherent' /\ Bounded' /\ Ordered'
    BY <1>b DEF CommitCoherent, Bounded, Ordered
  <1>6. PendingServed' /\ NothingNewBuilt' /\ OfflineReset'
    BY DEF PendingServed, NothingNewBuilt, OfflineReset, Connected
  <1>7. StreamOwned'
    BY DEF StreamOwned, Connected
  <1> QED
    BY <1>1, <1>2, <1>3, <1>4, <1>5, <1>6, <1>7


------------------------------------------------------------------------------
(* Results are taken *)

\* What is common to all results: the channel after one is taken, and the
\* listener that is answered.
LEMMA AnsweredResult ==
    ASSUME SafetyInv, ResultConsumed
    PROVE  /\ Results' \subseteq Results /\ Builds' \subseteq Builds
           /\ Requested' = Requested
           /\ CommitCoherent' /\ Ordered'
           /\ generation' = generation => Bounded'
           /\ generation' = generation /\ pending' \in {pending, NoConn} =>
                ChangeCoherent' /\ NothingNewBuilt' /\ PendingServed'
           /\ IF Head(resultQ).commit THEN lpc = "commit" /\ lpc' = "commitDone"
                                      ELSE UNCHANGED <<lpc, ack>>
  <1>a. TypeInv /\ TypeOK /\ Coherent /\ CommitAwaited
    BY DEF SafetyInv, TypeInv
  <1>b. /\ Results' \subseteq Results /\ Builds' \subseteq Builds
        /\ Head(resultQ) \in Results /\ Ordered'
    BY <1>a, TakenResult DEF ResultConsumed, Coherent
  <1>c. Requested' = Requested /\ UNCHANGED <<op, lRev, lDim, handle>>
    BY DEF ResultConsumed, Requested, viewVars, procVars
  <1>d. IF Head(resultQ).commit THEN lpc = "commit" /\ lpc' = "commitDone"
                                ELSE UNCHANGED <<lpc, ack>>
    BY <1>a, <1>b DEF ResultConsumed, Answer, CommitAwaited, Results
  <1> USE <1>a, <1>b, <1>c, <1>d DEF Coherent
  <1>1. CommitCoherent'
    BY DEF CommitCoherent
  <1>2. generation' = generation => Bounded'
    BY DEF Bounded
  <1>3. ASSUME generation' = generation, pending' \in {pending, NoConn}
        PROVE  ChangeCoherent' /\ NothingNewBuilt' /\ PendingServed'
    <2>1. ChangeCoherent'
      BY <1>3 DEF ChangeCoherent, ModePhases
    <2>2. NothingNewBuilt'
      BY <1>3 DEF NothingNewBuilt, Committed, ChangeCoherent, ModePhases
    <2>3. PendingServed'
      BY <1>3 DEF PendingServed, FitsPending
    <2> QED
      BY <2>1, <2>2, <2>3
  <1> QED
    BY <1>1, <1>2, <1>3

LEMMA RefusedResultCoherent ==
    SafetyInv /\ (IgnoreStaleResult \/ RejectFailedBuild \/ RejectBackgroundMisfit)
        => Coherent'
  <1> SUFFICES ASSUME SafetyInv,
                      IgnoreStaleResult \/ RejectFailedBuild \/ RejectBackgroundMisfit
               PROVE  Coherent'
    OBVIOUS
  <1>a. TypeInv /\ TypeOK /\ Coherent
    BY DEF SafetyInv, TypeInv
  <1>b. ResultConsumed
    BY DEF IgnoreStaleResult, RejectFailedBuild, RejectBackgroundMisfit, ResultConsumed
  <1>c. /\ UNCHANGED <<tpc, generation, active, sources, tickRev, op, lRev, lDim,
                       handle, buildQ>>
        /\ \/ UNCHANGED <<pending, published>>
           \/ pending # NoConn /\ pending' = NoConn /\ published' = 0
        /\ Answer(Head(resultQ), FALSE)
        /\ tpc = "result"
    BY DEF IgnoreStaleResult, RejectFailedBuild, RejectBackgroundMisfit, DropPending,
       KeepPending, Matches, tickVars, connVars, sourceVars, viewVars, procVars
  <1>d. /\ Builds' \subseteq Builds
        /\ CommitCoherent' /\ Ordered' /\ Bounded'
        /\ ChangeCoherent' /\ NothingNewBuilt' /\ PendingServed'
        /\ IF Head(resultQ).commit THEN lpc = "commit" /\ lpc' = "commitDone"
                                   ELSE UNCHANGED <<lpc, ack>>
    BY <1>b, <1>c, AnsweredResult
  <1> USE <1>a, <1>c, <1>d DEF Coherent
  <1>1. ConnectionCoherent'
    BY DEF ConnectionCoherent, NoConn
  <1>2. SourcePerOutput' /\ DimensionCorrect' /\ ActiveSettled'
    BY DEF SourcePerOutput, DimensionCorrect, Connected, ActiveSettled
  <1>3. RevisionsAgree' /\ Starting' /\ OfflineReset'
    BY DEF RevisionsAgree, Starting, OfflineReset, Connected
  <1>4. StreamOwned'
    BY DEF StreamOwned, Connected, Answer
  <1> QED
    BY <1>1, <1>2, <1>3, <1>4

\* What a result becomes when the cached background was set on it.
LEMMA InstalledFacts ==
    ASSUME TypeOK, NEW m \in Result, m.ok
    PROVE  \E built \in Seq(Source) :
             /\ DOMAIN built = DOMAIN m.sources
             /\ \A i \in DOMAIN built :
                   /\ built[i].prog = m.sources[i].prog
                   /\ built[i].text = m.sources[i].text
                   /\ built[i].dim = m.sources[i].dim
                   /\ built[i].proc = m.sources[i].proc
                   /\ /\ AllAccept(m.sources, cachedBg) /\ cachedBg # None
                      /\ TakesBackground(built[i].prog)
                      => built[i].bg = cachedBg
             /\ Installed(m) =
                  IF ~Matches(m, pending) /\ Len(built) = 1 /\ Len(sources) > 1
                  THEN [sources EXCEPT ![1] = built[1]] ELSE built
  <1> DEFINE built == IF cachedBg = None THEN m.sources
                      ELSE SetBackgrounds(m.sources, cachedBg)
  <1>1. m.sources \in Seq(Source) /\ cachedBg \in Images
    BY InstalledType DEF TypeOK, TickTypeOK
  <1>2. /\ built \in Seq(Source) /\ DOMAIN built = DOMAIN m.sources
        /\ \A i \in DOMAIN m.sources :
              /\ built[i].prog = m.sources[i].prog
              /\ built[i].text = m.sources[i].text
              /\ built[i].dim = m.sources[i].dim
              /\ built[i].proc = m.sources[i].proc
    BY <1>1, SetBackgroundsFacts
  <1>3. Installed(m) =
          IF ~Matches(m, pending) /\ Len(built) = 1 /\ Len(sources) > 1
          THEN [sources EXCEPT ![1] = built[1]] ELSE built
    BY DEF Installed
  <1>4. ASSUME AllAccept(m.sources, cachedBg), cachedBg # None,
               NEW i \in DOMAIN m.sources, TakesBackground(m.sources[i].prog)
        PROVE  built[i].bg = cachedBg
    BY <1>1, <1>4, SetBackgroundsShown
  <1> HIDE DEF built
  <1> QED
    BY <1>2, <1>3, <1>4

\* The build for the pending connection replaces every source; the listener is
\* not in the middle of a mode change.
LEMMA BuildInstalled ==
    ASSUME SafetyInv, InstallResult, Matches(Head(resultQ), pending)
    PROVE  LET m == Head(resultQ) IN
             /\ m \in Results /\ m \in Builds /\ m \in Result /\ m.ok
             /\ m.rev <= lRev /\ m.rev \in Nat /\ tickRev \in Nat /\ generation \in Nat
             /\ pending # NoConn /\ pending.gen = m.gen /\ pending.gen = generation
             /\ active = NoConn /\ ~Committed
             /\ UNCHANGED <<lpc, ack, op>>
             /\ DOMAIN sources' = Outputs
             /\ \A i \in Outputs :
                   /\ sources'[i].prog = m.sources[i].prog
                   /\ sources'[i].text = m.sources[i].text
                   /\ sources'[i].dim = m.sources[i].dim
                   /\ sources'[i].proc = m.sources[i].proc
                   /\ cachedBg # None /\ TakesBackground(sources'[i].prog) =>
                         sources'[i].bg = cachedBg
  <1> DEFINE m == Head(resultQ)
  <1>a. TypeInv /\ TypeOK /\ Coherent /\ ChannelTypeOK
    BY DEF SafetyInv, TypeInv, TypeOK
  <1>b. ResultConsumed
    BY DEF InstallResult, ResultConsumed
  <1>c. /\ m \in Results /\ m \in Result /\ m.ok /\ m.rev <= lRev /\ m.gen <= generation
    BY <1>a, TakenResult, MessageTypes DEF InstallResult, Coherent, Bounded
  <1>d. pending # NoConn /\ pending.gen = m.gen /\ pending.gen = generation /\ active = NoConn
    BY <1>a DEF Matches, Coherent, ConnectionCoherent
  <1>e. m.rev \in Nat /\ tickRev \in Nat /\ generation \in Nat
    BY <1>a, <1>c DEF Result, TypeOK, TickTypeOK
  <1>f. ~m.commit
    <2> SUFFICES ASSUME m.commit PROVE FALSE
      OBVIOUS
    <2>1. lpc = "commit" /\ m.gen = op.gen
      BY <1>a, <1>b, <1>c, AnsweredResult DEF Coherent, CommitCoherent
    <2>2. op.gen < pending.gen /\ op.gen \in Nat
      BY <1>a, <1>d, <2>1 DEF Coherent, ChangeCoherent, ModePhases, TypeOK,
         ListenerTypeOK, ModeOp
    <2> QED
      BY <1>d, <2>1, <2>2
  <1>g. m \in Builds
    BY <1>c, <1>f DEF Builds
  <1>h. m.sources \in [Outputs -> Source]
    BY <1>c, <1>f DEF Result
  <1>i. /\ DOMAIN sources' = Outputs
        /\ \A i \in Outputs :
              /\ sources'[i].prog = m.sources[i].prog
              /\ sources'[i].text = m.sources[i].text
              /\ sources'[i].dim = m.sources[i].dim
              /\ sources'[i].proc = m.sources[i].proc
              /\ cachedBg # None /\ TakesBackground(sources'[i].prog) =>
                    sources'[i].bg = cachedBg
    BY <1>a, <1>c, <1>h, InstalledFacts DEF InstallResult
  <1>j. ~Committed
    <2>1. m.gen \in Nat
      BY <1>c DEF Result
    <2> QED
      BY <1>a, <1>d, <1>g, <2>1 DEF Coherent, NothingNewBuilt
  <1>k. UNCHANGED <<lpc, ack, op>>
    BY <1>f DEF InstallResult, Answer
  <1> QED
    BY <1>c, <1>d, <1>e, <1>g, <1>i, <1>j, <1>k

\* The build for the pending connection makes it active.
LEMMA InstallBuildCoherent ==
    SafetyInv /\ InstallResult /\ Matches(Head(resultQ), pending) => Coherent'
  <1> SUFFICES ASSUME SafetyInv, InstallResult, Matches(Head(resultQ), pending)
               PROVE  Coherent'
    OBVIOUS
  <1> DEFINE m == Head(resultQ)
  <1>a. TypeInv /\ TypeOK /\ Coherent /\ ChannelTypeOK
    BY DEF SafetyInv, TypeInv, TypeOK
  <1>b. ResultConsumed
    BY DEF InstallResult, ResultConsumed
  <1>c. /\ m \in Results /\ m \in Builds /\ m \in Result /\ m.ok
        /\ m.rev <= lRev /\ m.rev \in Nat /\ tickRev \in Nat /\ generation \in Nat
    BY BuildInstalled
  <1>d. /\ pending # NoConn /\ pending.gen = m.gen /\ pending.gen = generation
        /\ active = NoConn /\ ~Committed
    BY BuildInstalled
  <1>e. UNCHANGED <<lpc, ack, op>>
    BY BuildInstalled
  <1>f. ~m.commit
    BY <1>c DEF Builds
  <1>i. /\ DOMAIN sources' = Outputs
        /\ \A i \in Outputs : /\ sources'[i].prog = m.sources[i].prog
                             /\ sources'[i].dim = m.sources[i].dim
                             /\ sources'[i].proc = m.sources[i].proc
    BY BuildInstalled
  <1>j. /\ lDim = pending.dims[1]
        /\ \A k \in Outputs : m.sources[k].dim = pending.dims[k]
        /\ m.sources[1].prog \in Commands => m.sources[1].proc = handle
    BY <1>a, <1>c, <1>d DEF Coherent, PendingServed, FitsPending
  <1>k. /\ UNCHANGED <<tpc, generation, op, lpc, ack, lRev, lDim, handle, buildQ>>
        /\ active' = pending /\ pending' = NoConn /\ published' = m.gen
        /\ tickRev' = IF m.rev > tickRev THEN m.rev ELSE tickRev
        /\ tpc = "result"
    BY <1>e DEF InstallResult, viewVars, procVars
  <1>m. 1 \in Outputs
    BY CanvasAssumption DEF Outputs
  <1>n. /\ Builds' \subseteq Builds /\ Requested' = Requested
        /\ CommitCoherent' /\ Ordered' /\ Bounded'
        /\ ChangeCoherent' /\ NothingNewBuilt' /\ PendingServed'
    BY <1>b, <1>k, AnsweredResult
  <1>o. Builds' = {}
    <2> SUFFICES ASSUME NEW b \in Builds' PROVE FALSE
      OBVIOUS
    <2>1. m.gen < b.gen
      BY <1>a, <1>f, TakenResult DEF InstallResult, Coherent
    <2>2. b \in Builds
      BY <1>n
    <2>3. b \in Results
      BY <2>2 DEF Builds
    <2>4. b \in Result /\ b.gen <= generation
      BY <1>a, <2>3, MessageTypes DEF Coherent, Bounded
    <2>5. b.gen \in Nat
      BY <2>4 DEF Result
    <2> QED
      BY <1>c, <1>d, <2>1, <2>4, <2>5
  <1>p. buildQ = <<>>
    <2> SUFFICES ASSUME NEW r \in Requested PROVE FALSE
      BY <1>a, MessageTypes
    <2>1. m.gen < r.gen /\ r.gen <= generation
      BY <1>a, <1>c DEF Coherent, Ordered, Bounded
    <2>2. r.gen \in Nat
      BY <1>a, MessageTypes DEF Request
    <2> QED
      BY <1>c, <1>d, <2>1, <2>2
  <1> HIDE DEF m
  <1> USE <1>a, <1>d, <1>i, <1>j, <1>k DEF Coherent
  <1>1. ConnectionCoherent'
    BY DEF ConnectionCoherent
  <1>2. SourcePerOutput' /\ DimensionCorrect'
    BY DEF SourcePerOutput, DimensionCorrect
  <1>3. RevisionsAgree'
    BY <1>c DEF RevisionsAgree, TypeOK, ListenerTypeOK
  <1>4. Starting'
    BY DEF Starting
  <1>5. ActiveSettled'
    BY <1>o, <1>p DEF ActiveSettled
  <1>6. OfflineReset'
    BY DEF OfflineReset, Committed
  <1>7. StreamOwned'
    BY <1>m DEF StreamOwned, Committed, ChangeCoherent, ModePhases
  <1> QED
    BY <1>n, <1>1, <1>2, <1>3, <1>4, <1>5, <1>6, <1>7

\* For the active connection only a commit is left: it replaces the first
\* source, and no other.
LEMMA CommitInstalled ==
    ASSUME SafetyInv, InstallResult, ~Matches(Head(resultQ), pending)
    PROVE  LET m == Head(resultQ) IN
             /\ m \in Results /\ m.commit /\ m.sources = <<op.src>> /\ m.rev <= lRev
             /\ m.rev \in Nat /\ m.gen \in Nat /\ tickRev \in Nat
             /\ Connected /\ active.gen = m.gen
             /\ lpc = "commit" /\ lpc' = "commitDone" /\ ack'
             /\ DOMAIN sources = Outputs /\ DOMAIN sources' = Outputs
             /\ sources'[1].prog = op.src.prog /\ sources'[1].text = op.src.text
             /\ sources'[1].dim = op.src.dim /\ sources'[1].proc = op.src.proc
             /\ cachedBg # None /\ TakesBackground(op.src.prog) =>
                   sources'[1].bg = cachedBg
             /\ \A i \in Outputs \ {1} : sources'[i] = sources[i]
  <1> DEFINE m == Head(resultQ)
  <1>a. TypeInv /\ TypeOK /\ Coherent
    BY DEF SafetyInv, TypeInv
  <1>b. ResultConsumed
    BY DEF InstallResult, ResultConsumed
  <1>c. /\ m \in Results /\ m \in Result /\ m.ok /\ m.rev <= lRev
    BY <1>a, TakenResult, MessageTypes DEF InstallResult, Coherent, Bounded
  <1>d. Connected /\ active.gen = m.gen
    BY DEF InstallResult, IsStale, Matches, Connected
  <1>e. m.rev \in Nat /\ m.gen \in Nat /\ tickRev \in Nat
    BY <1>a, <1>c DEF Result, TypeOK, TickTypeOK
  <1>f. m.commit
    <2> SUFFICES ASSUME m \in Builds PROVE FALSE
      BY <1>c DEF Builds
    <2> QED
      BY <1>a, <1>d, <1>e DEF Coherent, ActiveSettled
  <1>g. m.sources = <<op.src>> /\ lpc = "commit" /\ lpc' = "commitDone" /\ ack'
    BY <1>a, <1>b, <1>c, <1>f, AnsweredResult
       DEF Coherent, CommitCoherent, InstallResult, Answer
  <1>h. /\ sources \in Seq(Source) /\ DOMAIN sources = Outputs
        /\ SourceCount \in Nat /\ SourceCount >= 1 /\ Outputs = 1..SourceCount
        /\ Len(sources) = SourceCount
    <2>1. SourceCount \in Nat /\ SourceCount >= 1 /\ Outputs = 1..SourceCount
      BY CanvasAssumption DEF Outputs
    <2>2. sources \in Seq(Source) /\ DOMAIN sources = Outputs
      BY <1>a DEF TypeOK, TickTypeOK, Coherent, SourcePerOutput
    <2>3. Len(sources) \in Nat /\ DOMAIN sources = 1..Len(sources)
      BY <2>2, LenProperties
    <2> QED
      BY <2>1, <2>2, <2>3
  <1>i. /\ DOMAIN sources' = Outputs
        /\ sources'[1].prog = op.src.prog /\ sources'[1].text = op.src.text
        /\ sources'[1].dim = op.src.dim /\ sources'[1].proc = op.src.proc
        /\ cachedBg # None /\ TakesBackground(op.src.prog) =>
              sources'[1].bg = cachedBg
        /\ \A i \in Outputs \ {1} : sources'[i] = sources[i]
    <2>1. PICK built \in Seq(Source) :
            /\ DOMAIN built = DOMAIN m.sources
            /\ \A i \in DOMAIN built :
                  /\ built[i].prog = m.sources[i].prog
                  /\ built[i].text = m.sources[i].text
                  /\ built[i].dim = m.sources[i].dim
                  /\ built[i].proc = m.sources[i].proc
                  /\ /\ AllAccept(m.sources, cachedBg) /\ cachedBg # None
                     /\ TakesBackground(built[i].prog)
                     => built[i].bg = cachedBg
            /\ Installed(m) =
                  IF ~Matches(m, pending) /\ Len(built) = 1 /\ Len(sources) > 1
                  THEN [sources EXCEPT ![1] = built[1]] ELSE built
      BY <1>a, <1>c, InstalledFacts
    <2>2. DOMAIN built = 1..1 /\ m.sources[1] = op.src
      BY <1>g, <2>1
    <2>3. Len(built) = 1
      BY <2>2, LenProperties
    <2>4. sources' = IF SourceCount > 1 THEN [sources EXCEPT ![1] = built[1]] ELSE built
      BY <1>h, <2>1, <2>3 DEF InstallResult
    <2>5. /\ built[1].prog = op.src.prog /\ built[1].text = op.src.text
          /\ built[1].dim = op.src.dim /\ built[1].proc = op.src.proc
          /\ cachedBg # None /\ TakesBackground(op.src.prog) => built[1].bg = cachedBg
      BY <2>1, <2>2 DEF InstallResult
    <2>6. CASE SourceCount > 1
      BY <1>h, <2>4, <2>5, <2>6
    <2>7. CASE SourceCount = 1
      BY <1>h, <2>2, <2>4, <2>5, <2>7
    <2> QED
      BY <1>h, <2>6, <2>7
  <1> QED
    BY <1>c, <1>d, <1>e, <1>f, <1>g, <1>h, <1>i

\* So the connection and its canvases stay.
LEMMA InstallCommitCoherent ==
    SafetyInv /\ InstallResult /\ ~Matches(Head(resultQ), pending) => Coherent'
  <1> SUFFICES ASSUME SafetyInv, InstallResult, ~Matches(Head(resultQ), pending)
               PROVE  Coherent'
    OBVIOUS
  <1> DEFINE m == Head(resultQ)
  <1>a. TypeInv /\ TypeOK /\ Coherent
    BY DEF SafetyInv, TypeInv
  <1>b. ResultConsumed
    BY DEF InstallResult, ResultConsumed
  <1>c. /\ m \in Results /\ m.rev <= lRev
        /\ m.rev \in Nat /\ m.gen \in Nat /\ tickRev \in Nat
    BY CommitInstalled
  <1>d. Connected /\ active.gen = m.gen
    BY CommitInstalled
  <1>g. m.commit /\ lpc = "commit" /\ lpc' = "commitDone" /\ ack'
    BY CommitInstalled
  <1>h. op.src.dim = lDim /\ lDim = active.dims[1] /\ op.src \in Source
    BY <1>a, <1>d, <1>g DEF Coherent, ChangeCoherent, ActiveSettled, ModePhases, TypeOK,
       ListenerTypeOK, ModeOp
  <1>i. /\ UNCHANGED <<tpc, generation, op, active, pending, published, lRev, lDim,
                       handle, buildQ>>
        /\ tickRev' = IF m.rev > tickRev THEN m.rev ELSE tickRev
        /\ tpc = "result"
    BY DEF InstallResult, viewVars, procVars
  <1>k. /\ DOMAIN sources' = Outputs
        /\ sources'[1].prog = op.src.prog /\ sources'[1].dim = op.src.dim
        /\ sources'[1].proc = op.src.proc
        /\ \A i \in Outputs \ {1} : sources'[i] = sources[i]
    BY CommitInstalled
  <1>l. /\ Builds' \subseteq Builds /\ Requested' = Requested
        /\ CommitCoherent' /\ Ordered' /\ Bounded'
        /\ ChangeCoherent' /\ NothingNewBuilt' /\ PendingServed'
    BY <1>b, <1>i, AnsweredResult
  <1> HIDE DEF m
  <1> USE <1>a, <1>d, <1>g, <1>h, <1>i DEF Coherent
  <1>1. ConnectionCoherent'
    BY DEF ConnectionCoherent
  <1>2. SourcePerOutput'
    BY <1>k DEF SourcePerOutput
  <1>3. DimensionCorrect'
    BY <1>k DEF DimensionCorrect
  <1>4. RevisionsAgree'
    BY <1>c DEF RevisionsAgree, TypeOK, ListenerTypeOK
  <1>5. Starting' /\ OfflineReset'
    BY DEF Starting, OfflineReset
  <1>6. ActiveSettled'
    BY <1>l DEF ActiveSettled, Connected
  <1>7. StreamOwned'
    BY <1>k DEF StreamOwned
  <1> QED
    BY <1>l, <1>1, <1>2, <1>3, <1>4, <1>5, <1>6, <1>7


------------------------------------------------------------------------------
(* The listener builds and changes modes *)

\* A listener that does not build sends no build and moves no canvas.
LEMMA BuildCoherent ==
    SafetyInv /\ (BuildSources \/ FirstBuildFails \/ LaterBuildFails) => Coherent'
  <1> SUFFICES ASSUME SafetyInv, BuildSources \/ FirstBuildFails \/ LaterBuildFails
               PROVE  Coherent'
    OBVIOUS
  <1> DEFINE r == Head(buildQ)
  <1>a. TypeInv /\ TypeOK /\ Coherent
    BY DEF SafetyInv, TypeInv
  <1>b. buildQ # <<>> /\ buildQ' = Tail(buildQ) /\ lpc = "select"
    BY DEF BuildSources, FirstBuildFails, LaterBuildFails
  <1>c. /\ r \in Requested /\ r \in Request /\ Requested' \subseteq Requested
        /\ \A q \in Requested' : r.gen < q.gen
        /\ \A i, j \in 1..Len(buildQ') : i < j => buildQ'[i].gen < buildQ'[j].gen
    BY <1>a, <1>b, TakenRequest, MessageTypes DEF Coherent
  <1>d. /\ UNCHANGED <<tpc, generation, pending, active, published, sources, tickRev,
                       lpc, op, ack, lRev>>
    BY DEF BuildSources, FirstBuildFails, LaterBuildFails, tickVars, connVars, sourceVars,
       listenerVars, syncVars, viewVars
  <1>e. active = NoConn /\ (tpc \notin {"startConnected", "startDisconnected"})
    BY <1>a, <1>b DEF Coherent, ActiveSettled, Connected, Starting
  <1>f. r.gen \in Nat /\ r.dims \in Canvases /\ lRev \in Nat /\ lProg \in Programs
        /\ lBg \in Images /\ nextProc \in Nat
    BY <1>a, <1>c DEF Request, TypeOK, ListenerTypeOK
  <1>g. PICK m \in Result :
          /\ SendResult(m) /\ m.gen = r.gen /\ m.rev = lRev /\ ~m.commit
          /\ m.ok => /\ lDim' = r.dims[1]
                     /\ \A k \in Outputs : m.sources[k].dim = r.dims[k]
                     /\ m.sources[1].prog \in Commands => m.sources[1].proc = handle'
    <2>1. CASE BuildSources
      <3> DEFINE ss == MakeSources(lProg, r.dims, lBg, nextProc)
                 m == [gen |-> r.gen, rev |-> lRev, ok |-> TRUE, commit |-> FALSE,
                       sources |-> ss]
      <3>1. /\ ss \in [Outputs -> Source]
            /\ \A k \in Outputs : ss[k].dim = r.dims[k]
            /\ ss[1].prog = lProg
            /\ lProg \in Commands => ss[1].proc = nextProc
        BY <1>f, MakeSourcesFacts
      <3>2. SendResult(m) /\ lDim' = r.dims[1] /\ (lProg \in Commands => handle' = nextProc)
        BY <2>1 DEF BuildSources, FirstSourceBuilt
      <3> HIDE DEF ss
      <3>3. m \in Result
        BY <1>f, <3>1 DEF Result
      <3>4. /\ m.gen = r.gen /\ m.rev = lRev /\ ~m.commit /\ m.sources = ss
        OBVIOUS
      <3> HIDE DEF m
      <3> QED
        BY <3>1, <3>2, <3>3, <3>4
    <2>2. CASE FirstBuildFails \/ LaterBuildFails
      <3>1. FailedBuild(r) \in Result /\ FailedBuild(r).gen = r.gen
            /\ FailedBuild(r).rev = lRev /\ ~FailedBuild(r).commit /\ ~FailedBuild(r).ok
        BY <1>f DEF FailedBuild, Result
      <3>2. SendResult(FailedBuild(r))
        BY <2>2 DEF FirstBuildFails, LaterBuildFails
      <3> QED
        BY <3>1, <3>2
    <2> QED
      BY <2>1, <2>2
  <1>h. Results' = Results \cup {m} /\ Builds' = Builds \cup {m}
    BY <1>a, <1>g, SentResult
  <1>i. \A b \in Builds : b.gen < r.gen /\ b.gen \in Nat
    <2>1. \A b \in Builds : b.gen < r.gen /\ b \in Results
      BY <1>a, <1>c DEF Coherent, Ordered, Builds
    <2> QED
      BY <1>a, <2>1, MessageTypes DEF Result
  <1>j. \A i, j \in 1..Len(resultQ') :
             i < j /\ ~resultQ'[i].commit /\ ~resultQ'[j].commit =>
                 resultQ'[i].gen < resultQ'[j].gen
    <2>1. \A b \in Builds : b.gen < m.gen
      BY <1>g, <1>i
    <2> QED
      BY <1>a, <1>g, <2>1, SentResultOrdered DEF Coherent
  <1>k. pending # NoConn => r.gen <= pending.gen /\ pending.gen \in Nat
        /\ (r.gen = pending.gen => r.dims = pending.dims)
    BY <1>a, <1>c DEF Coherent, ConnectionCoherent, Bounded, PendingServed, TypeOK,
       TickTypeOK, Conn
  <1> HIDE DEF r
  <1> USE <1>a, <1>b, <1>d, <1>e DEF Coherent
  <1>1. ConnectionCoherent' /\ RevisionsAgree'
    BY DEF ConnectionCoherent, RevisionsAgree
  <1>2. SourcePerOutput' /\ DimensionCorrect' /\ ActiveSettled' /\ StreamOwned'
        /\ OfflineReset'
    BY DEF SourcePerOutput, DimensionCorrect, Connected, ActiveSettled, StreamOwned,
           OfflineReset
  <1>3. Starting'
    BY DEF Starting
  <1>4. ChangeCoherent' /\ NothingNewBuilt'
    BY DEF ChangeCoherent, ModePhases, NothingNewBuilt, Committed
  <1>5. CommitCoherent'
    BY <1>g, <1>h DEF CommitCoherent
  <1>6. Bounded'
    BY <1>c, <1>f, <1>g, <1>h DEF Bounded
  <1>7. Ordered'
    <2>1. \A b \in Builds', q \in Requested' : b.gen < q.gen
      BY <1>c, <1>g, <1>h DEF Ordered
    <2> QED
      BY <1>c, <1>j, <2>1 DEF Ordered
  <1>8. PendingServed'
    <2> SUFFICES ASSUME pending # NoConn
                 PROVE  /\ pending.gen > 0
                        /\ \A q \in Requested' : q.gen = pending.gen => q.dims = pending.dims
                        /\ \A b \in Builds' : FitsPending(b)'
      BY DEF PendingServed
    <2>1. \A q \in Requested' : q.gen = pending.gen => q.dims = pending.dims
      BY <1>c DEF PendingServed
    <2>2. ASSUME NEW b \in Builds PROVE FitsPending(b)'
      BY <1>f, <1>i, <1>k, <2>2 DEF FitsPending
    <2>3. FitsPending(m)'
      BY <1>g, <1>k DEF FitsPending
    <2> QED
      BY <1>h, <2>1, <2>2, <2>3 DEF PendingServed
  <1> QED
    BY <1>1, <1>2, <1>3, <1>4, <1>5, <1>6, <1>7, <1>8

\* A mode change starts from the connection the listener knows of.
LEMMA TakeModeCoherent ==
    SafetyInv /\ tpc # "stopped" /\ (TakeLayout \/ TakeStream) => Coherent'
  <1> SUFFICES ASSUME SafetyInv, tpc # "stopped", TakeLayout \/ TakeStream
               PROVE  Coherent'
    OBVIOUS
  <1>a. TypeInv /\ TypeOK /\ Coherent /\ CommitAwaited
    BY DEF SafetyInv, TypeInv
  <1>b. /\ UNCHANGED <<tpc, generation, pending, active, published, sources, tickRev,
                       lRev, lDim, handle, ack, buildQ, resultQ>>
        /\ lpc = "select" /\ lpc' = "revision" /\ op'.gen = published
    BY DEF TakeLayout, TakeStream, tickVars, connVars, sourceVars, viewVars, procVars
  <1>c. op'.src.dim = lDim
    <2>1. /\ Head(modeQ).prog \in Programs /\ lDim \in Dims /\ lBg \in Images
          /\ nextProc \in Nat
      BY <1>a, ChangeHead DEF TakeLayout, TakeStream, Change, ModeChange, BackgroundChange,
         Programs, TypeOK, ListenerTypeOK
    <2>2. MakeSource(Head(modeQ).prog, lDim, lBg, nextProc).dim = lDim
          /\ MakeSource(Head(modeQ).prog, lDim, lBg, 0).dim = lDim
      BY <2>1, MakeSourceFacts
    <2> QED
      BY <2>2 DEF TakeLayout, TakeStream
  <1>d. Results' = Results /\ Builds' = Builds /\ Requested' = Requested
    BY <1>b DEF Results, Builds, Requested
  <1>e. \A m \in Results : ~m.commit
    BY <1>a, <1>b DEF CommitAwaited, Results
  <1>f. published = active.gen /\ generation \in Nat /\ active.gen \in Nat
        /\ pending.gen \in Nat
    BY <1>a DEF Coherent, ConnectionCoherent, TypeOK, TickTypeOK, Conn
  <1> USE <1>a, <1>b DEF Coherent
  <1>1. ConnectionCoherent' /\ RevisionsAgree' /\ Starting'
    BY DEF ConnectionCoherent, RevisionsAgree, Starting
  <1>2. SourcePerOutput' /\ DimensionCorrect' /\ ActiveSettled' /\ StreamOwned'
        /\ OfflineReset'
    BY <1>d DEF SourcePerOutput, DimensionCorrect, Connected, ActiveSettled, StreamOwned,
           OfflineReset
  <1>3. pending # NoConn => published = 0 /\ pending.gen > 0
    <2>1. pending # NoConn => active = NoConn
      BY DEF ConnectionCoherent
    <2>2. pending # NoConn => pending.gen > 0
      BY DEF PendingServed
    <2> QED
      BY <1>f, <2>1, <2>2 DEF NoConn
  <1>4. ChangeCoherent'
    BY <1>c, <1>f, <1>3 DEF ChangeCoherent, ConnectionCoherent, NoConn
  <1>5. CommitCoherent' /\ Bounded' /\ Ordered'
    BY <1>d, <1>e DEF CommitCoherent, Bounded, Ordered
  <1>6. PendingServed'
    BY <1>d DEF PendingServed, FitsPending
  <1>7. NothingNewBuilt'
    BY <1>3 DEF NothingNewBuilt, Committed
  <1> QED
    BY <1>1, <1>2, <1>4, <1>5, <1>6, <1>7


\* The layout recorded offline takes the stream down: no connection and no build
\* depends on it.
LEMMA RecordOfflineCoherent == SafetyInv /\ RecordOffline => Coherent'
  <1> SUFFICES ASSUME SafetyInv, RecordOffline PROVE Coherent'
    OBVIOUS
  <1>a. TypeInv /\ TypeOK /\ Coherent /\ CommitAwaited
    BY DEF SafetyInv, TypeInv
  <1>b. /\ UNCHANGED <<tpc, generation, pending, active, published, sources, tickRev,
                       lDim, buildQ, resultQ>>
        /\ lpc = "revisionDone" /\ lpc' = "select" /\ op.gen = 0 /\ lRev' = lRev + 1
    BY DEF RecordOffline, tickVars, connVars, sourceVars
  <1>c. Results' = Results /\ Builds' = Builds /\ Requested' = Requested
    BY <1>b DEF Results, Builds, Requested
  <1>d. \A m \in Results : ~m.commit
    BY <1>a, <1>b DEF CommitAwaited, Results
  <1>e. ~Connected /\ tpc \notin {"startConnected", "startDisconnected"}
    BY <1>a, <1>b DEF Coherent, OfflineReset, Starting
  <1>f. \A m \in Results : m.rev \in Nat /\ m.gen \in Nat
    BY <1>a, MessageTypes DEF Result
  <1>g. pending # NoConn => \A m \in Builds : m.gen < pending.gen /\ m.gen \in Nat
    BY <1>a, <1>b, <1>f DEF Coherent, NothingNewBuilt, Committed, Builds
  <1>h. lRev \in Nat /\ pending.gen \in Nat
    BY <1>a DEF TypeOK, TickTypeOK, ListenerTypeOK, Conn
  <1> USE <1>a, <1>b DEF Coherent
  <1>1. ConnectionCoherent' /\ RevisionsAgree' /\ Starting'
    BY <1>e, <1>h DEF ConnectionCoherent, RevisionsAgree, Starting
  <1>2. SourcePerOutput' /\ DimensionCorrect' /\ ActiveSettled' /\ StreamOwned'
        /\ OfflineReset'
    BY <1>e DEF SourcePerOutput, DimensionCorrect, Connected, ActiveSettled, StreamOwned,
           OfflineReset
  <1>3. ChangeCoherent' /\ NothingNewBuilt'
    BY DEF ChangeCoherent, ModePhases, NothingNewBuilt, Committed
  <1>4. CommitCoherent' /\ Bounded' /\ Ordered'
    BY <1>c, <1>d, <1>f, <1>h DEF CommitCoherent, Bounded, Ordered
  <1>5. PendingServed'
    BY <1>c, <1>g, <1>h DEF PendingServed, FitsPending
  <1> QED
    BY <1>1, <1>2, <1>3, <1>4, <1>5

\* The commit follows whatever builds are in the channel.
LEMMA SendCommitCoherent == SafetyInv /\ SendCommit => Coherent'
  <1> SUFFICES ASSUME SafetyInv, SendCommit PROVE Coherent'
    OBVIOUS
  <1> DEFINE m == [gen |-> op.gen, rev |-> lRev + 1, ok |-> TRUE, commit |-> TRUE,
                   sources |-> <<op.src>>]
  <1>a. TypeInv /\ TypeOK /\ Coherent /\ CommitAwaited
    BY DEF SafetyInv, TypeInv
  <1>b. /\ UNCHANGED <<tpc, generation, pending, active, published, sources, tickRev,
                       lDim, handle, op, buildQ>>
        /\ lpc = "revisionDone" /\ lpc' = "commit" /\ op.gen # 0 /\ lRev' = lRev + 1
        /\ SendResult(m)
    BY DEF SendCommit, tickVars, connVars, sourceVars, procVars
  <1>c. m \in Result /\ op.gen \in Nat /\ lRev \in Nat
    BY <1>a, <1>b DEF Result, TypeOK, ListenerTypeOK, ModePhases, ModeOp
  <1>d. m.gen = op.gen /\ m.rev = lRev + 1 /\ m.commit /\ m.sources = <<op.src>>
    OBVIOUS
  <1> HIDE DEF m
  <1>e. Results' = Results \cup {m} /\ Builds' = Builds /\ Requested' = Requested
    BY <1>a, <1>b, <1>c, <1>d, SentResult DEF Requested
  <1>f. \A i, j \in 1..Len(resultQ') :
             i < j /\ ~resultQ'[i].commit /\ ~resultQ'[j].commit =>
                 resultQ'[i].gen < resultQ'[j].gen
    BY <1>a, <1>b, <1>c, <1>d, SentResultOrdered DEF Coherent
  <1>g. \A b \in Results : ~b.commit /\ b.rev \in Nat
    BY <1>a, <1>b, MessageTypes DEF CommitAwaited, Results, Result
  <1> USE <1>a, <1>b DEF Coherent
  <1>1. ConnectionCoherent' /\ RevisionsAgree' /\ Starting'
    BY <1>c DEF ConnectionCoherent, RevisionsAgree, Starting
  <1>2. SourcePerOutput' /\ DimensionCorrect' /\ ActiveSettled' /\ StreamOwned'
        /\ OfflineReset'
    BY <1>e DEF SourcePerOutput, DimensionCorrect, Connected, ActiveSettled, StreamOwned,
           OfflineReset
  <1>3. ChangeCoherent'
    BY DEF ChangeCoherent, ModePhases
  <1>4. NothingNewBuilt' /\ PendingServed'
    BY <1>e DEF NothingNewBuilt, Committed, PendingServed, FitsPending
  <1>5. CommitCoherent'
    BY <1>d, <1>e, <1>g DEF CommitCoherent
  <1>6. Ordered'
    BY <1>e, <1>f DEF Ordered
  <1>7. Bounded'
    BY <1>c, <1>d, <1>e, <1>g DEF Bounded, ChangeCoherent, ModePhases
  <1> QED
    BY <1>1, <1>2, <1>3, <1>4, <1>5, <1>6, <1>7

\* The listener takes over the process the tick loop already reads.
LEMMA CommitAcceptedCoherent == SafetyInv /\ CommitAccepted => Coherent'
  <1> SUFFICES ASSUME SafetyInv, CommitAccepted PROVE Coherent'
    OBVIOUS
  <1>a. TypeInv /\ TypeOK /\ Coherent /\ CommitAwaited
    BY DEF SafetyInv, TypeInv
  <1>b. /\ UNCHANGED <<tpc, generation, pending, active, published, sources, tickRev,
                       lRev, ack, buildQ, resultQ>>
        /\ lpc = "commitDone" /\ ack /\ lpc' = "select"
        /\ handle' = op.src.proc /\ lDim' = op.src.dim
    BY DEF CommitAccepted, tickVars, connVars, sourceVars
  <1>c. op.src.dim = lDim /\ op.gen # 0
    BY <1>a, <1>b DEF Coherent, ChangeCoherent, ModePhases
  <1>d. Results' = Results /\ Builds' = Builds /\ Requested' = Requested
    BY <1>b DEF Results, Builds, Requested
  <1>e. \A m \in Results : ~m.commit
    BY <1>a, <1>b DEF CommitAwaited, Results
  <1>f. pending # NoConn =>
          \A m \in Builds : m.gen < pending.gen /\ m.gen \in Nat /\ pending.gen \in Nat
    BY <1>a, <1>b, <1>c, MessageTypes DEF Coherent, NothingNewBuilt, Committed, Builds,
       Result, TypeOK, TickTypeOK, Conn
  <1> USE <1>a, <1>b DEF Coherent
  <1>1. ConnectionCoherent' /\ RevisionsAgree' /\ Starting'
    BY DEF ConnectionCoherent, RevisionsAgree, Starting
  <1>2. SourcePerOutput' /\ DimensionCorrect' /\ ActiveSettled' /\ OfflineReset'
    BY <1>c, <1>d DEF SourcePerOutput, DimensionCorrect, Connected, ActiveSettled,
       OfflineReset
  <1>3. StreamOwned'
    BY DEF StreamOwned, Connected
  <1>4. ChangeCoherent' /\ NothingNewBuilt'
    BY DEF ChangeCoherent, ModePhases, NothingNewBuilt, Committed
  <1>5. CommitCoherent' /\ Bounded' /\ Ordered'
    BY <1>d, <1>e DEF CommitCoherent, Bounded, Ordered
  <1>6. PendingServed'
    BY <1>c, <1>d, <1>f DEF PendingServed, FitsPending
  <1> QED
    BY <1>1, <1>2, <1>3, <1>4, <1>5, <1>6

------------------------------------------------------------------------------
(* The invariant, and what it says *)

LEMMA InitSafety == Init => SafetyInv
  <1> SUFFICES ASSUME Init PROVE SafetyInv
    OBVIOUS
  <1>a. TypeInv /\ TypeOK
    BY InitType DEF TypeInv
  <1>b. PICK dims \in Canvases :
          /\ sources = TrySetBackgrounds(MakeSources(lProg, dims, None, 1), cachedBg)
          /\ lDim = dims[1]
    BY DEF Init, InitialSources
  <1>c. lProg \in Programs /\ cachedBg \in Images /\ None \in Images
    BY ProgramAssumption DEF Init, Images
  <1>d. 1 \in Outputs
    BY CanvasAssumption DEF Outputs
  <1>e. /\ DOMAIN sources = Outputs
        /\ sources[1].prog = lProg /\ sources[1].dim = dims[1]
        /\ lProg \in Commands => sources[1].proc = 1
    <2> DEFINE ss == MakeSources(lProg, dims, None, 1)
    <2>1. /\ ss \in Seq(Source) /\ DOMAIN ss = Outputs
          /\ ss[1].prog = lProg /\ ss[1].dim = dims[1]
          /\ lProg \in Commands => ss[1].proc = 1
      BY <1>c, <1>d, MakeSourcesFacts
    <2> HIDE DEF ss
    <2> QED
      BY <1>b, <1>c, <1>d, <2>1, TrySetBackgroundsFacts DEF ss
  <1>f. Results = {} /\ Builds = {} /\ Requested = {}
    BY <1>a, MessageTypes DEF Init, Builds
  <1>1. ConnectionCoherent /\ SourcePerOutput /\ DimensionCorrect /\ RevisionsAgree
    BY <1>e DEF Init, ConnectionCoherent, NoConn, SourcePerOutput, DimensionCorrect,
       Connected, RevisionsAgree
  <1>2. Starting
    BY <1>b, <1>e DEF Init, Starting
  <1>3. ChangeCoherent /\ CommitCoherent /\ Bounded /\ Ordered
    BY <1>f DEF Init, ChangeCoherent, ModePhases, CommitCoherent, Bounded, Ordered
  <1>4. PendingServed /\ ActiveSettled /\ NothingNewBuilt /\ OfflineReset /\ StreamOwned
    BY DEF Init, PendingServed, ActiveSettled, NothingNewBuilt, OfflineReset, StreamOwned,
           Connected
  <1> QED
    BY <1>a, <1>1, <1>2, <1>3, <1>4 DEF SafetyInv, Coherent

LEMMA SafetyStep == SafetyInv /\ [Next]_vars => SafetyInv'
  <1> SUFFICES ASSUME SafetyInv, [Next]_vars PROVE SafetyInv'
    OBVIOUS
  <1>1. TypeInv'
    BY TypeStep DEF SafetyInv
  <1> SUFFICES Coherent'
    BY <1>1 DEF SafetyInv
  <1>2. CASE TickMovesOn \/ OtherSteps
    BY <1>2, OtherStepsQuiet, QuietStepCoherent
  <1>3. CASE ApplyTemplate
    BY <1>3, ApplyTemplateQuiet, QuietStepCoherent
  <1>4. CASE ApplyBackground \/ RollBackBackground \/ WatchBackground
    BY <1>4, BackgroundsQuiet, QuietStepCoherent
  <1>5. CASE StartConnected \/ SendIsFatal \/ Stop \/ RequestQueueFull \/ ApplyRevision
    BY <1>5, StartConnectedCoherent, DisconnectCoherent, ApplyRevisionCoherent
  <1>6. ASSUME NEW dims \in Canvases, Negotiate(dims) PROVE Coherent'
    BY <1>6, NegotiateCoherent
  <1>7. CASE IgnoreStaleResult \/ RejectFailedBuild \/ RejectBackgroundMisfit
    BY <1>7, RefusedResultCoherent
  <1>8. CASE InstallResult
    BY <1>8, InstallBuildCoherent, InstallCommitCoherent
  <1>9. CASE BuildSources \/ FirstBuildFails \/ LaterBuildFails
    BY <1>9, BuildCoherent
  <1>10. CASE tpc # "stopped" /\ (TakeLayout \/ TakeStream)
    BY <1>10, TakeModeCoherent
  <1>11. CASE RecordOffline \/ SendCommit \/ CommitAccepted
    BY <1>11, RecordOfflineCoherent, SendCommitCoherent, CommitAcceptedCoherent
  <1> QED
    BY <1>2, <1>3, <1>4, <1>5, <1>6, <1>7, <1>8, <1>9, <1>10, <1>11
       DEF Next, TickStep, ListenerStep, TickMovesOn, OtherSteps, Gone

\* The inductive invariant holds in every behaviour: every message on a channel
\* belongs to the connection and the mode change it claims to.
THEOREM SafetyInvariant == Spec => []SafetyInv
  BY InitSafety, SafetyStep, PTL DEF Spec

\* The daemon never holds two connections, its generation watch tells the
\* listener of exactly the active one, and no connection is older than the last
\* one negotiated: the generations of src/service/tick.rs.
THEOREM ConnectionsCoherent == Spec => []ConnectionCoherent
  <1>1. SafetyInv => ConnectionCoherent
    BY DEF SafetyInv, Coherent
  <1> QED
    BY SafetyInvariant, <1>1, PTL

\* Stale builds cannot overwrite a newer connection: while connected, every
\* source was rendered for the canvas of the connection its frames go to.
THEOREM FramesFitTheConnection == Spec => []DimensionCorrect
  <1>1. SafetyInv => DimensionCorrect
    BY DEF SafetyInv, Coherent
  <1> QED
    BY SafetyInvariant, <1>1, PTL

\* The tick loop holds one source per output, so its count check never fails.
THEOREM OneSourcePerOutput == Spec => []SourcePerOutput
  <1>1. SafetyInv => SourcePerOutput
    BY DEF SafetyInv, Coherent
  <1> QED
    BY SafetyInvariant, <1>1, PTL

\* Listener and tick loop count source revisions alike, so the tick loop never
\* refuses one as older than its own.
THEOREM RevisionsNeverDiverge == Spec => []RevisionsAgree
  <1>1. SafetyInv => RevisionsAgree
    BY DEF SafetyInv, Coherent
  <1> QED
    BY SafetyInvariant, <1>1, PTL

\* The process whose frames are sent is one the listener keeps alive.
THEOREM StreamAlive == Spec => []LiveStream
  <1>1. SafetyInv => LiveStream
    BY DEF SafetyInv, Coherent, StreamOwned, LiveStream
  <1> QED
    BY SafetyInvariant, <1>1, PTL

\* Both together: a display is fed from sources that were built for it and still
\* run, in whatever order builds, commits, disconnects and reconnects come.
THEOREM SourcesAlwaysServe == Spec => []SourcesServe
  BY FramesFitTheConnection, StreamAlive, PTL DEF SourcesServe

------------------------------------------------------------------------------
(* The program that the first display shows *)

\* A mode change in flight carries a source built for its own program.
ChangeBuilt ==
    lpc \in ModePhases =>
        op.src.prog = op.change.prog /\ op.src.text = op.change.prog

\* Template text that the tick loop has not read yet is that of the program,
\* unless the program is a stream, which takes none.
TemplateCurrent == template \in {Seen, lProg} \/ lProg \in Commands

StartingProgram ==
    tpc \in StartPhases =>
        sources[1].prog = lProg /\ sources[1].text = lProg /\ template = Seen

\* A build on its way to the pending connection is of the listener's program:
\* no change was accepted between the build and its installation.
PendingProgram ==
    pending # NoConn =>
        \A m \in Builds : m.ok /\ m.gen = pending.gen =>
            m.sources[1].prog = lProg /\ m.sources[1].text = lProg

\* The first source runs the program of an accepted change until the listener
\* has heard of it, the listener's otherwise.  The text of an older template
\* may have reached it; then the text of its own is on the way.
ProgramOwned ==
    Connected =>
        IF lpc = "commitDone" /\ ack
        THEN /\ sources[1].prog = op.src.prog
             /\ sources[1].text = op.src.prog \/ TakesTemplate(op.src.prog)
        ELSE /\ sources[1].prog = lProg
             /\ \/ sources[1].text = lProg
                \/ template = lProg /\ TakesTemplate(lProg)

ProgramInv ==
    /\ ChangeBuilt /\ TemplateCurrent /\ StartingProgram /\ PendingProgram
    /\ ProgramOwned

\* Only the two operations that start a mode change set what it carries.
LEMMA ChangeBuiltStep ==
    ASSUME SafetyInv, ChangeBuilt, [Next]_vars
    PROVE  ChangeBuilt'
  <1>a. TypeInv /\ TypeOK /\ Coherent
    BY DEF SafetyInv, TypeInv
  <1>1. CASE lpc' \in ModePhases => lpc \in ModePhases /\ op' = op
    BY <1>1 DEF ChangeBuilt
  <1>2. CASE TakeLayout \/ TakeStream
    <2> DEFINE change == Head(modeQ)
    <2>1. /\ change.prog \in Programs /\ lDim \in Dims /\ lBg \in Images
          /\ nextProc \in Nat
      BY <1>a, <1>2, ChangeHead DEF TakeLayout, TakeStream, Change, ModeChange,
         BackgroundChange, Programs, TypeOK, ListenerTypeOK
    <2>2. \A proc \in {0, nextProc} :
             LET s == MakeSource(change.prog, lDim, lBg, proc) IN
               s.prog = change.prog /\ s.text = change.prog
      BY <2>1, MakeSourceFacts
    <2>3. \E proc \in {0, nextProc} :
             op' = [change |-> change, gen |-> published,
                    src |-> MakeSource(change.prog, lDim, lBg, proc)]
      BY <1>2 DEF TakeLayout, TakeStream
    <2> QED
      BY <2>2, <2>3 DEF ChangeBuilt
  <1>3. CASE OtherSteps \/ RecordOffline \/ SendCommit \/ CommitAccepted
    BY <1>1, <1>3 DEF OtherSteps, NoDisplayFound, PendingTimesOut, RetryFallsDue,
       TakeBackground, RefuseModeChange, CommitRefused, BackgroundAccepted,
       BackgroundRefused, RefuseChange, Ask, vars, RecordOffline, SendCommit,
       CommitAccepted, ModePhases, listenerVars, syncVars
  <1>4. CASE TickMovesOn
    BY <1>1, <1>4, TickMovesOnFacts DEF listenerVars, syncVars
  <1>5. CASE ApplyTemplate \/ ApplyBackground \/ RollBackBackground \/ WatchBackground
    BY <1>1, <1>5 DEF ApplyTemplate, ApplyBackground, RollBackBackground,
       WatchBackground, ModePhases, listenerVars, syncVars
  <1>6. CASE StartConnected \/ SendIsFatal \/ Stop \/ RequestQueueFull \/ ApplyRevision
             \/ \E dims \in Canvases : Negotiate(dims)
    BY <1>1, <1>6 DEF StartConnected, SendIsFatal, Stop, RequestQueueFull,
       ApplyRevision, Negotiate, ModePhases, listenerVars, syncVars
  <1>7. CASE IgnoreStaleResult \/ RejectFailedBuild \/ RejectBackgroundMisfit
             \/ InstallResult
    <2>1. ResultConsumed
      BY <1>7 DEF IgnoreStaleResult, RejectFailedBuild, RejectBackgroundMisfit,
         InstallResult, ResultConsumed
    <2>2. IF Head(resultQ).commit THEN lpc = "commit" /\ lpc' = "commitDone"
                                  ELSE UNCHANGED <<lpc, ack>>
      BY <2>1, AnsweredResult
    <2> QED
      BY <1>1, <2>1, <2>2 DEF ResultConsumed, ModePhases
  <1>8. CASE BuildSources \/ FirstBuildFails \/ LaterBuildFails
    BY <1>1, <1>8 DEF BuildSources, FirstBuildFails, LaterBuildFails, listenerVars,
       syncVars
  <1> QED
    BY <1>2, <1>3, <1>4, <1>5, <1>6, <1>7, <1>8
       DEF Next, TickStep, ListenerStep, TickMovesOn, OtherSteps, Gone

\* A step that changes neither the program nor what is built of it.
ProgramKept ==
    /\ UNCHANGED <<lProg, template>>
    /\ active' \in {active, NoConn} /\ pending' \in {pending, NoConn}
    /\ \A m \in Builds' : m \in Builds \/ ~m.ok
    /\ sources'[1].prog = sources[1].prog /\ sources'[1].text = sources[1].text
    /\ tpc' \in StartPhases => tpc \in StartPhases
    /\ lpc' = "commitDone" /\ ack' <=> lpc = "commitDone" /\ ack
    /\ lpc = "commitDone" /\ ack => op' = op

LEMMA ProgramKeptStep ==
    ASSUME ProgramInv, ProgramKept, ChangeBuilt'
    PROVE  ProgramInv'
  <1>1. TemplateCurrent' /\ StartingProgram'
    BY DEF ProgramInv, ProgramKept, TemplateCurrent, StartingProgram
  <1>2. PendingProgram'
    BY DEF ProgramInv, ProgramKept, PendingProgram
  <1>3. ProgramOwned'
    <2>1. Connected' => Connected /\ active' = active
      BY DEF ProgramKept, Connected
    <2> QED
      BY <2>1 DEF ProgramInv, ProgramKept, ProgramOwned
  <1> QED
    BY <1>1, <1>2, <1>3 DEF ProgramInv

\* Which steps those are: all that leave the first source and the listener's
\* program alone ...
LEMMA FirstSourceKept ==
    ASSUME SafetyInv,
           UNCHANGED sources \/ ApplyBackground \/ RollBackBackground \/ WatchBackground
    PROVE  sources'[1].prog = sources[1].prog /\ sources'[1].text = sources[1].text
  <1>1. /\ sources \in Seq(Source) /\ cachedBg \in Images
        /\ bgWatch \in Images \cup {Seen} /\ 1 \in DOMAIN sources
        /\ (lpc \in BackgroundPhases => op.change.image \in Images)
    BY CanvasAssumption
       DEF SafetyInv, TypeInv, TypeOK, TickTypeOK, ListenerTypeOK, ChannelTypeOK,
           BackgroundOp, BackgroundChange, Coherent, SourcePerOutput, Outputs
  <1>2. CASE UNCHANGED sources
    BY <1>2
  <1>3. CASE ApplyBackground
    BY <1>1, <1>3, SetBackgroundsFacts DEF ApplyBackground, BackgroundPhases
  <1>4. CASE RollBackBackground
    <2> DEFINE half == SetBackgrounds(sources, op.change.image)
    <2>1. /\ half \in Seq(Source) /\ 1 \in DOMAIN half
          /\ half[1].prog = sources[1].prog /\ half[1].text = sources[1].text
      BY <1>1, <1>4, SetBackgroundsFacts DEF RollBackBackground, BackgroundPhases
    <2>2. sources' = TrySetBackgrounds(half, cachedBg)
      BY <1>4 DEF RollBackBackground
    <2> HIDE DEF half
    <2> QED
      BY <1>1, <2>1, <2>2, TrySetBackgroundsFacts
  <1>5. CASE WatchBackground
    BY <1>1, <1>5, SetBackgroundsFacts DEF WatchBackground
  <1> QED
    BY <1>2, <1>3, <1>4, <1>5

ProgramKeepers ==
    \/ TickMovesOn \/ OtherSteps
    \/ ApplyBackground \/ RollBackBackground \/ WatchBackground
    \/ SendIsFatal \/ Stop \/ RequestQueueFull \/ ApplyRevision
    \/ IgnoreStaleResult \/ RejectFailedBuild \/ RejectBackgroundMisfit
    \/ FirstBuildFails \/ LaterBuildFails
    \/ tpc # "stopped" /\ (TakeLayout \/ TakeStream)
    \/ SendCommit

LEMMA ProgramKeepersKeep == SafetyInv /\ ProgramKeepers => ProgramKept
  <1> SUFFICES ASSUME SafetyInv, ProgramKeepers PROVE ProgramKept
    OBVIOUS
  <1>a. TypeInv /\ TypeOK /\ Coherent
    BY DEF SafetyInv, TypeInv
  <1>b. UNCHANGED resultQ => \A m \in Builds' : m \in Builds
    BY DEF Builds, Results
  <1>c. NoConn \in {pending, NoConn}
    OBVIOUS
  <1> USE <1>b, FirstSourceKept
      DEF ProgramKept, StartPhases, connVars, sourceVars, tickVars, syncVars, viewVars,
          procVars, listenerVars, watches, channelVars
  <1>1. CASE TickMovesOn
    BY <1>1, TickMovesOnFacts
  <1>2. CASE OtherSteps
    <2>1. CASE NoDisplayFound \/ PendingTimesOut \/ RetryFallsDue
               \/ (\E change \in Change : Ask(change)) \/ UNCHANGED vars
      BY <2>1 DEF NoDisplayFound, PendingTimesOut, RetryFallsDue, Ask, vars
    <2>2. CASE TakeBackground \/ RefuseModeChange \/ CommitRefused
               \/ BackgroundAccepted \/ BackgroundRefused
      BY <2>2 DEF TakeBackground, RefuseModeChange, CommitRefused, BackgroundAccepted,
         BackgroundRefused, RefuseChange
    <2> QED
      BY <1>2, <2>1, <2>2 DEF OtherSteps
  <1>3. CASE ApplyBackground \/ RollBackBackground \/ WatchBackground
    <2>1. /\ sources'[1].prog = sources[1].prog /\ sources'[1].text = sources[1].text
          /\ UNCHANGED <<lProg, template, active, resultQ, op>>
          /\ pending' \in {pending, NoConn}
          /\ tpc' \in {"bgApply", "connect"}
      BY <1>3 DEF ApplyBackground, RollBackBackground, WatchBackground
    <2>2. ApplyBackground \/ RollBackBackground =>
            lpc # "commitDone" /\ lpc' # "commitDone"
      BY DEF ApplyBackground, RollBackBackground
    <2>3. WatchBackground => UNCHANGED <<lpc, ack>>
      BY DEF WatchBackground
    <2> QED
      BY <1>3, <2>1, <2>2, <2>3
  <1>4. CASE SendIsFatal \/ Stop \/ RequestQueueFull \/ ApplyRevision
    BY <1>4 DEF SendIsFatal, Stop, RequestQueueFull, ApplyRevision
  <1>5. CASE IgnoreStaleResult \/ RejectFailedBuild \/ RejectBackgroundMisfit
    <2>1. ResultConsumed
      BY <1>5 DEF IgnoreStaleResult, RejectFailedBuild, RejectBackgroundMisfit,
         ResultConsumed
    <2>2. /\ Builds' \subseteq Builds
          /\ IF Head(resultQ).commit THEN lpc = "commit" /\ lpc' = "commitDone"
                                     ELSE UNCHANGED <<lpc, ack>>
      BY <2>1, AnsweredResult
    <2>3. Answer(Head(resultQ), FALSE)
      BY <1>5 DEF IgnoreStaleResult, RejectFailedBuild, RejectBackgroundMisfit
    <2> QED
      BY <1>5, <2>2, <2>3 DEF IgnoreStaleResult, RejectFailedBuild,
         RejectBackgroundMisfit, DropPending, KeepPending, Answer
  <1>6. CASE FirstBuildFails \/ LaterBuildFails
    <2> DEFINE m == FailedBuild(Head(buildQ))
    <2>1. m \in Result /\ ~m.ok /\ ~m.commit
      <3>1. Head(buildQ).gen \in Nat /\ lRev \in Nat
        BY <1>a, <1>6, RequestHead DEF FirstBuildFails, LaterBuildFails, Request,
           TypeOK, ListenerTypeOK
      <3> QED
        BY <3>1 DEF FailedBuild, Result
    <2>2. SendResult(m)
      BY <1>6 DEF FirstBuildFails, LaterBuildFails
    <2> HIDE DEF m
    <2>3. Builds' = Builds \cup {m}
      BY <1>a, <2>1, <2>2, SentResult
    <2> QED
      BY <1>6, <2>1, <2>3 DEF FirstBuildFails, LaterBuildFails
  <1>7. CASE TakeLayout \/ TakeStream
    BY <1>7 DEF TakeLayout, TakeStream
  <1>8. CASE SendCommit
    <2> DEFINE m == [gen |-> op.gen, rev |-> lRev + 1, ok |-> TRUE, commit |-> TRUE,
                     sources |-> <<op.src>>]
    <2>1. SendResult(m) /\ m.commit
      BY <1>8 DEF SendCommit
    <2>2. m \in Result
      BY <1>a, <1>8 DEF SendCommit, Result, TypeOK, ListenerTypeOK, ModePhases, ModeOp
    <2> HIDE DEF m
    <2>3. Builds' = Builds
      BY <1>a, <2>1, <2>2, SentResult
    <2> QED
      BY <1>8, <2>3 DEF SendCommit
  <1> QED
    BY <1>1, <1>2, <1>3, <1>4, <1>5, <1>6, <1>7, <1>8 DEF ProgramKeepers

\* ... and the others, one by one.  The first connection shows what main built.
LEMMA StartConnectedProgram ==
    ASSUME SafetyInv, ProgramInv, StartConnected, ChangeBuilt'
    PROVE  ProgramInv'
  <1>1. /\ sources \in Seq(Source) /\ cachedBg \in Images /\ 1 \in DOMAIN sources
        /\ lpc # "commitDone" /\ pending = NoConn
        /\ sources[1].prog = lProg /\ sources[1].text = lProg /\ template = Seen
    BY CanvasAssumption
       DEF StartConnected, SafetyInv, TypeInv, TypeOK, TickTypeOK, Coherent,
           SourcePerOutput, Outputs, Starting, ProgramInv, StartingProgram, StartPhases
  <1>2. sources'[1].prog = sources[1].prog /\ sources'[1].text = sources[1].text
    BY <1>1, TrySetBackgroundsFacts DEF StartConnected
  <1>3. /\ UNCHANGED <<lProg, template, lpc, ack, op, pending>>
        /\ tpc' \notin StartPhases
    BY DEF StartConnected, StartPhases, listenerVars, syncVars, viewVars, channelVars,
       watches
  <1> QED
    BY <1>1, <1>2, <1>3 DEF ProgramInv, TemplateCurrent, StartingProgram, PendingProgram,
       ProgramOwned

\* Nothing was built yet for a connection that has just been negotiated.
LEMMA NegotiateProgram ==
    ASSUME SafetyInv, ProgramInv, NEW dims \in Canvases, Negotiate(dims), ChangeBuilt'
    PROVE  ProgramInv'
  <1>1. /\ UNCHANGED <<lProg, template, lpc, ack, op, active, sources, resultQ>>
        /\ tpc' \notin StartPhases
        /\ pending'.gen = generation + 1 /\ generation \in Nat
    BY DEF Negotiate, StartPhases, sourceVars, listenerVars, syncVars, viewVars, watches,
       SafetyInv, TypeInv, TypeOK, TickTypeOK
  <1>2. \A m \in Builds' : m.gen # pending'.gen
    <2>1. \A m \in Results : m.gen \in Nat /\ m.gen <= generation
      BY MessageTypes DEF SafetyInv, TypeInv, Coherent, Bounded, Result
    <2>2. Builds' \subseteq Results
      BY <1>1 DEF Builds, Results
    <2> QED
      BY <1>1, <2>1, <2>2
  <1> QED
    BY <1>1, <1>2 DEF ProgramInv, TemplateCurrent, StartingProgram, PendingProgram,
       ProgramOwned, Connected

\* An older template may reach the source of a newer change; the invariant then
\* says that the listener is about to send its own.
LEMMA ApplyTemplateProgram ==
    ASSUME SafetyInv, ProgramInv, ApplyTemplate, ChangeBuilt'
    PROVE  ProgramInv'
  <1>a. /\ sources \in Seq(Source) /\ 1 \in DOMAIN sources
        /\ lProg \in Programs /\ template \in Layouts \cup {Seen}
    BY CanvasAssumption
       DEF SafetyInv, TypeInv, TypeOK, TickTypeOK, ListenerTypeOK, ChannelTypeOK, Coherent,
           SourcePerOutput, Outputs
  <1>b. sources[1] \in Source
    BY <1>a
  <1>1. /\ UNCHANGED <<lProg, lpc, ack, op, active, pending, resultQ>>
        /\ template' = Seen /\ tpc' \notin StartPhases
    BY DEF ApplyTemplate, StartPhases, connVars, listenerVars, syncVars, viewVars
  <1>2. /\ sources'[1].prog = sources[1].prog
        /\ sources'[1].text = IF template # Seen /\ TakesTemplate(sources[1].prog)
                              THEN template ELSE sources[1].text
    <2>1. CASE template # Seen /\ TakesTemplate(sources[1].prog)
      <3>1. sources'[1] = [sources[1] EXCEPT !.text = template]
        BY <1>a, <2>1 DEF ApplyTemplate
      <3> QED
        BY <1>b, <2>1, <3>1 DEF Source
    <2>2. CASE ~(template # Seen /\ TakesTemplate(sources[1].prog))
      BY <2>2 DEF ApplyTemplate
    <2> QED
      BY <2>1, <2>2
  <1>3. PendingProgram'
    BY <1>1 DEF ProgramInv, PendingProgram, Builds, Results
  <1>4. ProgramOwned'
    <2> SUFFICES ASSUME Connected PROVE ProgramOwned'
      BY <1>1 DEF ProgramOwned, Connected
    <2>1. CASE lpc = "commitDone" /\ ack
      BY <1>1, <1>2, <2>1 DEF ProgramInv, ProgramOwned
    <2>2. CASE ~(lpc = "commitDone" /\ ack)
      <3>1. /\ sources[1].prog = lProg
            /\ \/ sources[1].text = lProg
               \/ template = lProg /\ TakesTemplate(lProg)
        BY <2>2 DEF ProgramInv, ProgramOwned
      <3>2. TakesTemplate(lProg) => lProg \notin Commands
        BY ProgramAssumption DEF TakesTemplate
      <3>3. template # Seen /\ TakesTemplate(lProg) => template = lProg
        BY <3>2 DEF ProgramInv, TemplateCurrent
      <3>4. TakesTemplate(lProg) => lProg # Seen
        BY MarkerAssumption DEF TakesTemplate
      <3>5. sources'[1].prog = lProg /\ sources'[1].text = lProg
        BY <1>2, <3>1, <3>3, <3>4
      <3> QED
        BY <1>1, <2>2, <3>5 DEF ProgramOwned
    <2> QED
      BY <2>1, <2>2
  <1> QED
    BY <1>1, <1>3, <1>4 DEF ProgramInv, TemplateCurrent, StartingProgram

\* A result that is installed carries the listener's program, or that of the
\* change it waits for.
LEMMA InstallProgram ==
    ASSUME SafetyInv, ProgramInv, InstallResult, ChangeBuilt'
    PROVE  ProgramInv'
  <1> DEFINE m == Head(resultQ)
  <1>a. Coherent /\ 1 \in Outputs
    BY CanvasAssumption DEF SafetyInv, Outputs
  <1>b. ResultConsumed
    BY DEF InstallResult, ResultConsumed
  <1>c. /\ UNCHANGED <<lProg, template, op, generation>>
        /\ tpc' \notin StartPhases
        /\ pending' \in {pending, NoConn}
    BY DEF InstallResult, viewVars, watches, StartPhases
  <1>d. Builds' \subseteq Builds
    BY <1>b, AnsweredResult
  <1>1. TemplateCurrent' /\ StartingProgram'
    BY <1>c DEF ProgramInv, TemplateCurrent, StartingProgram
  <1>2. PendingProgram'
    BY <1>c, <1>d DEF ProgramInv, PendingProgram
  <1>3. CASE Matches(m, pending)
    <2>1. /\ m \in Builds /\ m.ok /\ pending # NoConn /\ pending.gen = m.gen
          /\ ~Committed /\ UNCHANGED <<lpc, ack>>
          /\ sources'[1].prog = m.sources[1].prog
          /\ sources'[1].text = m.sources[1].text
      BY <1>a, <1>3, BuildInstalled
    <2>2. m.sources[1].prog = lProg /\ m.sources[1].text = lProg
      BY <2>1 DEF ProgramInv, PendingProgram
    <2>3. lpc # "commitDone"
      BY <1>a, <2>1 DEF Committed, Coherent, ChangeCoherent, ModePhases
    <2>4. ProgramOwned'
      BY <1>c, <2>1, <2>2, <2>3 DEF ProgramOwned
    <2> QED
      BY <1>1, <1>2, <2>4 DEF ProgramInv
  <1>4. CASE ~Matches(m, pending)
    <2>1. /\ lpc = "commit" /\ lpc' = "commitDone" /\ ack'
          /\ sources'[1].prog = op.src.prog /\ sources'[1].text = op.src.text
      BY <1>4, CommitInstalled
    <2>2. op.src.text = op.src.prog
      BY <2>1 DEF ProgramInv, ChangeBuilt, ModePhases
    <2>3. ProgramOwned'
      BY <1>c, <2>1, <2>2 DEF ProgramOwned
    <2> QED
      BY <1>1, <1>2, <2>3 DEF ProgramInv
  <1> QED
    BY <1>3, <1>4

\* The listener builds its own program.
LEMMA BuildProgram ==
    ASSUME SafetyInv, ProgramInv, BuildSources, ChangeBuilt'
    PROVE  ProgramInv'
  <1> DEFINE r == Head(buildQ)
             ss == MakeSources(lProg, r.dims, lBg, nextProc)
             m == [gen |-> r.gen, rev |-> lRev, ok |-> TRUE, commit |-> FALSE,
                   sources |-> ss]
  <1>1. /\ UNCHANGED <<lProg, template, lpc, ack, op, active, pending, sources, tpc>>
        /\ SendResult(m)
    BY DEF BuildSources, tickVars, connVars, sourceVars, syncVars, watches
  <1>2. /\ r.dims \in Canvases /\ r.gen \in Nat /\ lRev \in Nat /\ lProg \in Programs
        /\ lBg \in Images /\ nextProc \in Nat
    BY RequestHead DEF BuildSources, Request, SafetyInv, TypeInv, TypeOK, ListenerTypeOK
  <1>3. /\ ss \in [Outputs -> Source]
        /\ ss[1].prog = lProg /\ ss[1].text = lProg
    BY <1>2, MakeSourcesFacts
  <1>4. m.sources = ss /\ ~m.commit
    OBVIOUS
  <1> HIDE DEF ss
  <1>5. m \in Result
    BY <1>2, <1>3 DEF Result
  <1> HIDE DEF m
  <1>6. Builds' = Builds \cup {m}
    BY <1>1, <1>4, <1>5, SentResult DEF SafetyInv, TypeInv
  <1>7. PendingProgram'
    BY <1>1, <1>3, <1>4, <1>6 DEF ProgramInv, PendingProgram
  <1> QED
    BY <1>1, <1>7 DEF ProgramInv, TemplateCurrent, StartingProgram, ProgramOwned, Connected

\* When the listener adopts a change no build of its former program can be
\* installed any more.
LEMMA AdoptProgram ==
    ASSUME SafetyInv, ProgramInv, RecordOffline \/ CommitAccepted, ChangeBuilt'
    PROVE  ProgramInv'
  <1>a. TypeOK /\ Coherent
    BY DEF SafetyInv, TypeInv
  <1>b. /\ UNCHANGED <<active, pending, sources, tpc, resultQ>>
        /\ lpc \in {"revisionDone", "commitDone"} /\ lpc' = "select"
        /\ lProg' = op.change.prog
        /\ template' = IF op.change.class = "layout" THEN op.change.prog ELSE template
    BY DEF RecordOffline, CommitAccepted, Adopt, tickVars, connVars, sourceVars
  <1>c. /\ op.change \in ModeChange /\ op.gen \in Nat
        /\ op.change.class = "layout" => op.change.prog \in Layouts
        /\ op.change.class # "layout" => op.change.prog \in Commands
    BY <1>a, <1>b DEF TypeOK, ListenerTypeOK, ModePhases, ModeOp, ModeChange
  <1>d. TakesTemplate(lProg') => template' = lProg'
    BY <1>b, <1>c, ProgramAssumption DEF TakesTemplate
  <1>1. TemplateCurrent'
    BY <1>b, <1>c DEF TemplateCurrent
  <1>2. StartingProgram'
    BY <1>a, <1>b DEF Coherent, Starting, StartingProgram, StartPhases
  <1>3. PendingProgram'
    <2>1. Committed
      BY <1>a, <1>b DEF Committed, Coherent, ChangeCoherent, ModePhases
    <2>2. pending # NoConn => \A m \in Builds : m.gen \in Nat /\ m.gen < pending.gen
      BY <1>a, <2>1, MessageTypes DEF Coherent, NothingNewBuilt, Builds, Result
    <2>3. Builds' = Builds /\ pending.gen \in Nat
      BY <1>a, <1>b DEF Builds, Results, TypeOK, TickTypeOK, Conn
    <2> QED
      BY <1>b, <2>2, <2>3 DEF PendingProgram
  <1>4. CASE RecordOffline
    <2>1. ~Connected
      BY <1>a, <1>4 DEF RecordOffline, Coherent, OfflineReset
    <2> QED
      BY <1>b, <1>1, <1>2, <1>3, <2>1 DEF ProgramInv, ProgramOwned, Connected
  <1>5. CASE CommitAccepted
    <2>1. lpc = "commitDone" /\ ack /\ op.src.prog = lProg'
      BY <1>b, <1>5 DEF CommitAccepted, ProgramInv, ChangeBuilt, ModePhases
    <2>2. ProgramOwned'
      BY <1>b, <1>d, <2>1 DEF ProgramInv, ProgramOwned, Connected
    <2> QED
      BY <1>1, <1>2, <1>3, <2>2 DEF ProgramInv
  <1> QED
    BY <1>4, <1>5

LEMMA InitProgram == Init => ProgramInv
  <1> SUFFICES ASSUME Init PROVE ProgramInv
    OBVIOUS
  <1>1. PICK dims \in Canvases :
          sources = TrySetBackgrounds(MakeSources(lProg, dims, None, 1), cachedBg)
    BY DEF Init, InitialSources
  <1>2. lProg \in Programs /\ cachedBg \in Images /\ None \in Images /\ 1 \in Outputs
    BY ProgramAssumption, CanvasAssumption DEF Init, Images, Outputs
  <1>3. sources[1].prog = lProg /\ sources[1].text = lProg
    <2> DEFINE ss == MakeSources(lProg, dims, None, 1)
    <2>1. /\ ss \in Seq(Source) /\ DOMAIN ss = Outputs
          /\ ss[1].prog = lProg /\ ss[1].text = lProg
      BY <1>2, MakeSourcesFacts
    <2> HIDE DEF ss
    <2> QED
      BY <1>1, <1>2, <2>1, TrySetBackgroundsFacts DEF ss
  <1> QED
    BY <1>3 DEF Init, ProgramInv, ChangeBuilt, ModePhases, TemplateCurrent,
       StartingProgram, PendingProgram, ProgramOwned, Connected

LEMMA ProgramStep == SafetyInv /\ ProgramInv /\ [Next]_vars => ProgramInv'
  <1> SUFFICES ASSUME SafetyInv, ProgramInv, [Next]_vars PROVE ProgramInv'
    OBVIOUS
  <1>1. ChangeBuilt'
    BY ChangeBuiltStep DEF ProgramInv
  <1>2. CASE ProgramKeepers
    BY <1>1, <1>2, ProgramKeepersKeep, ProgramKeptStep
  <1>3. CASE StartConnected
    BY <1>1, <1>3, StartConnectedProgram
  <1>4. ASSUME NEW dims \in Canvases, Negotiate(dims) PROVE ProgramInv'
    BY <1>1, <1>4, NegotiateProgram
  <1>5. CASE ApplyTemplate
    BY <1>1, <1>5, ApplyTemplateProgram
  <1>6. CASE InstallResult
    BY <1>1, <1>6, InstallProgram
  <1>7. CASE BuildSources
    BY <1>1, <1>7, BuildProgram
  <1>8. CASE RecordOffline \/ CommitAccepted
    BY <1>1, <1>8, AdoptProgram
  <1> QED
    BY <1>2, <1>3, <1>4, <1>5, <1>6, <1>7, <1>8
       DEF ProgramKeepers, Next, TickStep, ListenerStep, TickMovesOn, OtherSteps, Gone

\* Between mode changes the first display shows the program that the listener
\* last acknowledged, in its own text: no rebuild, refused change or late
\* template leaves another one there.
THEOREM AcknowledgedIsShown == Spec => []AckedProgramShown
  <1>1. ProgramInv => AckedProgramShown
    <2> SUFFICES ASSUME ProgramInv, Connected, lpc = "select", template = Seen
                 PROVE  sources[1].prog = lProg /\ sources[1].text = lProg
      BY DEF AckedProgramShown
    <2>1. ~(template = lProg /\ TakesTemplate(lProg))
      BY MarkerAssumption DEF TakesTemplate
    <2> QED
      BY <2>1 DEF ProgramInv, ProgramOwned
  <1> QED
    BY SafetyInvariant, InitProgram, ProgramStep, <1>1, PTL DEF Spec

------------------------------------------------------------------------------
(* The background that the displays show *)

\* An image within the budget of every canvas: no source ever refuses it.
Fitting(image) == image # None /\ \A d \in Dims : <<image, d>> \notin Misfits

Showing(image) ==
    \A i \in Outputs : TakesBackground(sources[i].prog) => sources[i].bg = image

\* An image the tick loop has not read from the watch is the listener's.
BackgroundCurrent == bgWatch \in {Seen, lBg}

\* The tick loop keeps and shows the image that the listener keeps, until it
\* has accepted another one, or will read it from the watch.
BackgroundOwned ==
    Fitting(lBg) /\ ~(lpc = "backgroundDone" /\ ack) =>
        bgWatch = lBg \/ (cachedBg = lBg /\ Showing(lBg))

BackgroundInv == BackgroundCurrent /\ BackgroundOwned

LEMMA FittingAccepted ==
    ASSUME NEW ss \in Seq(Source), NEW image, Fitting(image)
    PROVE  AllAccept(ss, image)
  <1>1. \A i \in DOMAIN ss : ss[i] \in Source
    OBVIOUS
  <1> QED
    BY <1>1 DEF Source, Fitting, AllAccept, Accepts, Fits

\* What every step below knows of the state.
LEMMA BackgroundTypes ==
    ASSUME SafetyInv
    PROVE  /\ sources \in Seq(Source) /\ DOMAIN sources = Outputs
           /\ cachedBg \in Images /\ lBg \in Images
           /\ bgWatch \in Images \cup {Seen} /\ Seen \notin Images
           /\ lpc \in BackgroundPhases => op.change.image \in Images
  BY MarkerAssumption
     DEF SafetyInv, TypeInv, TypeOK, TickTypeOK, ListenerTypeOK, ChannelTypeOK,
         BackgroundOp, BackgroundChange, Coherent, SourcePerOutput

\* Most steps touch neither images nor the sources.
BackgroundKept ==
    /\ UNCHANGED <<lBg, bgWatch, cachedBg, sources>>
    /\ lpc = "backgroundDone" /\ ack => lpc' = "backgroundDone" /\ ack'

BackgroundKeepers ==
    \/ TickMovesOn \/ NoDisplayFound \/ PendingTimesOut \/ RetryFallsDue
    \/ TakeBackground \/ RefuseModeChange \/ CommitRefused \/ BackgroundRefused
    \/ (\E change \in Change : Ask(change)) \/ UNCHANGED vars
    \/ SendIsFatal \/ Stop \/ RequestQueueFull \/ ApplyRevision
    \/ (\E dims \in Canvases : Negotiate(dims))
    \/ IgnoreStaleResult \/ RejectFailedBuild \/ RejectBackgroundMisfit
    \/ BuildSources \/ FirstBuildFails \/ LaterBuildFails
    \/ TakeLayout \/ TakeStream
    \/ RecordOffline \/ SendCommit \/ CommitAccepted

LEMMA BackgroundKeepersKeep == SafetyInv /\ BackgroundKeepers => BackgroundKept
  <1> SUFFICES ASSUME SafetyInv, BackgroundKeepers PROVE BackgroundKept
    OBVIOUS
  <1> USE DEF BackgroundKept, connVars, sourceVars, tickVars, syncVars, viewVars,
              procVars, listenerVars, watches, channelVars
  <1>1. CASE TickMovesOn
    BY <1>1, TickMovesOnFacts
  <1>2. CASE NoDisplayFound \/ PendingTimesOut \/ RetryFallsDue
             \/ (\E change \in Change : Ask(change)) \/ UNCHANGED vars
    BY <1>2 DEF NoDisplayFound, PendingTimesOut, RetryFallsDue, Ask, vars
  <1>3. CASE TakeBackground \/ RefuseModeChange \/ CommitRefused \/ BackgroundRefused
             \/ TakeLayout \/ TakeStream
    BY <1>3 DEF TakeBackground, RefuseModeChange, CommitRefused, BackgroundRefused,
       TakeLayout, TakeStream, RefuseChange
  <1>4. CASE SendIsFatal \/ Stop \/ RequestQueueFull \/ ApplyRevision
    BY <1>4 DEF SendIsFatal, Stop, RequestQueueFull, ApplyRevision
  <1>8. ASSUME NEW dims \in Canvases, Negotiate(dims) PROVE BackgroundKept
    BY <1>8 DEF Negotiate
  <1>5. CASE IgnoreStaleResult \/ RejectFailedBuild \/ RejectBackgroundMisfit
    <2>1. ResultConsumed
      BY <1>5 DEF IgnoreStaleResult, RejectFailedBuild, RejectBackgroundMisfit,
         ResultConsumed
    <2>2. IF Head(resultQ).commit THEN lpc = "commit" /\ lpc' = "commitDone"
                                  ELSE UNCHANGED <<lpc, ack>>
      BY <2>1, AnsweredResult
    <2> QED
      BY <1>5, <2>2 DEF IgnoreStaleResult, RejectFailedBuild, RejectBackgroundMisfit
  <1>6. CASE BuildSources \/ FirstBuildFails \/ LaterBuildFails
    BY <1>6 DEF BuildSources, FirstBuildFails, LaterBuildFails
  <1>7. CASE RecordOffline \/ SendCommit \/ CommitAccepted
    BY <1>7 DEF RecordOffline, SendCommit, CommitAccepted, Adopt
  <1> QED
    BY <1>1, <1>2, <1>3, <1>4, <1>5, <1>6, <1>7, <1>8 DEF BackgroundKeepers

\* Rebuilt sources, and the one source of a mode change, are given the image
\* the tick loop keeps.
LEMMA InstallBackground ==
    ASSUME SafetyInv, BackgroundInv, InstallResult
    PROVE  BackgroundInv'
  <1> DEFINE m == Head(resultQ)
  <1>1. UNCHANGED <<lBg, bgWatch, cachedBg>>
    BY DEF InstallResult, viewVars, watches
  <1>2. lpc = "backgroundDone" /\ ack => lpc' = "backgroundDone" /\ ack'
    <2>1. ResultConsumed
      BY DEF InstallResult, ResultConsumed
    <2>2. IF m.commit THEN lpc = "commit" /\ lpc' = "commitDone"
                      ELSE UNCHANGED <<lpc, ack>>
      BY <2>1, AnsweredResult
    <2> QED
      BY <2>2
  <1>3. ASSUME cachedBg # None, Showing(cachedBg) PROVE Showing(cachedBg)'
    <2>1. CASE Matches(m, pending)
      <3>1. \A i \in Outputs : TakesBackground(sources'[i].prog) =>
                sources'[i].bg = cachedBg
        BY <1>3, <2>1, BuildInstalled
      <3> QED
        BY <1>1, <3>1 DEF Showing
    <2>2. CASE ~Matches(m, pending)
      <3>1. /\ sources'[1].prog = op.src.prog
            /\ TakesBackground(op.src.prog) => sources'[1].bg = cachedBg
            /\ \A i \in Outputs \ {1} : sources'[i] = sources[i]
        BY <1>3, <2>2, CommitInstalled
      <3> QED
        BY <1>1, <1>3, <3>1 DEF Showing
    <2> QED
      BY <2>1, <2>2
  <1> QED
    BY <1>1, <1>2, <1>3 DEF BackgroundInv, BackgroundCurrent, BackgroundOwned, Fitting

\* An image that fits is shown by all sources at once.
LEMMA ImagesBackground ==
    ASSUME SafetyInv, BackgroundInv,
           ApplyBackground \/ RollBackBackground \/ WatchBackground
    PROVE  BackgroundInv'
  <1>1. CASE ApplyBackground
    BY <1>1 DEF ApplyBackground, BackgroundInv, BackgroundCurrent, BackgroundOwned,
       viewVars, channelVars, watches
  <1>2. CASE RollBackBackground
    <2> DEFINE half == SetBackgrounds(sources, op.change.image)
    <2>1. /\ UNCHANGED <<lBg, bgWatch, cachedBg>>
          /\ lpc = "background" /\ lpc' = "backgroundDone" /\ ~ack'
          /\ sources' = TrySetBackgrounds(half, cachedBg)
      BY <1>2 DEF RollBackBackground, viewVars, channelVars, watches
    <2>2. half \in Seq(Source) /\ DOMAIN half = Outputs
      BY <2>1, BackgroundTypes, SetBackgroundsFacts DEF BackgroundPhases
    <2> HIDE DEF half
    <2>3. ASSUME Fitting(cachedBg) PROVE Showing(cachedBg)'
      <3>1. AllAccept(half, cachedBg)
        BY <2>2, <2>3, FittingAccepted
      <3>2. \A i \in Outputs : TakesBackground(half[i].prog) => sources'[i].bg = cachedBg
        BY <2>1, <2>2, <3>1, BackgroundTypes, TrySetBackgroundsShown
      <3>3. \A i \in Outputs : sources'[i].prog = half[i].prog
        BY <2>1, <2>2, BackgroundTypes, TrySetBackgroundsFacts
      <3> QED
        BY <2>1, <3>2, <3>3 DEF Showing
    <2> QED
      BY <2>1, <2>3 DEF BackgroundInv, BackgroundCurrent, BackgroundOwned, Fitting
  <1>3. CASE WatchBackground
    <2>1. UNCHANGED <<lBg, lpc, ack>> /\ bgWatch' = Seen
      BY <1>3 DEF WatchBackground, listenerVars, syncVars, viewVars
    <2>2. CASE bgWatch = Seen
      BY <1>3, <2>1, <2>2, BackgroundTypes
         DEF WatchBackground, BackgroundInv, BackgroundCurrent, BackgroundOwned, Fitting,
             Showing
    <2>3. CASE bgWatch # Seen
      <3>1. bgWatch = lBg /\ sources' = SetBackgrounds(sources, lBg)
            /\ cachedBg' = IF AllAccept(sources, lBg) THEN lBg ELSE cachedBg
        BY <1>3, <2>3 DEF WatchBackground, BackgroundInv, BackgroundCurrent
      <3>2. ASSUME Fitting(lBg) PROVE cachedBg' = lBg /\ Showing(lBg)'
        <4>1. AllAccept(sources, lBg)
          BY <3>2, BackgroundTypes, FittingAccepted
        <4>2. \A i \in Outputs : TakesBackground(sources[i].prog) => sources'[i].bg = lBg
          BY <3>1, <4>1, BackgroundTypes, SetBackgroundsShown
        <4>3. \A i \in Outputs : sources'[i].prog = sources[i].prog
          BY <3>1, BackgroundTypes, SetBackgroundsFacts
        <4> QED
          BY <2>1, <3>1, <4>1, <4>2, <4>3 DEF Showing
      <3> QED
        BY <2>1, <3>2 DEF BackgroundInv, BackgroundCurrent, BackgroundOwned, Fitting
    <2> QED
      BY <2>2, <2>3
  <1> QED
    BY <1>1, <1>2, <1>3

\* Startup sets the image again; template text leaves it alone; an accepted
\* change is on its way through the watch.
LEMMA OtherBackgrounds ==
    ASSUME SafetyInv, BackgroundInv,
           StartConnected \/ ApplyTemplate \/ BackgroundAccepted
    PROVE  BackgroundInv'
  <1>1. CASE StartConnected
    <2>1. /\ UNCHANGED <<lBg, bgWatch, cachedBg, lpc, ack>>
          /\ sources' \in {sources, TrySetBackgrounds(sources, cachedBg)}
      BY <1>1 DEF StartConnected, listenerVars, syncVars, viewVars, channelVars, watches
    <2>2. ASSUME Fitting(cachedBg), Showing(cachedBg) PROVE Showing(cachedBg)'
      <3>1. AllAccept(sources, cachedBg)
        BY <2>2, BackgroundTypes, FittingAccepted
      <3>2. CASE sources' = sources
        BY <2>1, <2>2, <3>2 DEF Showing
      <3>3. CASE sources' = TrySetBackgrounds(sources, cachedBg)
        <4>1. \A i \in Outputs :
                 TakesBackground(sources[i].prog) => sources'[i].bg = cachedBg
          BY <3>1, <3>3, BackgroundTypes, TrySetBackgroundsShown
        <4>2. \A i \in Outputs : sources'[i].prog = sources[i].prog
          BY <3>3, BackgroundTypes, TrySetBackgroundsFacts
        <4> QED
          BY <2>1, <4>1, <4>2 DEF Showing
      <3> QED
        BY <2>1, <3>2, <3>3
    <2> QED
      BY <2>1, <2>2 DEF BackgroundInv, BackgroundCurrent, BackgroundOwned, Fitting
  <1>2. CASE ApplyTemplate
    <2>1. UNCHANGED <<lBg, bgWatch, cachedBg, lpc, ack>>
      BY <1>2 DEF ApplyTemplate, listenerVars, syncVars, viewVars
    <2>2. \A i \in Outputs : /\ sources'[i].prog = sources[i].prog
                            /\ sources'[i].bg = sources[i].bg
      <3>1. \A i \in Outputs : sources[i] \in Source
        BY BackgroundTypes
      <3>2. \A i \in Outputs :
               sources'[i] \in {sources[i], [sources[i] EXCEPT !.text = template]}
        BY <1>2, BackgroundTypes DEF ApplyTemplate
      <3> QED
        BY <3>1, <3>2 DEF Source
    <2> QED
      BY <2>1, <2>2
         DEF BackgroundInv, BackgroundCurrent, BackgroundOwned, Fitting, Showing
  <1>3. CASE BackgroundAccepted
    BY <1>3 DEF BackgroundAccepted, BackgroundInv, BackgroundCurrent, BackgroundOwned
  <1> QED
    BY <1>1, <1>2, <1>3

LEMMA InitBackground == Init => BackgroundInv
  <1> SUFFICES ASSUME Init PROVE BackgroundInv
    OBVIOUS
  <1>1. PICK dims \in Canvases :
          sources = TrySetBackgrounds(MakeSources(lProg, dims, None, 1), cachedBg)
    BY DEF Init, InitialSources
  <1>2. lProg \in Programs /\ cachedBg \in Images /\ None \in Images
    BY ProgramAssumption DEF Init, Images
  <1>3. ASSUME Fitting(cachedBg) PROVE Showing(cachedBg)
    <2> DEFINE ss == MakeSources(lProg, dims, None, 1)
    <2>1. ss \in Seq(Source) /\ DOMAIN ss = Outputs
      BY <1>2, MakeSourcesFacts
    <2> HIDE DEF ss
    <2>2. AllAccept(ss, cachedBg)
      BY <1>3, <2>1, FittingAccepted
    <2>3. sources = TrySetBackgrounds(ss, cachedBg)
      BY <1>1 DEF ss
    <2>4. \A i \in Outputs : TakesBackground(ss[i].prog) => sources[i].bg = cachedBg
      BY <1>2, <2>1, <2>2, <2>3, TrySetBackgroundsShown
    <2>5. \A i \in Outputs : sources[i].prog = ss[i].prog
      BY <1>2, <2>1, <2>3, TrySetBackgroundsFacts
    <2> QED
      BY <2>4, <2>5 DEF Showing
  <1> QED
    BY <1>3 DEF Init, BackgroundInv, BackgroundCurrent, BackgroundOwned

LEMMA BackgroundStep == SafetyInv /\ BackgroundInv /\ [Next]_vars => BackgroundInv'
  <1> SUFFICES ASSUME SafetyInv, BackgroundInv, [Next]_vars PROVE BackgroundInv'
    OBVIOUS
  <1>1. CASE BackgroundKeepers
    BY <1>1, BackgroundKeepersKeep
       DEF BackgroundKept, BackgroundInv, BackgroundCurrent, BackgroundOwned, Fitting,
           Showing
  <1>2. CASE InstallResult
    BY <1>2, InstallBackground
  <1>3. CASE ApplyBackground \/ RollBackBackground \/ WatchBackground
    BY <1>3, ImagesBackground
  <1>4. CASE StartConnected \/ ApplyTemplate \/ BackgroundAccepted
    BY <1>4, OtherBackgrounds
  <1> QED
    BY <1>1, <1>2, <1>3, <1>4
       DEF BackgroundKeepers, Next, TickStep, ListenerStep, TickMovesOn, Gone

\* Between mode changes every layout that can show a background shows the one
\* last acknowledged, in whatever order rebuilds, background changes and their
\* copies on the watch arrive.
THEOREM BackgroundIsShown == Spec => []BackgroundShown
  <1>1. SafetyInv /\ BackgroundInv => BackgroundShown
    <2> SUFFICES ASSUME SafetyInv, BackgroundInv, lpc = "select", bgWatch = Seen,
                        Fitting(lBg)
                 PROVE  Showing(lBg)
      BY DEF BackgroundShown, Fitting, Showing
    <2> QED
      BY BackgroundTypes DEF BackgroundInv, BackgroundOwned
  <1> QED
    BY SafetyInvariant, InitBackground, BackgroundStep, <1>1, PTL DEF Spec

------------------------------------------------------------------------------
(* The displays after the first *)

Bare(s) == [s EXCEPT !.bg = None]

OthersKept == \A i \in Outputs \ {1} : Bare(sources'[i]) = Bare(sources[i])

\* Backgrounds change no more than backgrounds.
LEMMA BackgroundsBare ==
    ASSUME SafetyInv, ApplyBackground \/ RollBackBackground \/ WatchBackground
    PROVE  OthersKept
  <1>1. ASSUME NEW ss \in Seq(Source), NEW image \in Images, DOMAIN ss = Outputs
        PROVE  \A i \in Outputs :
                 /\ Bare(SetBackgrounds(ss, image)[i]) = Bare(ss[i])
                 /\ Bare(TrySetBackgrounds(ss, image)[i]) = Bare(ss[i])
    BY <1>1, SetBackgroundsShown, TrySetBackgroundsShown DEF Bare
  <1>2. CASE ApplyBackground
    <2>1. sources' = SetBackgrounds(sources, op.change.image) /\ op.change.image \in Images
      BY <1>2, BackgroundTypes DEF ApplyBackground, BackgroundPhases
    <2> QED
      BY <1>1, <2>1, BackgroundTypes DEF OthersKept
  <1>3. CASE RollBackBackground
    <2> DEFINE half == SetBackgrounds(sources, op.change.image)
    <2>1. sources' = TrySetBackgrounds(half, cachedBg) /\ op.change.image \in Images
      BY <1>3, BackgroundTypes DEF RollBackBackground, BackgroundPhases
    <2>2. half \in Seq(Source) /\ DOMAIN half = Outputs
      BY <2>1, BackgroundTypes, SetBackgroundsFacts
    <2>3. \A i \in Outputs : Bare(half[i]) = Bare(sources[i])
      BY <1>1, <2>1, BackgroundTypes
    <2> HIDE DEF half
    <2>4. \A i \in Outputs : Bare(TrySetBackgrounds(half, cachedBg)[i]) = Bare(half[i])
      BY <1>1, <2>2, BackgroundTypes
    <2> QED
      BY <2>1, <2>3, <2>4 DEF OthersKept
  <1>4. CASE WatchBackground
    <2>1. CASE bgWatch = Seen
      BY <1>4, <2>1 DEF WatchBackground, OthersKept
    <2>2. CASE bgWatch # Seen
      <3>1. sources' = SetBackgrounds(sources, bgWatch) /\ bgWatch \in Images
        BY <1>4, <2>2, BackgroundTypes DEF WatchBackground
      <3> QED
        BY <1>1, <3>1, BackgroundTypes DEF OthersKept
    <2> QED
      BY <2>1, <2>2
  <1> QED
    BY <1>2, <1>3, <1>4

LEMMA OthersStep ==
    ASSUME SafetyInv, [Next]_vars, active' = active, Connected
    PROVE  OthersKept
  <1>1. CASE UNCHANGED sources
    BY <1>1 DEF OthersKept
  <1>2. CASE ApplyBackground \/ RollBackBackground \/ WatchBackground
    BY <1>2, BackgroundsBare
  <1>3. CASE ApplyTemplate
    <2>1. \A i \in Outputs \ {1} : sources'[i] = sources[i]
      BY <1>3, BackgroundTypes DEF ApplyTemplate
    <2> QED
      BY <2>1 DEF OthersKept
  <1>4. CASE InstallResult
    <2>1. ~Matches(Head(resultQ), pending)
      BY DEF SafetyInv, Coherent, ConnectionCoherent, Connected, Matches
    <2> QED
      BY <1>4, <2>1, CommitInstalled DEF OthersKept
  <1>5. CASE StartConnected
    BY <1>5 DEF StartConnected, SafetyInv, Coherent, Starting, Connected
  <1>6. CASE TickMovesOn
    BY <1>1, <1>6, TickMovesOnFacts DEF sourceVars
  <1>7. CASE SendIsFatal \/ Stop \/ RequestQueueFull \/ ApplyRevision
             \/ NoDisplayFound \/ PendingTimesOut \/ RetryFallsDue
             \/ IgnoreStaleResult \/ RejectFailedBuild \/ RejectBackgroundMisfit
    BY <1>1, <1>7 DEF SendIsFatal, Stop, RequestQueueFull, ApplyRevision,
       NoDisplayFound, PendingTimesOut, RetryFallsDue, IgnoreStaleResult,
       RejectFailedBuild, RejectBackgroundMisfit, tickVars, sourceVars
  <1>8. ASSUME NEW dims \in Canvases, Negotiate(dims) PROVE OthersKept
    BY <1>1, <1>8 DEF Negotiate, sourceVars
  <1>9. ASSUME NEW change \in Change, Ask(change) PROVE OthersKept
    BY <1>1, <1>9 DEF Ask, tickVars, sourceVars
  <1>10. CASE ListenerStep
    BY <1>1, <1>10 DEF ListenerStep, BuildSources, FirstBuildFails, LaterBuildFails,
       TakeLayout, TakeStream, TakeBackground, RefuseModeChange, RecordOffline,
       SendCommit, CommitAccepted, CommitRefused, BackgroundAccepted, BackgroundRefused,
       tickVars, sourceVars
  <1>11. CASE UNCHANGED vars
    BY <1>1, <1>11 DEF vars, tickVars, sourceVars
  <1> QED
    BY <1>2, <1>3, <1>4, <1>5, <1>6, <1>7, <1>8, <1>9, <1>10, <1>11
       DEF Next, TickStep, TickMovesOn, Gone

\* Mode changes and templates reach the first display only: as long as a
\* connection lasts, the other displays keep program, text, canvas and process.
THEOREM OthersAreUntouched == Spec => OtherOutputsUntouched
  <1>1. SafetyInv /\ [Next]_vars =>
          [active = active' /\ Connected =>
             \A i \in Outputs \ {1} :
               [sources'[i] EXCEPT !.bg = None] = [sources[i] EXCEPT !.bg = None]]_vars
    BY OthersStep DEF OthersKept, Bare
  <1> QED
    BY SafetyInvariant, <1>1, PTL DEF Spec, OtherOutputsUntouched

------------------------------------------------------------------------------
(* The D-Bus calls *)

Queued(c) == \E i \in 1..Len(modeQ) : modeQ[i] = c

\* What waits for an answer, element by element.
LEMMA WaitingIs ==
    ASSUME TypeOK, NEW l, NEW c
    PROVE  c \in Waiting(l) <=>
               /\ LockOf(c) = l
               /\ Queued(c) \/ (lpc # "select" /\ c = op.change)
  <1>1. DOMAIN modeQ = 1..Len(modeQ)
    BY LenProperties DEF TypeOK, ChannelTypeOK
  <1> QED
    BY <1>1 DEF Waiting, Queued

LEMMA WaitingNext ==
    ASSUME TypeOK', NEW l, NEW c
    PROVE  c \in Waiting(l)' <=>
               /\ LockOf(c) = l
               /\ Queued(c)' \/ (lpc' # "select" /\ c = op'.change)
  <1>1. DOMAIN modeQ' = 1..Len(modeQ')
    BY LenProperties DEF TypeOK, ChannelTypeOK
  <1> QED
    BY <1>1 DEF Waiting, Queued

\* Under each lock one change is on its way, and only while its caller waits.
OneCall ==
    /\ \A i, j \in 1..Len(modeQ) :
          LockOf(modeQ[i]) = LockOf(modeQ[j]) => i = j
    /\ lpc # "select" =>
          \A i \in 1..Len(modeQ) : LockOf(modeQ[i]) # LockOf(op.change)

CallsHeld == \A l \in Locks : waiting[l] <=> Waiting(l) # {}

CallsInv == OneCall /\ CallsHeld

\* Steps that leave channel, lock and change alone.
LEMMA CallsStay ==
    ASSUME TypeOK, TypeOK', CallsInv, UNCHANGED <<modeQ, waiting>>,
           (lpc' = "select") = (lpc = "select"),
           lpc # "select" => op'.change = op.change
    PROVE  CallsInv' /\ \A l : Waiting(l)' = Waiting(l)
  <1>1. \A l, c : c \in Waiting(l)' <=> c \in Waiting(l)
    BY WaitingIs, WaitingNext DEF Queued
  <1>2. \A l : Waiting(l)' = Waiting(l)
    BY <1>1
  <1>3. OneCall'
    BY DEF CallsInv, OneCall
  <1> QED
    BY <1>2, <1>3 DEF CallsInv, CallsHeld

\* Sets by their elements.
LEMMA Extent ==
    ASSUME NEW S, NEW T, \A c : c \in S <=> c \in T
    PROVE  S = T
  OBVIOUS

LEMMA OneOf ==
    ASSUME NEW S, NEW h, \A c : c \in S <=> c = h
    PROVE  S = {h}
  OBVIOUS

\* The listener takes the first change out of the channel.
LEMMA ChangeQueue ==
    ASSUME TypeOK, modeQ # <<>>, modeQ' = Tail(modeQ)
    PROVE  /\ Head(modeQ) = modeQ[1] /\ Len(modeQ) \in Nat /\ Len(modeQ) >= 1
           /\ Len(modeQ') = Len(modeQ) - 1
           /\ \A i \in 1..Len(modeQ') : modeQ'[i] = modeQ[i + 1]
           /\ \A c : Queued(c) <=> Queued(c)' \/ c = Head(modeQ)
  <1>1. /\ Head(modeQ) = modeQ[1] /\ Len(modeQ) \in Nat /\ Len(modeQ) >= 1
        /\ Len(modeQ') = Len(modeQ) - 1
        /\ \A i \in 1..Len(modeQ') : modeQ'[i] = modeQ[i + 1]
    BY HeadTailProperties, EmptySeq DEF TypeOK, ChannelTypeOK
  <1>2. ASSUME NEW c, Queued(c) PROVE Queued(c)' \/ c = Head(modeQ)
    <2>1. PICK i \in 1..Len(modeQ) : modeQ[i] = c
      BY <1>2 DEF Queued
    <2>2. CASE i = 1
      BY <1>1, <2>1, <2>2
    <2>3. CASE i # 1
      <3>1. i - 1 \in 1..Len(modeQ') /\ (i - 1) + 1 = i
        BY <1>1, <2>3
      <3>2. modeQ'[i - 1] = c
        BY <1>1, <2>1, <3>1
      <3> QED
        BY <3>1, <3>2 DEF Queued
    <2> QED
      BY <2>2, <2>3
  <1>3. ASSUME NEW c, Queued(c)' PROVE Queued(c)
    <2>1. PICK i \in 1..Len(modeQ') : modeQ'[i] = c
      BY <1>3 DEF Queued
    <2>2. i + 1 \in 1..Len(modeQ) /\ modeQ[i + 1] = c
      BY <1>1, <2>1
    <2> QED
      BY <2>2 DEF Queued
  <1>4. Queued(Head(modeQ))
    BY <1>1 DEF Queued
  <1> QED
    BY <1>1, <1>2, <1>3, <1>4

\* Of the change taken there is no other under its lock.
LEMMA RestKeepsOneCall ==
    ASSUME TypeOK, OneCall, modeQ # <<>>, modeQ' = Tail(modeQ)
    PROVE  /\ \A i, j \in 1..Len(modeQ') :
                 LockOf(modeQ'[i]) = LockOf(modeQ'[j]) => i = j
           /\ \A i \in 1..Len(modeQ') : LockOf(modeQ'[i]) # LockOf(Head(modeQ))
  <1>1. /\ Head(modeQ) = modeQ[1] /\ Len(modeQ) \in Nat /\ Len(modeQ) >= 1
        /\ Len(modeQ') = Len(modeQ) - 1
        /\ \A i \in 1..Len(modeQ') : modeQ'[i] = modeQ[i + 1]
    BY ChangeQueue
  <1>2. \A i \in 1..Len(modeQ') : i + 1 \in 1..Len(modeQ) /\ i + 1 # 1
    BY <1>1
  <1>3. 1 \in 1..Len(modeQ)
    BY <1>1
  <1>4. ASSUME NEW i \in 1..Len(modeQ'), NEW j \in 1..Len(modeQ'),
               LockOf(modeQ'[i]) = LockOf(modeQ'[j])
        PROVE  i = j
    <2>1. i + 1 = j + 1
      BY <1>1, <1>2, <1>4 DEF OneCall
    <2> QED
      BY <2>1
  <1>5. ASSUME NEW i \in 1..Len(modeQ')
        PROVE  LockOf(modeQ'[i]) # LockOf(Head(modeQ))
    BY <1>1, <1>2, <1>3 DEF OneCall
  <1> QED
    BY <1>4, <1>5

LEMMA ChangeTaken ==
    ASSUME TypeOK, TypeOK', CallsInv, modeQ # <<>>, modeQ' = Tail(modeQ),
           lpc = "select", lpc' # "select", op'.change = Head(modeQ),
           UNCHANGED waiting
    PROVE  CallsInv' /\ \A l : Waiting(l)' = Waiting(l)
  <1>1. \A c : Queued(c) <=> Queued(c)' \/ c = Head(modeQ)
    BY ChangeQueue
  <1>2. \A l, c : c \in Waiting(l)' <=> c \in Waiting(l)
    BY <1>1, WaitingIs, WaitingNext
  <1>3. ASSUME NEW l PROVE Waiting(l)' = Waiting(l)
    BY ONLY <1>2, Extent
  <1>4. OneCall'
    BY RestKeepsOneCall DEF CallsInv, OneCall
  <1> QED
    BY <1>3, <1>4 DEF CallsInv, CallsHeld

\* What the answer to change c leaves waiting.
AnswerTo(c) ==
    \A l : IF l = LockOf(c) THEN Waiting(l) = {c} /\ Waiting(l)' = {}
           ELSE Waiting(l)' = Waiting(l)

\* The listener refuses the first change at once.
LEMMA ChangeRefused ==
    ASSUME TypeOK, TypeOK', CallsInv, modeQ # <<>>, modeQ' = Tail(modeQ),
           lpc = "select", lpc' = "select", Reply(LockOf(Head(modeQ)))
    PROVE  CallsInv' /\ AnswerTo(Head(modeQ))
  <1> DEFINE h == Head(modeQ)
  <1>1. \A c : Queued(c) <=> Queued(c)' \/ c = h
    BY ChangeQueue
  <1>2. \A c : Queued(c)' => LockOf(c) # LockOf(h)
    BY RestKeepsOneCall DEF CallsInv, Queued
  <1>3. \A l, c : /\ c \in Waiting(l) <=> LockOf(c) = l /\ Queued(c)
                  /\ c \in Waiting(l)' <=> LockOf(c) = l /\ Queued(c)'
    BY WaitingIs, WaitingNext
  <1>4. OneCall'
    BY RestKeepsOneCall DEF CallsInv, OneCall
  <1>5. waiting' = [waiting EXCEPT ![LockOf(h)] = FALSE]
        /\ waiting \in [Locks -> BOOLEAN]
    BY DEF Reply, TypeOK, ChannelTypeOK
  <1> HIDE DEF h
  <1>6. ASSUME NEW l, l = LockOf(h) PROVE Waiting(l) = {h} /\ Waiting(l)' = {}
    <2>1. \A c : c \in Waiting(l) <=> c = h
      BY ONLY <1>1, <1>2, <1>3, <1>6
    <2>2. \A c : c \notin Waiting(l)'
      BY ONLY <1>1, <1>2, <1>3, <1>6
    <2> QED
      BY ONLY <2>1, <2>2, OneOf
  <1>7. ASSUME NEW l, l # LockOf(h) PROVE Waiting(l)' = Waiting(l)
    <2>1. \A c : c \in Waiting(l)' <=> c \in Waiting(l)
      BY ONLY <1>1, <1>3, <1>7
    <2> QED
      BY ONLY <2>1, Extent
  <1>8. CallsHeld'
    <2>1. CallsHeld
      BY DEF CallsInv
    <2>2. ASSUME NEW l \in Locks
          PROVE  waiting'[l] <=> Waiting(l)' # {}
      <3>1. CASE l = LockOf(h)
        BY ONLY <1>5, <1>6, <2>2, <3>1
      <3>2. CASE l # LockOf(h)
        BY ONLY <1>5, <1>7, <2>1, <2>2, <3>2 DEF CallsHeld
      <3> QED
        BY <3>1, <3>2
    <2> QED
      BY <2>2 DEF CallsHeld
  <1>9. AnswerTo(h)
    BY ONLY <1>6, <1>7 DEF AnswerTo
  <1> QED
    BY <1>4, <1>8, <1>9 DEF CallsInv, h

\* The listener answers the change it works on.
LEMMA ChangeAnswered ==
    ASSUME TypeOK, TypeOK', CallsInv, UNCHANGED modeQ, lpc # "select",
           lpc' = "select", Reply(LockOf(op.change))
    PROVE  CallsInv' /\ AnswerTo(op.change)
  <1> DEFINE h == op.change
  <1>1. \A c : Queued(c)' <=> Queued(c)
    BY DEF Queued
  <1>2. \A c : Queued(c) => LockOf(c) # LockOf(h)
    BY DEF CallsInv, OneCall, Queued
  <1>3. \A l, c : /\ c \in Waiting(l) <=>
                         LockOf(c) = l /\ (Queued(c) \/ c = h)
                  /\ c \in Waiting(l)' <=> LockOf(c) = l /\ Queued(c)'
    BY WaitingIs, WaitingNext
  <1>4. OneCall'
    BY DEF CallsInv, OneCall
  <1>5. waiting' = [waiting EXCEPT ![LockOf(h)] = FALSE]
        /\ waiting \in [Locks -> BOOLEAN]
    BY DEF Reply, TypeOK, ChannelTypeOK
  <1> HIDE DEF h
  <1>6. ASSUME NEW l, l = LockOf(h) PROVE Waiting(l) = {h} /\ Waiting(l)' = {}
    <2>1. \A c : c \in Waiting(l) <=> c = h
      BY ONLY <1>1, <1>2, <1>3, <1>6
    <2>2. \A c : c \notin Waiting(l)'
      BY ONLY <1>1, <1>2, <1>3, <1>6
    <2> QED
      BY ONLY <2>1, <2>2, OneOf
  <1>7. ASSUME NEW l, l # LockOf(h) PROVE Waiting(l)' = Waiting(l)
    <2>1. \A c : c \in Waiting(l)' <=> c \in Waiting(l)
      BY ONLY <1>1, <1>3, <1>7
    <2> QED
      BY ONLY <2>1, Extent
  <1>8. CallsHeld'
    <2>1. CallsHeld
      BY DEF CallsInv
    <2>2. ASSUME NEW l \in Locks
          PROVE  waiting'[l] <=> Waiting(l)' # {}
      <3>1. CASE l = LockOf(h)
        BY ONLY <1>5, <1>6, <2>2, <3>1
      <3>2. CASE l # LockOf(h)
        BY ONLY <1>5, <1>7, <2>1, <2>2, <3>2 DEF CallsHeld
      <3> QED
        BY <3>1, <3>2
    <2> QED
      BY <2>2 DEF CallsHeld
  <1>9. AnswerTo(h)
    BY ONLY <1>6, <1>7 DEF AnswerTo
  <1> QED
    BY <1>4, <1>8, <1>9 DEF CallsInv, h

\* A D-Bus call sends a change, under a lock that no call holds.
LEMMA ChangeAsked ==
    ASSUME TypeOK, TypeOK', CallsInv, NEW change \in Change, Ask(change)
    PROVE  /\ CallsInv'
           /\ Waiting(LockOf(change)) = {} /\ Waiting(LockOf(change))' = {change}
           /\ \A l : l # LockOf(change) => Waiting(l)' = Waiting(l)
  <1>1. /\ modeQ \in Seq(Change) /\ modeQ' = Append(modeQ, change)
        /\ UNCHANGED <<lpc, op>> /\ LockOf(change) \in Locks
        /\ waiting \in [Locks -> BOOLEAN] /\ ~waiting[LockOf(change)]
        /\ waiting' = [waiting EXCEPT ![LockOf(change)] = TRUE]
    BY DEF Ask, TypeOK, ChannelTypeOK, listenerVars, syncVars, LockOf, Locks
  <1>2. /\ Len(modeQ') = Len(modeQ) + 1 /\ Len(modeQ) \in Nat
        /\ modeQ'[Len(modeQ')] = change
        /\ \A i \in 1..Len(modeQ) : modeQ'[i] = modeQ[i]
    BY <1>1, AppendProperties, LenProperties
  <1>3. \A c : Queued(c)' <=> Queued(c) \/ c = change
    <2>1. \A i \in 1..Len(modeQ') : i \in 1..Len(modeQ) \/ i = Len(modeQ')
      BY <1>2
    <2>2. Len(modeQ') \in 1..Len(modeQ') /\ 1..Len(modeQ) \subseteq 1..Len(modeQ')
      BY <1>2
    <2> QED
      BY <1>2, <2>1, <2>2 DEF Queued
  <1>4. Waiting(LockOf(change)) = {}
    BY <1>1 DEF CallsInv, CallsHeld
  <1>5. \A c : Queued(c) => LockOf(c) # LockOf(change)
    BY <1>4, WaitingIs
  <1>6. lpc # "select" => LockOf(op.change) # LockOf(change)
    BY <1>4, WaitingIs
  <1>7. OneCall'
    <2>1. \A i \in 1..Len(modeQ') : i \in 1..Len(modeQ) \/ i = Len(modeQ')
      BY <1>2
    <2>2. \A i \in 1..Len(modeQ) : LockOf(modeQ[i]) # LockOf(change)
      BY <1>5 DEF Queued
    <2>3. ASSUME NEW i \in 1..Len(modeQ'), NEW j \in 1..Len(modeQ'),
                 LockOf(modeQ'[i]) = LockOf(modeQ'[j])
          PROVE  i = j
      BY <1>2, <2>1, <2>2, <2>3 DEF CallsInv, OneCall
    <2>4. ASSUME lpc # "select", NEW i \in 1..Len(modeQ')
          PROVE  LockOf(modeQ'[i]) # LockOf(op.change)
      BY <1>2, <1>6, <2>1, <2>4 DEF CallsInv, OneCall
    <2> QED
      BY <1>1, <2>3, <2>4 DEF OneCall
  <1>8. \A l, c : c \in Waiting(l)' <=>
                      c \in Waiting(l) \/ (LockOf(c) = l /\ c = change)
    BY <1>1, <1>3, WaitingIs, WaitingNext
  <1>9. Waiting(LockOf(change))' = {change}
    BY <1>4, <1>8
  <1>10. \A l : l # LockOf(change) => Waiting(l)' = Waiting(l)
    BY <1>8
  <1>11. CallsHeld'
    BY <1>1, <1>9, <1>10 DEF CallsInv, CallsHeld
  <1> QED
    BY <1>4, <1>7, <1>9, <1>10, <1>11 DEF CallsInv

------------------------------------------------------------------------------
(* Every step of the pipeline, as a step of ModeControl *)

ControlInv == SafetyInv /\ ProgramInv /\ CallsInv

\* The tick loop has accepted a change of which the listener does not know yet.
Adopted == lpc = "commitDone" /\ ack

\* What the first display shows, from what the listener holds.
LEMMA DisplayIs ==
    ASSUME ProgramInv
    PROVE  OnDisplay = IF Connected
                       THEN IF Adopted THEN op.src.prog ELSE lProg
                       ELSE None
  BY DEF ProgramInv, ProgramOwned, OnDisplay, Adopted

LEMMA DisplayNext ==
    ASSUME ProgramInv'
    PROVE  OnDisplay' = IF Connected'
                        THEN IF Adopted' THEN op'.src.prog ELSE lProg'
                        ELSE None
  BY DEF ProgramInv, ProgramOwned, OnDisplay, Adopted

\* Steps that answer no call and take none.
LEMMA PresentStep ==
    ASSUME ControlInv, ControlInv',
           UNCHANGED <<lProg, lBg>>, \A l : Waiting(l)' = Waiting(l),
           \/ ~Connected'
           \/ Connected' = Connected /\ Adopted' = Adopted /\ op' = op
           \/ ~Adopted /\ ~Adopted'
           \/ Connected /\ Connected' /\ ~Adopted /\ op' = op
                /\ op.change \in Waiting("mode")
    PROVE  [Control!Next]_(Control!vars)
  <1>1. UNCHANGED Asked
    BY DEF Asked
  <1>2. /\ OnDisplay = IF Connected
                       THEN IF Adopted THEN op.src.prog ELSE lProg
                       ELSE None
        /\ OnDisplay' = IF Connected'
                        THEN IF Adopted' THEN op'.src.prog ELSE lProg'
                        ELSE None
    BY DisplayIs, DisplayNext DEF ControlInv
  <1>3. lProg # None
    BY MarkerAssumption DEF ControlInv, SafetyInv, TypeInv, TypeOK, ListenerTypeOK
  <1>4. CASE UNCHANGED OnDisplay
    BY <1>1, <1>4 DEF Control!vars
  <1>5. CASE OnDisplay # None /\ OnDisplay' = None
    BY <1>1, <1>5 DEF Control!Next, Control!Present
  <1>6. CASE OnDisplay = None /\ OnDisplay' = lProg
    BY <1>1, <1>6 DEF Control!Next, Control!Present
  <1>7. CASE OnDisplay = lProg /\ OnDisplay' \in Asked["mode"]
    BY <1>1, <1>7 DEF Control!Next, Control!Present
  <1>8. ASSUME op.change \in Waiting("mode")
        PROVE  op.change.prog \in Asked["mode"]
    <2>1. ValueOf(op.change) = op.change.prog
      BY <1>8, WaitingIs DEF ValueOf, ControlInv, SafetyInv, TypeInv
    <2> QED
      BY <1>8, <2>1 DEF Asked, Locks
  <1>9. op.change \in Waiting("mode") /\ Adopted' /\ op' = op =>
            op.src.prog = op.change.prog
    BY DEF ControlInv, ProgramInv, ChangeBuilt, Adopted, ModePhases
  <1> QED
    BY <1>2, <1>3, <1>4, <1>5, <1>6, <1>7, <1>8, <1>9

\* What the changes of a set ask for.
ValuesOf(S) == {ValueOf(c) : c \in S}

LEMMA AskedFor ==
    ASSUME NEW c
    PROVE  ValuesOf({}) = {} /\ ValuesOf({c}) = {ValueOf(c)}
  BY DEF ValuesOf

LEMMA AskedIs ==
    /\ Asked  = [l \in Locks |-> ValuesOf(Waiting(l))]
    /\ Asked' = [l \in Locks |-> ValuesOf(Waiting(l)')]
  BY DEF Asked, ValuesOf

\* A step under one lock.
LEMMA AskedUnder ==
    ASSUME NEW l \in Locks, \A k : k # l => Waiting(k)' = Waiting(k)
    PROVE  /\ Asked[l] = ValuesOf(Waiting(l))
           /\ Asked' = [Asked EXCEPT ![l] = ValuesOf(Waiting(l)')]
  <1>1. \A k \in Locks \ {l} : ValuesOf(Waiting(k)') = ValuesOf(Waiting(k))
    OBVIOUS
  <1> QED
    BY <1>1, AskedIs

\* Steps that refuse a call.
LEMMA RefuseStep ==
    ASSUME NEW c, AnswerTo(c), UNCHANGED <<lProg, lBg, OnDisplay>>,
           LockOf(c) = "mode" => OnDisplay \in {None, lProg}
    PROVE  Control!Next
  <1> DEFINE l == LockOf(c)
  <1>1. l \in Locks
    BY DEF LockOf, Locks
  <1>2. /\ Waiting(l) = {c} /\ Waiting(l)' = {}
        /\ \A k : k # l => Waiting(k)' = Waiting(k)
    BY DEF AnswerTo
  <1> HIDE DEF l
  <1>3. Asked[l] # {} /\ Asked' = [Asked EXCEPT ![l] = {}]
    BY <1>1, <1>2, AskedUnder, AskedFor
  <1>4. Control!Refuse(l)
    BY <1>3 DEF Control!Refuse, Control!Answered, l
  <1> QED
    BY <1>1, <1>4 DEF Control!Next, Control!Locks, Locks

\* Steps that accept a mode change or a background.
LEMMA AcceptStep ==
    ASSUME NEW c, AnswerTo(c), UNCHANGED OnDisplay,
           IF LockOf(c) = "mode"
           THEN /\ lProg' = c.prog /\ UNCHANGED lBg
                /\ OnDisplay \in {None, c.prog}
           ELSE lBg' = c.image /\ UNCHANGED lProg
    PROVE  Control!Next
  <1> DEFINE l == LockOf(c)
  <1>1. l \in Locks
    BY DEF LockOf, Locks
  <1>2. /\ Waiting(l) = {c} /\ Waiting(l)' = {}
        /\ \A k : k # l => Waiting(k)' = Waiting(k)
    BY DEF AnswerTo
  <1>3. ValueOf(c) = IF l = "mode" THEN c.prog ELSE c.image
    BY DEF ValueOf
  <1> HIDE DEF l
  <1>4. ValueOf(c) \in Asked[l] /\ Asked' = [Asked EXCEPT ![l] = {}]
    <2>1. ValuesOf({c}) = {ValueOf(c)} /\ ValuesOf({}) = {}
      BY AskedFor
    <2>2. /\ Asked[l] = ValuesOf({c})
          /\ Asked' = [Asked EXCEPT ![l] = ValuesOf({})]
      BY <1>1, <1>2, AskedUnder
    <2> QED
      BY ONLY <2>1, <2>2
  <1>5. CASE l = "mode"
    BY <1>3, <1>4, <1>5 DEF Control!Next, Control!AcceptProgram,
       Control!Answered, l
  <1>6. CASE l = "background"
    BY <1>3, <1>4, <1>6 DEF Control!Next, Control!AcceptImage,
       Control!Answered, l
  <1> QED
    BY <1>1, <1>5, <1>6 DEF Locks

\* A call asks for a program or for an image.
LEMMA AskStep ==
    ASSUME TypeOK, TypeOK', CallsInv, NEW change \in Change, Ask(change)
    PROVE  Control!Next
  <1> DEFINE l == LockOf(change)
             value == ValueOf(change)
  <1>1. /\ l \in Locks /\ Waiting(l) = {} /\ Waiting(l)' = {change}
        /\ \A k : k # l => Waiting(k)' = Waiting(k)
    BY ChangeAsked DEF LockOf, Locks
  <1>2. value \in Control!Values(l)
    BY DEF Control!Values, ValueOf, Change, ModeChange, BackgroundChange,
       LockOf, Programs, Images
  <1>3. UNCHANGED <<lProg, lBg, OnDisplay>>
    BY DEF Ask, tickVars, connVars, sourceVars, listenerVars, viewVars,
       OnDisplay, Connected
  <1> HIDE DEF l
  <1>4. Asked[l] = {} /\ Asked' = [Asked EXCEPT ![l] = {value}]
    BY <1>1, AskedUnder, AskedFor
  <1> HIDE DEF value
  <1>5. Control!Ask(l, value)
    BY <1>3, <1>4 DEF Control!Ask
  <1> QED
    BY <1>1, <1>2, <1>5 DEF Control!Next, Control!Locks, Locks

\* Steps that leave the calls alone and the listener where it is, or take it
\* from one phase of a change to the next.
CallsKept ==
    /\ UNCHANGED <<op, modeQ, waiting, lProg, lBg>>
    /\ (lpc' = "select") = (lpc = "select")
    /\ \/ UNCHANGED <<lpc, ack>> /\ active' \in {active, NoConn}
       \/ ~Adopted /\ ~Adopted'

\* They map to what is presented, or to a stutter.
LEMMA CallsKeptStep ==
    ASSUME ControlInv, SafetyInv', ProgramInv', CallsKept
    PROVE  CallsInv' /\ [Control!Next]_(Control!vars)
  <1>1. CallsInv' /\ \A l : Waiting(l)' = Waiting(l)
    BY CallsStay DEF CallsKept, ControlInv, SafetyInv, TypeInv
  <1>2. ControlInv'
    BY <1>1 DEF ControlInv
  <1>3. \/ ~Connected'
        \/ Connected' = Connected /\ Adopted' = Adopted /\ op' = op
        \/ ~Adopted /\ ~Adopted'
    BY DEF CallsKept, Connected, Adopted
  <1> QED
    BY <1>1, <1>2, <1>3, PresentStep DEF CallsKept

\* Which steps those are.
CallsKeepers ==
    \/ TickMovesOn \/ NoDisplayFound \/ PendingTimesOut \/ RetryFallsDue
    \/ UNCHANGED vars \/ SendIsFatal \/ Stop \/ RequestQueueFull
    \/ WatchBackground \/ ApplyTemplate \/ StartConnected
    \/ \E dims \in Canvases : Negotiate(dims)
    \/ BuildSources \/ FirstBuildFails \/ LaterBuildFails
    \/ ApplyRevision \/ ApplyBackground \/ RollBackBackground \/ SendCommit
    \/ IgnoreStaleResult \/ RejectFailedBuild \/ RejectBackgroundMisfit
    \/ InstallResult /\ Matches(Head(resultQ), pending)

LEMMA CallsKeepersKeep == SafetyInv /\ CallsKeepers => CallsKept
  <1> SUFFICES ASSUME SafetyInv, CallsKeepers PROVE CallsKept
    OBVIOUS
  <1>a. TypeInv /\ TypeOK /\ Coherent
    BY DEF SafetyInv, TypeInv
  <1> USE DEF CallsKept, connVars, sourceVars, tickVars, syncVars, viewVars, procVars,
      listenerVars, watches, channelVars, clientVars
  <1>1. CASE TickMovesOn
    BY <1>1, TickMovesOnFacts
  <1>2. CASE NoDisplayFound \/ PendingTimesOut \/ RetryFallsDue \/ UNCHANGED vars
    BY <1>2 DEF NoDisplayFound, PendingTimesOut, RetryFallsDue, vars
  <1>3. CASE SendIsFatal \/ Stop \/ RequestQueueFull
    BY <1>3 DEF SendIsFatal, Stop, RequestQueueFull
  <1>4. CASE WatchBackground \/ ApplyTemplate
    BY <1>4 DEF WatchBackground, ApplyTemplate
  <1>5. CASE StartConnected
    <2>1. lpc # "commitDone"
      BY <1>a, <1>5 DEF StartConnected, Coherent, Starting
    <2>2. UNCHANGED <<lpc, op, modeQ, waiting, lProg, lBg>>
      BY <1>5 DEF StartConnected
    <2> QED
      BY <2>1, <2>2 DEF Adopted
  <1>6. ASSUME NEW dims \in Canvases, Negotiate(dims) PROVE CallsKept
    BY <1>6 DEF Negotiate
  <1>7. CASE BuildSources \/ FirstBuildFails \/ LaterBuildFails
    BY <1>7 DEF BuildSources, FirstBuildFails, LaterBuildFails
  <1>8. CASE ApplyRevision \/ ApplyBackground \/ RollBackBackground \/ SendCommit
    <2>1. /\ lpc \notin {"select", "commitDone"}
          /\ lpc' \notin {"select", "commitDone"}
          /\ UNCHANGED <<op, modeQ, waiting, lProg, lBg>>
      BY <1>8 DEF ApplyRevision, ApplyBackground, RollBackBackground, SendCommit
    <2> QED
      BY <2>1 DEF Adopted
  <1>9. CASE IgnoreStaleResult \/ RejectFailedBuild \/ RejectBackgroundMisfit
    <2>1. ResultConsumed
      BY <1>9 DEF IgnoreStaleResult, RejectFailedBuild, RejectBackgroundMisfit,
         ResultConsumed
    <2>2. IF Head(resultQ).commit THEN lpc = "commit" /\ lpc' = "commitDone"
                                  ELSE UNCHANGED <<lpc, ack>>
      BY <2>1, AnsweredResult
    <2>3. /\ Answer(Head(resultQ), FALSE)
          /\ UNCHANGED <<active, op, modeQ, waiting, lProg, lBg>>
      BY <1>9 DEF IgnoreStaleResult, RejectFailedBuild, RejectBackgroundMisfit
    <2>4. CASE Head(resultQ).commit
      BY <2>2, <2>3, <2>4 DEF Answer, Adopted
    <2>5. CASE ~Head(resultQ).commit
      BY <2>2, <2>3, <2>5
    <2> QED
      BY <2>4, <2>5
  <1>10. CASE InstallResult /\ Matches(Head(resultQ), pending)
    <2>1. ~Committed /\ UNCHANGED <<lpc, ack, op>>
      BY <1>10, BuildInstalled
    <2>2. lpc # "commitDone"
      BY <1>a, <2>1 DEF Committed, Coherent, ChangeCoherent, ModePhases
    <2>3. UNCHANGED <<modeQ, waiting, lProg, lBg>>
      BY <1>10 DEF InstallResult
    <2> QED
      BY <2>1, <2>2, <2>3 DEF Adopted
  <1> QED
    BY <1>1, <1>2, <1>3, <1>4, <1>5, <1>6, <1>7, <1>8, <1>9, <1>10 DEF CallsKeepers

\* The commit of the change in progress is installed: the display goes over to
\* its program.
LEMMA CommitControl ==
    ASSUME ControlInv, SafetyInv', ProgramInv', InstallResult,
           ~Matches(Head(resultQ), pending)
    PROVE  CallsInv' /\ [Control!Next]_(Control!vars)
  <1>a. SafetyInv /\ TypeOK /\ CallsInv /\ TypeOK'
    BY DEF ControlInv, SafetyInv, TypeInv
  <1>1. Connected /\ lpc = "commit" /\ lpc' = "commitDone"
    BY <1>a, CommitInstalled
  <1>2. UNCHANGED <<active, op, modeQ, waiting, lProg, lBg>>
    BY DEF InstallResult, viewVars, clientVars
  <1>3. CallsInv' /\ \A l : Waiting(l)' = Waiting(l)
    BY <1>a, <1>1, <1>2, CallsStay
  <1>4. LockOf(op.change) = "mode"
    BY <1>a, <1>1 DEF TypeOK, ListenerTypeOK, ModePhases, ModeOp, ModeChange, LockOf
  <1>5. op.change \in Waiting("mode")
    BY <1>a, <1>1, <1>4, WaitingIs
  <1>6. ControlInv'
    BY <1>3 DEF ControlInv
  <1> QED
    BY <1>1, <1>2, <1>3, <1>5, <1>6, PresentStep DEF Connected, Adopted

\* The listener takes a change up.
LEMMA TakeControl ==
    ASSUME ControlInv, SafetyInv', ProgramInv',
           TakeLayout \/ TakeStream \/ TakeBackground
    PROVE  CallsInv' /\ [Control!Next]_(Control!vars)
  <1>1. /\ modeQ # <<>> /\ modeQ' = Tail(modeQ) /\ UNCHANGED waiting
        /\ lpc = "select" /\ lpc' \notin {"select", "commitDone"}
        /\ op'.change = Head(modeQ) /\ UNCHANGED <<lProg, lBg, active>>
    BY DEF TakeLayout, TakeStream, TakeBackground, tickVars, connVars, viewVars,
       clientVars
  <1>2. CallsInv' /\ \A l : Waiting(l)' = Waiting(l)
    BY <1>1, ChangeTaken DEF ControlInv, SafetyInv, TypeInv
  <1>3. ControlInv'
    BY <1>2 DEF ControlInv
  <1> QED
    BY <1>1, <1>2, <1>3, PresentStep DEF Adopted

\* The display shows the listener's program, except while it waits to hear
\* that its change was accepted.
LEMMA DisplayUnlessAdopted ==
    ASSUME ControlInv
    PROVE  IF Adopted THEN OnDisplay \in {None, op.src.prog}
                      ELSE OnDisplay \in {None, lProg}
  BY DisplayIs DEF ControlInv

\* The answers: at once, or when the work on the change is over.
LEMMA RefuseControl ==
    ASSUME ControlInv, SafetyInv', ProgramInv', RefuseModeChange
    PROVE  CallsInv' /\ [Control!Next]_(Control!vars)
  <1>1. /\ modeQ # <<>> /\ modeQ' = Tail(modeQ)
        /\ lpc = "select" /\ lpc' = "select" /\ Reply(LockOf(Head(modeQ)))
        /\ UNCHANGED <<lProg, lBg, active, sources>>
    BY DEF RefuseModeChange, RefuseChange, tickVars, connVars, sourceVars, viewVars
  <1>2. CallsInv' /\ AnswerTo(Head(modeQ))
    BY <1>1, ChangeRefused DEF ControlInv, SafetyInv, TypeInv
  <1>3. OnDisplay \in {None, lProg}
    BY <1>1, DisplayUnlessAdopted DEF Adopted
  <1>4. UNCHANGED OnDisplay
    BY <1>1 DEF OnDisplay, Connected
  <1> QED
    BY <1>1, <1>2, <1>3, <1>4, RefuseStep

LEMMA AnswerControl ==
    ASSUME ControlInv, SafetyInv', ProgramInv',
           \/ RecordOffline \/ CommitAccepted \/ CommitRefused
           \/ BackgroundAccepted \/ BackgroundRefused
    PROVE  CallsInv' /\ [Control!Next]_(Control!vars)
  <1>a. TypeOK /\ TypeOK' /\ CallsInv /\ Coherent /\ ChangeBuilt
    BY DEF ControlInv, SafetyInv, TypeInv, ProgramInv
  <1>1. /\ lpc \in {"revisionDone", "commitDone", "backgroundDone"}
        /\ lpc' = "select" /\ UNCHANGED <<modeQ, active, sources>>
    BY DEF RecordOffline, CommitAccepted, CommitRefused, BackgroundAccepted,
       BackgroundRefused, RefuseChange, tickVars, connVars, sourceVars, channelVars
  <1>2. LockOf(op.change) = IF lpc = "backgroundDone" THEN "background" ELSE "mode"
    BY <1>a, <1>1 DEF TypeOK, ListenerTypeOK, ModePhases, BackgroundPhases, ModeOp,
       ModeChange, BackgroundOp, BackgroundChange, LockOf
  <1>3. Reply(LockOf(op.change))
    BY <1>2 DEF RecordOffline, CommitAccepted, CommitRefused, BackgroundAccepted,
       BackgroundRefused, RefuseChange
  <1>4. CallsInv' /\ AnswerTo(op.change)
    BY <1>a, <1>1, <1>3, ChangeAnswered
  <1>5. UNCHANGED OnDisplay
    BY <1>1 DEF OnDisplay, Connected
  <1>6. CASE RecordOffline
    <2>1. OnDisplay = None
      BY <1>a, <1>6 DEF RecordOffline, Coherent, OfflineReset, OnDisplay
    <2>2. lProg' = op.change.prog /\ UNCHANGED lBg /\ LockOf(op.change) = "mode"
      BY <1>2, <1>6 DEF RecordOffline, Adopt
    <2> QED
      BY <1>4, <1>5, <2>1, <2>2, AcceptStep
  <1>7. CASE CommitAccepted
    <2>1. OnDisplay \in {None, op.src.prog}
      BY <1>7, DisplayUnlessAdopted DEF CommitAccepted, Adopted
    <2>2. op.src.prog = op.change.prog
      BY <1>a, <1>7 DEF CommitAccepted, ChangeBuilt, ModePhases
    <2>3. lProg' = op.change.prog /\ UNCHANGED lBg /\ LockOf(op.change) = "mode"
      BY <1>2, <1>7 DEF CommitAccepted, Adopt
    <2> QED
      BY <1>4, <1>5, <2>1, <2>2, <2>3, AcceptStep
  <1>8. CASE BackgroundAccepted
    <2>1. /\ lBg' = op.change.image /\ UNCHANGED lProg
          /\ LockOf(op.change) = "background"
      BY <1>2, <1>8 DEF BackgroundAccepted
    <2> QED
      BY <1>4, <1>5, <2>1, AcceptStep
  <1>9. CASE CommitRefused \/ BackgroundRefused
    <2>1. UNCHANGED <<lProg, lBg>>
      BY <1>9 DEF CommitRefused, BackgroundRefused, viewVars
    <2>2. OnDisplay \in {None, lProg}
      BY <1>9, DisplayUnlessAdopted DEF CommitRefused, BackgroundRefused, Adopted
    <2> QED
      BY <1>4, <1>5, <2>1, <2>2, RefuseStep
  <1> QED
    BY <1>6, <1>7, <1>8, <1>9

\* Every step maps to a step of ModeControl or to a stutter, and keeps what the
\* mapping rests on.
LEMMA ControlStep ==
    ControlInv /\ [Next]_vars => ControlInv' /\ [Control!Next]_(Control!vars)
  <1> SUFFICES ASSUME ControlInv, [Next]_vars
               PROVE  ControlInv' /\ [Control!Next]_(Control!vars)
    OBVIOUS
  <1>a. SafetyInv /\ SafetyInv' /\ ProgramInv' /\ CallsInv
    BY SafetyStep, ProgramStep DEF ControlInv
  <1> SUFFICES CallsInv' /\ [Control!Next]_(Control!vars)
    BY <1>a DEF ControlInv
  <1>1. CASE CallsKeepers
    BY <1>a, <1>1, CallsKeepersKeep, CallsKeptStep
  <1>2. CASE InstallResult
    BY <1>a, <1>2, CommitControl, CallsKeepersKeep, CallsKeptStep DEF CallsKeepers
  <1>3. CASE TakeLayout \/ TakeStream \/ TakeBackground
    BY <1>a, <1>3, TakeControl
  <1>4. CASE RefuseModeChange
    BY <1>a, <1>4, RefuseControl
  <1>5. CASE \/ RecordOffline \/ CommitAccepted \/ CommitRefused
             \/ BackgroundAccepted \/ BackgroundRefused
    BY <1>a, <1>5, AnswerControl
  <1>6. ASSUME NEW change \in Change, Ask(change)
        PROVE  CallsInv' /\ [Control!Next]_(Control!vars)
    BY <1>a, <1>6, ChangeAsked, AskStep DEF SafetyInv, TypeInv
  <1> QED
    BY <1>1, <1>2, <1>3, <1>4, <1>5, <1>6
       DEF CallsKeepers, Next, TickStep, ListenerStep, TickMovesOn, Gone

\* Initial states map to initial states.
LEMMA InitControl == Init => ControlInv /\ Control!Init
  <1> SUFFICES ASSUME Init PROVE ControlInv /\ Control!Init
    OBVIOUS
  <1>1. SafetyInv /\ ProgramInv
    BY InitSafety, InitProgram
  <1>2. modeQ = <<>> /\ lpc = "select" /\ waiting = [l \in Locks |-> FALSE]
        /\ active = NoConn
    BY DEF Init
  <1>3. \A l : Waiting(l) = {}
    BY <1>2 DEF Waiting
  <1>4. CallsInv
    BY <1>2, <1>3 DEF CallsInv, OneCall, CallsHeld
  <1>5. Asked = [l \in Locks |-> {}]
    BY <1>3 DEF Asked
  <1>6. lProg \in Programs /\ lBg \in Images
    BY <1>1 DEF SafetyInv, TypeInv, TypeOK, ListenerTypeOK
  <1>7. OnDisplay = None
    BY <1>2 DEF OnDisplay, Connected
  <1> QED
    BY <1>1, <1>4, <1>5, <1>6, <1>7 DEF ControlInv, Control!Init, Control!Locks,
       Locks

\* The tick loop and the mode listener implement ModeControl: whatever builds,
\* reconnects, refusals and templates come in between, each call has one answer,
\* an accepted program is the one on the first display when its caller hears of
\* it, a refused one never is, and no other program ever gets there.
THEOREM PipelineImplementsControl == Spec => ImplementsControl
  BY InitControl, ControlStep, PTL DEF Spec, ImplementsControl, Control!Spec

==============================================================================
