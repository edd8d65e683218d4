--------------------------- MODULE LiveStoreProofs ---------------------------
(***************************************************************************)
(* The badge of the live store tells the truth, over one channel at most,  *)
(* for any number of handles.                                              *)
(***************************************************************************)
EXTENDS LiveStore, TLAPS

\* LiveIsLive and OneChannel need each other: a socket that opens is the
\* current handle's, because no other handle is still connecting.
IInv == TypeOK /\ LiveIsLive /\ OneChannel

LEMMA InitIInv == Init => IInv
  BY LiveStoreAssumption DEF Init, IInv, TypeOK, LiveIsLive, OneChannel

\* A visit begins: no socket is alive, so the new one is the only one.
LEMMA MountStep ==
    ASSUME IInv, NEW h \in Handle, Mount(h)
    PROVE  IInv'
<1> USE DEF IInv, Mount
<1>1. TypeOK'
  BY DEF TypeOK
<1>2. LiveIsLive'
  BY DEF TypeOK, LiveIsLive
<1>3. OneChannel'
  BY DEF TypeOK, OneChannel
<1>4. QED
  BY <1>1, <1>2, <1>3

\* A visit ends: the one live socket begins to close.
LEMMA UnmountStep ==
    ASSUME IInv, Unmount
    PROVE  IInv'
<1> USE DEF IInv, Unmount, Closed
<1>1. TypeOK'
  BY DEF TypeOK
<1>2. LiveIsLive'
  BY DEF LiveIsLive
<1>3. OneChannel'
  <2> SUFFICES ASSUME NEW h \in Handle PROVE sock'[h] \notin {"connecting", "open", "waiting"}
    BY DEF OneChannel
  <2>1. CASE h = ws
    BY <2>1, LiveStoreAssumption DEF TypeOK
  <2>2. CASE h # ws
    BY <2>2 DEF TypeOK, OneChannel
  <2>3. QED
    BY <2>1, <2>2
<1>4. QED
  BY <1>1, <1>2, <1>3

\* onConnected: of a socket that OneChannel says is the store's own.
LEMMA OpensStep ==
    ASSUME IInv, NEW h \in Handle, Opens(h)
    PROVE  IInv'
<1> USE DEF IInv, Opens
<1>1. h = ws /\ mounted /\ ws # None
  BY LiveStoreAssumption DEF OneChannel
<1>2. TypeOK'
  BY DEF TypeOK
<1>3. LiveIsLive' /\ OneChannel'
  BY <1>1 DEF TypeOK, LiveIsLive, OneChannel
<1>4. QED
  BY <1>2, <1>3

\* Whatever ends a socket takes Live away and leaves no second one alive.
LEMMA SocketEndsStep ==
    ASSUME IInv, NEW h \in Handle,
           Drop(h) \/ IdleClose(h) \/ LateClose(h) \/ Retry(h)
    PROVE  IInv'
<1>1. CASE Drop(h) \/ IdleClose(h)
  BY <1>1 DEF IInv, TypeOK, LiveIsLive, OneChannel, Drop, IdleClose, Fails, OnDisconnected
<1>2. CASE LateClose(h)
  BY <1>2 DEF IInv, TypeOK, LiveIsLive, OneChannel, LateClose, OnDisconnected
<1>3. CASE Retry(h)
  BY <1>3 DEF IInv, TypeOK, LiveIsLive, OneChannel, Retry
<1>4. QED
  BY <1>1, <1>2, <1>3

LEMMA StepIInv == IInv /\ [Next]_vars => IInv'
<1> SUFFICES ASSUME IInv, [Next]_vars PROVE IInv'
  OBVIOUS
<1>1. CASE Unmount
  BY <1>1, UnmountStep
<1>2. CASE Network
  BY <1>2 DEF IInv, TypeOK, LiveIsLive, OneChannel, Network
<1>3. ASSUME NEW h \in Handle, Mount(h)
      PROVE  IInv'
  BY <1>3, MountStep
<1>4. ASSUME NEW h \in Handle, SocketStep(h) \/ IdleClose(h)
      PROVE  IInv'
  BY <1>4, OpensStep, SocketEndsStep DEF SocketStep
<1>5. CASE UNCHANGED vars
  BY <1>5 DEF IInv, TypeOK, LiveIsLive, OneChannel, vars
<1>6. QED
  BY <1>1, <1>2, <1>3, <1>4, <1>5 DEF Next

LEMMA Invariance == Spec => []IInv
<1>1. QED
  BY InitIInv, StepIInv, PTL DEF Spec

\* The live store's variables keep their types (fleet.ts).
THEOREM LiveStoreTypeCorrect == Spec => []TypeOK
<1>1. IInv => TypeOK
  BY DEF IInv
<1>2. QED
  BY <1>1, Invariance, PTL

\* The badge says Live only of the current handle's open socket with its
\* heartbeat running, whatever late events of earlier sockets do
\* (onConnected, onDisconnected, disconnect).
THEOREM BadgeTellsTruth == Spec => []LiveIsLive
<1>1. IInv => LiveIsLive
  BY DEF IInv
<1>2. QED
  BY <1>1, Invariance, PTL

\* At most one socket is open, opening or waiting to be, and none once the
\* dashboard was left (connect, disconnect).
THEOREM AtMostOneChannel == Spec => []OneChannel
<1>1. IInv => OneChannel
  BY DEF IInv
<1>2. QED
  BY <1>1, Invariance, PTL
-----------------------------------------------------------------------------
(* Why the channel comes back: what fairness then only has to drive.       *)

\* Mount makes the one socket that disconnect, onConnected and the end of a
\* socket keep.
LEMMA StrandedStep == IInv /\ NeverStranded /\ [Next]_vars => NeverStranded'
<1> SUFFICES ASSUME IInv, NeverStranded, [Next]_vars PROVE NeverStranded'
  OBVIOUS
<1> USE LiveStoreAssumption DEF IInv, TypeOK, OneChannel, NeverStranded
<1>1. CASE Unmount
  BY <1>1 DEF Unmount
<1>2. CASE Network \/ UNCHANGED vars
  BY <1>2 DEF Network, vars
<1>3. ASSUME NEW h \in Handle, Mount(h)
      PROVE  NeverStranded'
  BY <1>3 DEF Mount
<1>4. ASSUME NEW h \in Handle, Opens(h)
      PROVE  NeverStranded'
  BY <1>4 DEF Opens
<1>5. ASSUME NEW h \in Handle, Retry(h)
      PROVE  NeverStranded'
  BY <1>5 DEF Retry
<1>6. ASSUME NEW h \in Handle, Drop(h) \/ IdleClose(h)
      PROVE  NeverStranded'
  BY <1>6 DEF Drop, IdleClose, Fails, OnDisconnected
<1>7. ASSUME NEW h \in Handle, LateClose(h)
      PROVE  NeverStranded'
  BY <1>7 DEF LateClose, OnDisconnected
<1>8. QED
  BY <1>1, <1>2, <1>3, <1>4, <1>5, <1>6, <1>7 DEF Next, SocketStep

\* Where there is a URL to open, a dashboard on screen always has a socket that
\* is open, opening or waiting to be reopened; and the heartbeat never pings
\* another one (connect, startHeartbeat, autoReconnect).
THEOREM DashboardNeverStranded == Spec => []NeverStranded
<1>1. Init => NeverStranded
  BY DEF Init, NeverStranded
<1>2. QED
  BY <1>1, StrandedStep, Invariance, PTL DEF Spec

\* The measure behind ChannelReturns, for any number of earlier sockets: with
\* the page on screen and the network up, every step counts down to Live or
\* uses up one of their late close events (onConnected, onDisconnected,
\* autoReconnect).
THEOREM ChannelMakesProgress == Spec => ChannelProgress
<1>1. ASSUME IInv, NeverStranded, [Next]_vars, vars' # vars,
             mounted, mounted', up, up'
      PROVE  \/ Closing' \subseteq Closing /\ Closing' # Closing
             \/ Closing' = Closing /\ ToGo' < ToGo
  <2> DEFINE Goal == \/ Closing' \subseteq Closing /\ Closing' # Closing
                     \/ Closing' = Closing /\ ToGo' < ToGo
  <2>1. ~Unmount /\ ~Network /\ \A h \in Handle : ~Mount(h) /\ ~Drop(h)
    BY <1>1 DEF Unmount, Network, Mount, Drop, IInv, TypeOK
  <2>2. ASSUME NEW h \in Handle, Opens(h)
        PROVE  Goal
    <3>1. h = ws
      BY <2>2, <1>1 DEF Opens, IInv, OneChannel
    <3>2. Closing' = Closing
      BY <2>2, <1>1 DEF Opens, Closing, IInv, TypeOK
    <3>3. ToGo = 1 /\ ToGo' = 0
      BY <2>2, <3>1, <1>1 DEF Opens, ToGo, IInv, TypeOK
    <3>4. QED
      BY <3>2, <3>3
  <2>3. ASSUME NEW h \in Handle, Retry(h)
        PROVE  Goal
    <3>1. h = ws
      BY <2>3, <1>1 DEF Retry, IInv, OneChannel
    <3>2. Closing' = Closing
      BY <2>3, <1>1 DEF Retry, Closing, IInv, TypeOK
    <3>3. ToGo = 2 /\ ToGo' = 1
      BY <2>3, <3>1, <1>1 DEF Retry, ToGo, IInv, TypeOK
    <3>4. QED
      BY <3>2, <3>3
  <2>4. ASSUME NEW h \in Handle, IdleClose(h)
        PROVE  Goal
    <3>1. h = ws
      BY <2>4, <1>1 DEF IdleClose, IInv, OneChannel
    <3>2. Closing' = Closing
      BY <2>4, <1>1 DEF IdleClose, Fails, Closing, IInv, TypeOK
    <3>3. ToGo = 3 /\ ToGo' = 2
      BY <2>4, <3>1, <1>1 DEF IdleClose, Fails, ToGo, IInv, TypeOK
    <3>4. QED
      BY <3>2, <3>3
  <2>5. ASSUME NEW h \in Handle, LateClose(h)
        PROVE  Goal
    <3>1. h \in Closing /\ Closing' = Closing \ {h}
      BY <2>5, <1>1 DEF LateClose, Closing, IInv, TypeOK
    <3>2. QED
      BY <3>1
  <2>6. QED
    BY <1>1, <2>1, <2>2, <2>3, <2>4, <2>5 DEF Next, SocketStep
<1>2. IInv /\ NeverStranded /\ [Next]_vars =>
          [mounted /\ mounted' /\ up /\ up' =>
              \/ Closing' \subseteq Closing /\ Closing' # Closing
              \/ Closing' = Closing /\ ToGo' < ToGo]_vars
  BY <1>1
<1>3. QED
  BY <1>2, Invariance, DashboardNeverStranded, PTL DEF Spec, ChannelProgress
=============================================================================
