---------------------------- MODULE ClientStates -----------------------------
(***************************************************************************)
(* How a Client tells the application about its connection: the function   *)
(* stateCallback (src/client.cpp) compares each state that the C client    *)
(* reports with the last one, calls the user's callbacks Connected,        *)
(* Disconnected, SessionActivated and SessionClosed, and remembers the     *)
(* state.  A user's callback may call services, and while such a call      *)
(* waits the C client may report again: stateCallback is re-entered before *)
(* it has remembered anything.  `stack` holds the reports in progress,     *)
(* innermost first.  An operator Bug... is a wrong version of the one that *)
(* follows it.                                                             *)
(***************************************************************************)
EXTENDS Naturals, Sequences

CONSTANTS
    MaxDepth,       \* bound: reports in progress at once
    NestedReports   \* TRUE: user callbacks make calls during which states change

ASSUME MaxDepthAssumption == MaxDepth \in Nat \ {0}
ASSUME NestedReportsAssumption == NestedReports \in BOOLEAN

\* External: the states of a SecureChannel and of a session, as in the table in
\* front of stateCallback, with the states between two steps of the handshake as one.
ChannelStates == {"fresh", "opening", "open", "closed"}
SessionStates == {"closed", "creating", "created", "activated", "closing"}

VARIABLES
    channel, session,          \* external: the state of the C client
    lastChannel, lastSession,  \* ClientContext::lastChannelState, lastSessionState
    stack,                     \* the calls of stateCallback in progress
    heardChannel, heardSession \* history: the callback that was called last

native == <<channel, session>>
last == <<lastChannel, lastSession>>
heard == <<heardChannel, heardSession>>
statesVars == <<native, last, stack, heard>>

\* A call of stateCallback: its arguments, and where it is.
Reports == [channel : ChannelStates, session : SessionStates,
            at : {"session", "in session callback", "channel", "in channel callback", "store"}]

StatesTypeOK ==
    /\ channel \in ChannelStates
    /\ session \in SessionStates
    /\ lastChannel \in ChannelStates
    /\ lastSession \in SessionStates
    /\ stack \in Seq(Reports)
    /\ heardChannel \in {"none", "Connected", "Disconnected"}
    /\ heardSession \in {"none", "SessionActivated", "SessionClosed"}

\* The last states are value-initialised, and the first enumerator is the state in
\* which a C client starts: a fresh channel up to v1.3, a closed one from v1.4.
StatesInit ==
    /\ channel \in {"fresh", "closed"} /\ session = "closed"
    /\ lastChannel = channel /\ lastSession = session
    /\ stack = <<>>
    /\ heardChannel = "none" /\ heardSession = "none"

At(label) == stack # <<>> /\ Head(stack).at = label
Proceed(label) ==
    stack' = <<[Head(stack) EXCEPT !.at = label]>> \o Tail(stack)

InUserCode == At("in session callback") \/ At("in channel callback")

\* External: how the C client moves.  Connecting goes through the handshake; a
\* regular disconnect closes the session with the channel, a lost connection
\* leaves a session that exists behind, for the next channel to take up again.
ChannelMoves == {<<"closed", "opening">>, <<"fresh", "opening">>, <<"opening", "open">>,
                 <<"opening", "closed">>, <<"closed", "fresh">>}
SessionMoves == {<<"closed", "creating">>, <<"creating", "created">>,
                 <<"created", "activated">>, <<"activated", "closing">>}

NativeStep(ch, ss) ==
    \/ ss = session /\ <<channel, ch>> \in ChannelMoves
    \/ channel = "open" /\ ch = "open" /\ <<session, ss>> \in SessionMoves
    \/ channel = "open" /\ ch = "closed" /\ ss = "closed"
    \/ channel = "open" /\ ch = "closed" /\ session \in {"created", "activated"} /\ ss = "created"

Report(ch, ss) ==
    /\ stack = <<>> \/ (NestedReports /\ InUserCode /\ Len(stack) < MaxDepth)
    /\ NativeStep(ch, ss)
    /\ channel' = ch /\ session' = ss
    /\ stack' = <<[channel |-> ch, session |-> ss, at |-> "session"]>> \o stack
    /\ UNCHANGED <<last, heard>>

BugSessionNews(ss) ==  \* a session that closes with its channel is not news
    CASE ss # lastSession /\ ss = "activated" -> {"SessionActivated"}
      [] ss # lastSession /\ ss = "closed" /\ channel = "open" -> {"SessionClosed"}
      [] OTHER -> {}

\* The callback for a session state, if there is news.
SessionNews(ss) ==
    CASE ss # lastSession /\ ss = "activated" -> {"SessionActivated"}
      [] ss # lastSession /\ ss = "closed" -> {"SessionClosed"}
      [] OTHER -> {}

ChannelNews(ch) ==
    CASE ch # lastChannel /\ ch = "open" -> {"Connected"}
      [] ch # lastChannel /\ ch = "closed" -> {"Disconnected"}
      [] OTHER -> {}

HandleSession ==
    /\ At("session")
    /\ IF SessionNews(Head(stack).session) = {}
       THEN Proceed("channel") /\ UNCHANGED heard
       ELSE /\ Proceed("in session callback")
            /\ heardSession' \in SessionNews(Head(stack).session)
            /\ UNCHANGED heardChannel
    /\ UNCHANGED <<native, last>>

SessionCallbackReturn ==
    /\ At("in session callback")
    /\ Proceed("channel")
    /\ UNCHANGED <<native, last, heard>>

HandleChannel ==
    /\ At("channel")
    /\ IF ChannelNews(Head(stack).channel) = {}
       THEN Proceed("store") /\ UNCHANGED heard
       ELSE /\ Proceed("in channel callback")
            /\ heardChannel' \in ChannelNews(Head(stack).channel)
            /\ UNCHANGED heardSession
    /\ UNCHANGED <<native, last>>

ChannelCallbackReturn ==
    /\ At("in channel callback")
    /\ Proceed("store")
    /\ UNCHANGED <<native, last, heard>>

BugStore ==  \* remembers the channel only
    /\ At("store")
    /\ lastChannel' = Head(stack).channel
    /\ stack' = Tail(stack)
    /\ UNCHANGED <<native, lastSession, heard>>

Store ==
    /\ At("store")
    /\ lastChannel' = Head(stack).channel
    /\ lastSession' = Head(stack).session
    /\ stack' = Tail(stack)
    /\ UNCHANGED <<native, heard>>

StatesNext ==
    \/ \E ch \in ChannelStates, ss \in SessionStates : Report(ch, ss)
    \/ HandleSession \/ SessionCallbackReturn
    \/ HandleChannel \/ ChannelCallbackReturn
    \/ Store

StatesSpec == StatesInit /\ [][StatesNext]_statesVars

-----------------------------------------------------------------------------
Settled == stack = <<>>

\* Between two reports the Client remembers exactly what the C client told last,
\* so that the next comparison is with the truth.
RemembersNative == Settled => lastChannel = channel /\ lastSession = session

\* An application that follows Connected and Disconnected knows whether the
\* channel is open: onConnected is "called after the client is connected".
ConnectionIsKnown ==
    Settled => /\ channel = "open" => heardChannel = "Connected"
               /\ channel = "closed" => heardChannel # "Connected"

\* ... and one that follows SessionActivated and SessionClosed is not left with
\* a session that is closed, or without one that is active.
SessionIsKnown ==
    Settled => /\ session = "activated" => heardSession = "SessionActivated"
               /\ session = "closed" => heardSession # "SessionActivated"

\* A channel callback is called.
ChannelCall(name) ==
    /\ At("channel")
    /\ Head(stack').at = "in channel callback"
    /\ heardChannel' = name

\* stateCallback handles the session first, "mainly to handle SessionClosed before
\* Disconnected": when Disconnected is called for a report that also closes the
\* session, the application no longer thinks that it has one.
SessionClosedFirst ==
    [][(ChannelCall("Disconnected") /\ Head(stack).session = "closed")
        => heardSession # "SessionActivated"]_statesVars

=============================================================================
