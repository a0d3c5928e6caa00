--------------------------- MODULE ThreadChannels ---------------------------
(***************************************************************************)
(* Named channels between VM threads, and the threads themselves           *)
(* (src/src/thread_native.cpp): threadSpawn, threadJoin and                *)
(* threadChannelCreate, Send, Receive, TryReceive, Poll and Close.         *)
(*                                                                         *)
(* One action per critical section of channel->mutex or g_threadMutex; the *)
(* notifications come after the mutex is released and are actions of their *)
(* own.  Channels are never removed, so a lookup that found one stays      *)
(* right.  A message is a number: the deep copy into a TransferValue       *)
(* shares nothing with the sender.  A call that fails (no such channel,    *)
(* channel closed) or returns nil at once changes nothing.                 *)
(***************************************************************************)
EXTENDS Naturals, Sequences, FiniteSets

CONSTANTS
    Threads,       \* OS threads, each with a VM of its own
    Main,          \* the thread of the program
    Channels,      \* channel names
    MaxMessages    \* bound: messages ever sent to one channel

ASSUME ChannelAssumption ==
    /\ Main \in Threads
    /\ IsFiniteSet(Threads)
    /\ MaxMessages \in Nat

CONSTANT NoThread
ASSUME NoThreadAssumption == NoThread \notin Threads

VARIABLES
    created,      \* channels of g_channels
    closed,       \* channels with Channel::closed
    messages,     \* Channel::messages
    threadPc,     \* where a thread is
    chan,         \* the channel of its call
    target,       \* the thread it joins
    threadMutex,  \* the holder of g_threadMutex, between two actions
    spawned,      \* threads of g_threads that are still joinable
    sent,         \* history: how many messages were sent
    delivered     \* history: messages taken, in order

allChannelVars == <<created, closed, messages, threadPc, chan, target, threadMutex, spawned,
                    sent, delivered>>
channelVars == <<created, closed, messages, sent, delivered>>
threadVars  == <<target, threadMutex, spawned>>

ChannelsTypeOK ==
    /\ created \in SUBSET Channels
    /\ closed \in SUBSET created
    /\ messages \in [Channels -> Seq(1 .. MaxMessages)]
    /\ threadPc \in [Threads -> {"unborn", "run", "notifyOne", "notifyAll", "asleep",
                           "woken", "joining", "done"}]
    /\ chan \in [Threads -> Channels]
    /\ target \in [Threads -> Threads]
    /\ threadMutex \in Threads \cup {NoThread}
    /\ spawned \in SUBSET Threads
    /\ sent \in [Channels -> 0 .. MaxMessages]
    /\ delivered \in [Channels -> Seq(1 .. MaxMessages)]

ChannelsInit ==
    /\ created = {}
    /\ closed = {}
    /\ messages = [c \in Channels |-> <<>>]
    /\ threadPc = [t \in Threads |-> IF t = Main THEN "run" ELSE "unborn"]
    /\ chan \in [Threads -> Channels]
    /\ target = [t \in Threads |-> Main]
    /\ threadMutex = NoThread
    /\ spawned = {}
    /\ sent = [c \in Channels |-> 0]
    /\ delivered = [c \in Channels |-> <<>>]

GoTo(t, from, to) ==
    /\ threadPc[t] = from
    /\ threadPc' = [threadPc EXCEPT ![t] = to]

-----------------------------------------------------------------------------
(* Channels                                                                *)

Create(t, c) ==
    /\ GoTo(t, "run", "run")
    /\ created' = created \cup {c}
    /\ UNCHANGED <<closed, messages, sent, delivered, chan, threadVars>>

\* Mutant: Send notifies nobody.
MutSendSilent(t, c) ==
    /\ GoTo(t, "run", "run")
    /\ c \in created \ closed
    /\ sent[c] < MaxMessages
    /\ messages' = [messages EXCEPT ![c] = Append(@, sent[c] + 1)]
    /\ sent' = [sent EXCEPT ![c] = @ + 1]
    /\ chan' = [chan EXCEPT ![t] = c]
    /\ UNCHANGED <<created, closed, delivered, threadVars>>

Send(t, c) ==
    /\ GoTo(t, "run", "notifyOne")
    /\ c \in created \ closed
    /\ sent[c] < MaxMessages
    /\ messages' = [messages EXCEPT ![c] = Append(@, sent[c] + 1)]
    /\ sent' = [sent EXCEPT ![c] = @ + 1]
    /\ chan' = [chan EXCEPT ![t] = c]
    /\ UNCHANGED <<created, closed, delivered, threadVars>>

Asleep(c) == {t \in Threads : threadPc[t] = "asleep" /\ chan[t] = c}
Woken(c)  == {t \in Threads : threadPc[t] = "woken" /\ chan[t] = c}

\* channel->cv.notify_one()
NotifyOne(t) ==
    /\ threadPc[t] = "notifyOne"
    /\ \/ /\ Asleep(chan[t]) = {}
          /\ threadPc' = [threadPc EXCEPT ![t] = "run"]
       \/ \E r \in Asleep(chan[t]) :
             threadPc' = [threadPc EXCEPT ![t] = "run", ![r] = "woken"]
    /\ UNCHANGED <<channelVars, chan, threadVars>>

\* The critical section that takes the first message.
Pop(t, c) ==
    /\ messages[c] # <<>>
    /\ messages' = [messages EXCEPT ![c] = Tail(@)]
    /\ delivered' = [delivered EXCEPT ![c] = Append(@, Head(messages[c]))]
    /\ UNCHANGED <<created, closed, sent, threadVars>>

\* Mutant: the message is copied and popped in two critical sections.
MutTake(t, c) ==
    /\ GoTo(t, "run", "run")
    /\ messages[c] # <<>>
    /\ delivered' = [delivered EXCEPT ![c] = Append(@, Head(messages[c]))]
    /\ UNCHANGED <<created, closed, messages, sent, chan, threadVars>>

\* Receive, TryReceive and Poll of a channel that has mail.
Take(t, c) ==
    /\ GoTo(t, "run", "run")
    /\ Pop(t, c)
    /\ UNCHANGED chan

\* Receive on an empty, open channel.
Sleep(t, c) ==
    /\ GoTo(t, "run", "asleep")
    /\ c \in created \ closed
    /\ messages[c] = <<>>
    /\ chan' = [chan EXCEPT ![t] = c]
    /\ UNCHANGED <<channelVars, threadVars>>

\* A receiver that woke up evaluates the predicate of cv.wait again: ...
WokenTakes(t) ==
    /\ GoTo(t, "woken", "run")
    /\ Pop(t, chan[t])
    /\ UNCHANGED chan

\* ... a closed and empty channel gives nil, ...
WokenClosed(t) ==
    /\ GoTo(t, "woken", "run")
    /\ messages[chan[t]] = <<>>
    /\ chan[t] \in closed
    /\ UNCHANGED <<channelVars, chan, threadVars>>

\* ... an open one, whose mail somebody else took, more sleep.
WokenSleeps(t) ==
    /\ GoTo(t, "woken", "asleep")
    /\ messages[chan[t]] = <<>>
    /\ chan[t] \notin closed
    /\ UNCHANGED <<channelVars, chan, threadVars>>

Spurious(t) ==
    /\ GoTo(t, "asleep", "woken")
    /\ UNCHANGED <<channelVars, chan, threadVars>>

Close(t, c) ==
    /\ GoTo(t, "run", "notifyAll")
    /\ c \in created
    /\ closed' = closed \cup {c}
    /\ chan' = [chan EXCEPT ![t] = c]
    /\ UNCHANGED <<created, messages, sent, delivered, threadVars>>

\* Mutant: Close notifies one receiver only.
MutNotifyAll(t) ==
    /\ threadPc[t] = "notifyAll"
    /\ \/ /\ Asleep(chan[t]) = {}
          /\ threadPc' = [threadPc EXCEPT ![t] = "run"]
       \/ \E r \in Asleep(chan[t]) :
             threadPc' = [threadPc EXCEPT ![t] = "run", ![r] = "woken"]
    /\ UNCHANGED <<channelVars, chan, threadVars>>

\* channel->cv.notify_all()
NotifyAll(t) ==
    /\ threadPc[t] = "notifyAll"
    /\ threadPc' = [r \in Threads |-> IF r = t THEN "run"
                                ELSE IF r \in Asleep(chan[t]) THEN "woken"
                                ELSE threadPc[r]]
    /\ UNCHANGED <<channelVars, chan, threadVars>>

-----------------------------------------------------------------------------
(* Threads                                                                 *)

\* threadSpawn holds g_threadMutex while it starts the thread.
Spawn(t, u) ==
    /\ threadPc[t] = "run"
    /\ threadPc[u] = "unborn"
    /\ threadMutex = NoThread
    /\ threadPc' = [threadPc EXCEPT ![u] = "run"]
    /\ spawned' = spawned \cup {u}
    /\ UNCHANGED <<channelVars, chan, target, threadMutex>>

\* Mutant: threadJoin waits without g_threadMutex.
MutJoin(t, u) ==
    /\ GoTo(t, "run", "joining")
    /\ u \in spawned \ {t}
    /\ target' = [target EXCEPT ![t] = u]
    /\ UNCHANGED <<channelVars, chan, threadMutex, spawned>>

\* threadJoin keeps g_threadMutex until the thread has ended.  (Of a thread
\* that was joined before it returns at once; a join of itself throws.)
Join(t, u) ==
    /\ GoTo(t, "run", "joining")
    /\ threadMutex = NoThread
    /\ u \in spawned \ {t}
    /\ threadMutex' = t
    /\ target' = [target EXCEPT ![t] = u]
    /\ UNCHANGED <<channelVars, chan, spawned>>

JoinEnd(t) ==
    /\ threadPc[target[t]] = "done"
    /\ GoTo(t, "joining", "run")
    /\ threadMutex' = NoThread
    /\ spawned' = spawned \ {target[t]}
    /\ UNCHANGED <<channelVars, chan, target>>

\* The script of a spawned thread ends.  (When that of Main ends, so does the
\* process, and the model with it.)
Exit(t) ==
    /\ t # Main
    /\ GoTo(t, "run", "done")
    /\ UNCHANGED <<channelVars, chan, threadVars>>

-----------------------------------------------------------------------------
\* What follows without anybody's decision
Forced(t) ==
    \/ NotifyOne(t) \/ NotifyAll(t) \/ WokenTakes(t) \/ WokenClosed(t)
    \/ WokenSleeps(t) \/ JoinEnd(t)

Call(t) ==
    \/ \E c \in Channels : Create(t, c) \/ Send(t, c) \/ Take(t, c) \/ Sleep(t, c)
                           \/ Close(t, c)
    \/ \E u \in Threads : Spawn(t, u) \/ Join(t, u)
    \/ Exit(t)

ChannelsNext == \E t \in Threads : Forced(t) \/ Call(t) \/ Spurious(t)

\* The operating system runs every thread that can run; no script is obliged
\* to make another call.
ChannelsSpec ==
    ChannelsInit /\ [][ChannelsNext]_allChannelVars
    /\ \A t \in Threads : WF_allChannelVars(Forced(t))
-----------------------------------------------------------------------------
(* Properties                                                              *)

Numbered(n) == [i \in 1 .. n |-> i]

\* What is received from a channel is what was sent to it, each message once
\* and in order, whichever natives and threads take it, before or after the
\* channel is closed; what was not yet received is still there.
ReceivedOnceInOrder ==
    \A c \in Channels : Numbered(sent[c]) = delivered[c] \o messages[c]

Notifiers(c) == {t \in Threads : threadPc[t] = "notifyOne" /\ chan[t] = c}
Closers(c)   == {t \in Threads : threadPc[t] = "notifyAll" /\ chan[t] = c}

\* No lost wake-up: while a receiver sleeps, every message in the channel is
\* matched by a notification under way or a receiver already awake, and a
\* closed channel by a notification to all.
SleepersWillBeWoken ==
    \A c \in Channels : Asleep(c) # {} =>
        /\ \/ Len(messages[c]) <= Cardinality(Notifiers(c)) + Cardinality(Woken(c))
           \/ Closers(c) # {}
        /\ c \in closed => Closers(c) # {}

\* Closing a channel releases every receiver that waits on it.
CloseReleasesReceivers ==
    \A t \in Threads :
        (threadPc[t] = "asleep" /\ chan[t] \in closed) ~> threadPc[t] \notin {"asleep", "woken"}

\* A thread is joined by one thread at a time: std::thread::join is never
\* called twice on one thread, at the price of one join at a time in all.
JoinedOnce ==
    \A t, u \in Threads :
        (threadPc[t] = "joining" /\ threadPc[u] = "joining" /\ target[t] = target[u]) => t = u

\* The state is well formed, and no thread is joined twice (nativeThreadJoin).
ChannelsWellFormed == ChannelsTypeOK /\ JoinedOnce
=============================================================================
