---------------------------- MODULE DataChannels ----------------------------
(***************************************************************************)
(* The incoming half of the patched WebRTC muxer (connection.rs of         *)
(* libp2p-webrtc): callbacks of the peer connection put opened data        *)
(* channels into a bounded queue, the swarm's connection task takes them   *)
(* out as streams, and a drop listener per stream sends the RESET when the *)
(* request handler drops a stream that it has not closed.                  *)
(*                                                                         *)
(* The task is external (libp2p-swarm): it calls poll, then poll_inbound,  *)
(* starts over while poll_inbound is ready, and otherwise sleeps until a   *)
(* waker that one of the two registered notifies it.                       *)
(***************************************************************************)
EXTENDS Naturals, Sequences

CONSTANTS
  Channel,                      \* the data channels the browser may open
  MAX_DATA_CHANNELS_IN_FLIGHT   \* 10 in the code

ASSUME ChannelsAssumption == MAX_DATA_CHANNELS_IN_FLIGHT \in Nat

VARIABLES
  chan,       \* "none", "opened" (callback runs), "queued", "refusing" (being
              \* closed), "refused" (closed), "abandoned" (detach or that close
              \* failed), "accepted" (a handler has the stream), "closed",
              \* "dropped" (unclosed), "reset" or "unreset" (its RESET failed)
  queue,      \* incoming_data_channels_rx
  listeners,  \* drop_listeners
  polled,     \* the listeners that hold a waker of the task
  waker,      \* no_drop_listeners_waker is set
  rx_waker,   \* the queue holds a waker of the task
  turn,       \* of the task: "poll", "inbound" or "idle"
  notified    \* the task was woken

channelVars == <<chan, queue, listeners, polled, waker, rx_waker, turn, notified>>

ChannelsInit ==
  /\ chan = [c \in Channel |-> "none"]
  /\ queue = <<>>
  /\ listeners = {} /\ polled = {}
  /\ waker = FALSE /\ rx_waker = FALSE
  /\ turn = "poll" /\ notified = FALSE

-----------------------------------------------------------------------------
(* The browser and the callbacks. *)

\* on_open runs and waits for detach() and for the sender's lock.
Open(c) ==
  /\ chan[c] = "none"
  /\ chan' = [chan EXCEPT ![c] = "opened"]
  /\ UNCHANGED <<queue, listeners, polled, waker, rx_waker, turn, notified>>

DetachFails(c) ==
  /\ chan[c] = "opened"
  /\ chan' = [chan EXCEPT ![c] = "abandoned"]
  /\ UNCHANGED <<queue, listeners, polled, waker, rx_waker, turn, notified>>

\* The callback that closes a refused channel holds the sender's lock.
Unlocked == \A c \in Channel : chan[c] # "refusing"

\* The queue has one slot more than its buffer, for its only sender.
TrySend(c) ==
  /\ chan[c] = "opened"
  /\ Unlocked
  /\ Len(queue) <= MAX_DATA_CHANNELS_IN_FLIGHT
  /\ chan' = [chan EXCEPT ![c] = "queued"]
  /\ queue' = Append(queue, c)
  /\ notified' = (notified \/ rx_waker)
  /\ rx_waker' = FALSE
  /\ UNCHANGED <<listeners, polled, waker, turn>>

\* Mutant: the error of try_send is only logged; nobody closes the channel.
TrySendFails_ignored(c) ==
  /\ chan[c] = "opened" /\ Unlocked
  /\ Len(queue) > MAX_DATA_CHANNELS_IN_FLIGHT
  /\ chan' = [chan EXCEPT ![c] = "queued"]
  /\ UNCHANGED <<queue, listeners, polled, waker, rx_waker, turn, notified>>

\* try_send fails: the channel is closed at once, ...
TrySendFails(c) ==
  /\ chan[c] = "opened"
  /\ Unlocked
  /\ Len(queue) > MAX_DATA_CHANNELS_IN_FLIGHT
  /\ chan' = [chan EXCEPT ![c] = "refusing"]
  /\ UNCHANGED <<queue, listeners, polled, waker, rx_waker, turn, notified>>

\* ... which succeeds, or fails: that is only logged, and the channel stays.
CloseRefused(c) ==
  /\ chan[c] = "refusing"
  /\ \E end \in {"refused", "abandoned"} : chan' = [chan EXCEPT ![c] = end]
  /\ UNCHANGED <<queue, listeners, polled, waker, rx_waker, turn, notified>>

\* The handler is done with the stream: closed, or dropped on an error.
Release(c) ==
  /\ chan[c] = "accepted"
  /\ \E end \in {"closed", "dropped"} : chan' = [chan EXCEPT ![c] = end]
  /\ notified' = (notified \/ c \in polled)
  /\ UNCHANGED <<queue, listeners, polled, waker, rx_waker, turn>>

-----------------------------------------------------------------------------
(* The task. *)

Released == {c \in listeners : chan[c] \in {"closed", "dropped"}}

\* What poll() leaves behind once the listeners in done have completed, those
\* in failed with an error: it is logged, and the listener forgotten.
PollWith(done, failed) ==
  /\ turn = "poll"
  /\ listeners' = listeners \ done
  /\ polled' = listeners \ done
  /\ chan' = [c \in Channel |->
                IF c \notin done \/ chan[c] # "dropped" THEN chan[c]
                ELSE IF c \in failed THEN "unreset" ELSE "reset"]
  /\ waker' = (waker \/ listeners' = {})
  /\ turn' = "inbound"
  /\ UNCHANGED <<queue, rx_waker, notified>>

\* Mutant: poll() returns after the first listener that completes.
Poll_once == \E done \in SUBSET Released :
  /\ Released # {} => \E c \in Released : done = {c}
  /\ PollWith(done, {})

\* poll() drains the listeners that can complete; the rest, or the waker for
\* an empty set, will notify the task.
Poll == \E failed \in SUBSET Released : PollWith(Released, failed)

\* Mutant: the drop listener is not kept.
PollInbound_unwatched ==
  /\ turn = "inbound" /\ queue # <<>>
  /\ chan' = [chan EXCEPT ![Head(queue)] = "accepted"]
  /\ queue' = Tail(queue)
  /\ notified' = (notified \/ waker)
  /\ waker' = FALSE
  /\ turn' = "poll"
  /\ UNCHANGED <<listeners, polled, rx_waker>>

PollInbound ==
  /\ turn = "inbound"
  /\ queue # <<>>
  /\ chan' = [chan EXCEPT ![Head(queue)] = "accepted"]
  /\ queue' = Tail(queue)
  /\ listeners' = listeners \cup {Head(queue)}
  /\ notified' = (notified \/ waker)
  /\ waker' = FALSE
  /\ turn' = "poll"
  /\ UNCHANGED <<polled, rx_waker>>

NothingInbound ==
  /\ turn = "inbound"
  /\ queue = <<>>
  /\ rx_waker' = TRUE
  /\ turn' = "idle"
  /\ UNCHANGED <<chan, queue, listeners, polled, waker, notified>>

Resume ==
  /\ turn = "idle"
  /\ notified
  /\ notified' = FALSE
  /\ turn' = "poll"
  /\ UNCHANGED <<chan, queue, listeners, polled, waker, rx_waker>>

-----------------------------------------------------------------------------
Task == Poll \/ PollInbound \/ NothingInbound \/ Resume
Callback(c) == DetachFails(c) \/ TrySend(c) \/ TrySendFails(c) \/ CloseRefused(c)

ChannelsNext ==
  \/ Task
  \/ \E c \in Channel : Open(c) \/ Callback(c) \/ Release(c)

\* The runtime runs a task that is notified, and every callback, whose
\* detach() and close() settle; the browser and the request handlers owe
\* nothing.
ChannelsSpec ==
  /\ ChannelsInit /\ [][ChannelsNext]_channelVars
  /\ WF_channelVars(Task) /\ \A c \in Channel : WF_channelVars(Callback(c))

-----------------------------------------------------------------------------
(* Properties. *)

\* Every variable has its type; the queue holds the queued channels, once
\* each, and never more than the buffer and the sender's slot.
ChannelsTypeOK ==
  /\ chan \in [Channel -> {"none", "opened", "queued", "refusing", "refused", "abandoned",
                           "accepted", "closed", "dropped", "reset", "unreset"}]
  /\ queue \in Seq(Channel)
  /\ \A c \in Channel : (chan[c] = "queued") <=> \E i \in 1..Len(queue) : queue[i] = c
  /\ \A i, j \in 1..Len(queue) : queue[i] = queue[j] => i = j
  /\ Len(queue) <= MAX_DATA_CHANNELS_IN_FLIGHT + 1
  /\ polled \subseteq listeners /\ listeners \subseteq Channel
  /\ waker \in BOOLEAN /\ rx_waker \in BOOLEAN /\ notified \in BOOLEAN
  /\ turn \in {"poll", "inbound", "idle"}

\* The task never sleeps over work: when it is idle and nothing has notified
\* it, no channel is queued, every listener holds its waker and none of their
\* streams is released, whatever was sent or dropped while it was polling.
NoLostWakeup ==
  turn = "idle" /\ ~notified =>
    queue = <<>> /\ rx_waker /\ polled = listeners /\ Released = {}

\* A channel the browser has opened is not left hanging: it becomes a stream
\* or is closed, also at the limit of the queue and behind a callback that
\* holds the lock.  The exceptions are a detach() that fails and a close() that
\* fails: such a channel is abandoned, open and unread.
ChannelSettles ==
  \A c \in Channel :
    chan[c] = "opened" ~>
      \/ chan[c] \in {"accepted", "closed", "dropped", "reset", "unreset", "refused"}
      \/ chan[c] = "abandoned"

\* A stream that its handler drops unclosed is reset at the browser, so that
\* the fetch there fails instead of waiting; the exception is a RESET that
\* cannot be sent, which poll() logs and does not try again.
DropIsReset ==
  \A c \in Channel :
    chan[c] = "dropped" ~> chan[c] = "reset" \/ chan[c] = "unreset"
=============================================================================
