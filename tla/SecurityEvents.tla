--------------------------- MODULE SecurityEvents ---------------------------
(***************************************************************************)
(* Committed audit events are forwarded through a directory of files, the  *)
(* outbox (internal/securityevents), one at a time in the order of their   *)
(* ids.  Two processes have one each.  The service fills it from an        *)
(* observer of its own commits ("web"); the Broker from a poller that      *)
(* follows the table of events with a cursor on the disk                   *)
(* (internal/auditnotification, "email").  A behaviour has one of them.    *)
(***************************************************************************)
EXTENDS Integers, FiniteSets

CONSTANTS
  LastEvent,     \* bound on the events that are committed
  OutboxPlaces,  \* maxPendingEvents
  Threshold,     \* circuitThreshold
  EventFaults    \* bound on failing calls and deaths

ASSUME SecurityEventsAssumption ==
  /\ LastEvent \in Nat /\ EventFaults \in Nat
  /\ OutboxPlaces \in Nat \ {0} /\ Threshold \in Nat \ {0}

EventIds == 1..LastEvent
NoCursor == -1

VARIABLES
  eventChannel,
  eventTail,      \* the events 1..eventTail are committed
  eventNotifies,  \* those the channel takes: all, or the ones with a template
  eventsUp,       \* the process of the channel is running
  observing,      \* web: events behind their commit, before they are queued
  poller,         \* email: the next step of the poller
  pollerLast,     \* the event it has dealt with
  pollerEvent,    \* the event it deals with
  eventCursor,    \* email-cursor.json
  eventFirst,     \* history: what a missing cursor was replaced by
  persisting,     \* the event of the temporary file, or 0
  signalling,     \* events in the outbox whose signal is due
  eventQueued,    \* history: events for which Queue has returned nil
  outbox,         \* files in the outbox
  outboxStray,    \* temporary files that a death has left there
  relayed,        \* events the receiver has accepted
  senderAt,       \* the next step of the forwarding goroutine
  sending,        \* the event it forwards
  senderFailures, \* in a row, up to Threshold
  senderWoken,    \* the wake channel, with one slot, is full
  eventFaults

sourceVars == <<eventChannel, eventTail, eventNotifies>>
pollVars == <<poller, pollerLast, pollerEvent, eventCursor, eventFirst>>
spoolVars == <<persisting, signalling, eventQueued, outboxStray>>
sendVars == <<senderAt, sending, senderFailures>>
eventVars ==
  <<sourceVars, eventsUp, observing, pollVars, spoolVars, outbox, relayed, sendVars,
    senderWoken, eventFaults>>

SecurityEventsTypeOK ==
  /\ eventChannel \in {"web", "email"}
  /\ eventTail \in 0..LastEvent /\ eventNotifies \subseteq EventIds
  /\ eventsUp \in BOOLEAN /\ observing \subseteq EventIds
  /\ poller \in {"off", "start", "first", "next", "queue", "cursor", "tick"}
  /\ pollerLast \in 0..LastEvent /\ pollerEvent \in 0..LastEvent
  /\ eventCursor \in NoCursor..LastEvent /\ eventFirst \in NoCursor..LastEvent
  /\ persisting \in 0..LastEvent /\ signalling \subseteq EventIds
  /\ eventQueued \subseteq EventIds /\ outbox \subseteq EventIds
  /\ outboxStray \in 0..EventFaults /\ relayed \subseteq EventIds
  /\ senderAt \in {"off", "look", "send", "remove", "wait", "delay", "open"}
  /\ sending \in 0..LastEvent /\ senderFailures \in 0..Threshold
  /\ senderWoken \in BOOLEAN /\ eventFaults \in 0..EventFaults

SecurityEventsInit ==
  /\ eventChannel \in {"web", "email"}
  /\ eventNotifies \in IF eventChannel = "web" THEN {EventIds} ELSE SUBSET EventIds
  /\ eventTail = 0 /\ eventsUp = FALSE /\ observing = {}
  /\ poller = "off" /\ pollerLast = 0 /\ pollerEvent = 0
  /\ eventCursor = NoCursor /\ eventFirst = NoCursor
  /\ persisting = 0 /\ signalling = {} /\ eventQueued = {}
  /\ outbox = {} /\ outboxStray = 0 /\ relayed = {}
  /\ senderAt = "off" /\ sending = 0 /\ senderFailures = 0 /\ senderWoken = FALSE
  /\ eventFaults = 0

EventFault ==
  /\ eventFaults < EventFaults
  /\ eventFaults' = eventFaults + 1

----------------------------------------------------------------------------
(* The processes. *)

(* A transaction of the service is observed behind its commit, when others *)
(* may have committed, too. Those of the Broker and the commands are not.  *)
EventCommitted ==
  /\ eventTail < LastEvent /\ eventTail' = eventTail + 1
  /\ \/ UNCHANGED observing
     \/ eventChannel = "web" /\ eventsUp /\ observing' = observing \cup {eventTail + 1}
  /\ UNCHANGED <<eventChannel, eventNotifies, eventsUp, pollVars, spoolVars, outbox,
                 relayed, sendVars, senderWoken, eventFaults>>

(* New, which signals once, and on the Broker's side Poller.Start.         *)
EventsStart ==
  /\ ~eventsUp /\ eventsUp' = TRUE
  /\ senderAt' = "look" /\ senderWoken' = TRUE
  /\ poller' = IF eventChannel = "email" THEN "start" ELSE "off"
  /\ UNCHANGED <<sourceVars, observing, pollerLast, pollerEvent, eventCursor, eventFirst,
                 spoolVars, outbox, relayed, sending, senderFailures, eventFaults>>

(* What is in memory is gone; a temporary file stays where it is. *)
EventsDie ==
  /\ eventsUp /\ EventFault /\ eventsUp' = FALSE
  /\ observing' = {} /\ signalling' = {} /\ persisting' = 0
  /\ poller' = "off" /\ pollerLast' = 0 /\ pollerEvent' = 0
  /\ senderAt' = "off" /\ sending' = 0 /\ senderFailures' = 0 /\ senderWoken' = FALSE
  /\ outboxStray' = IF persisting = 0 THEN outboxStray ELSE outboxStray + 1
  /\ UNCHANGED <<sourceVars, eventCursor, eventFirst, eventQueued, outbox, relayed>>

----------------------------------------------------------------------------
(* Queue and persist, which holds the mutex. *)

(* Who has called Queue for the event. *)
Offered(e) ==
  CASE eventChannel = "web"   -> e \in observing
    [] eventChannel = "email" -> poller = "queue" /\ pollerEvent = e /\ e \in eventNotifies

(* Queue returns: Observe drops the error, the poller waits for a tick.    *)
Returns(e, next) ==
  /\ observing' = observing \ {e}
  /\ poller' = IF eventChannel = "email" THEN next ELSE poller
  /\ UNCHANGED <<pollerLast, pollerEvent, eventCursor, eventFirst>>

Full == Cardinality(outbox) + outboxStray >= OutboxPlaces

(* The file is there from an earlier attempt, or a temporary one is made.  *)
QueueBegins(e) ==
  /\ Offered(e) /\ persisting = 0 /\ e \notin signalling
  /\ IF e \in outbox
       THEN signalling' = signalling \cup {e} /\ UNCHANGED persisting
       ELSE ~Full /\ persisting' = e /\ UNCHANGED signalling
  /\ UNCHANGED <<sourceVars, eventsUp, observing, pollVars, eventQueued, outboxStray,
                 outbox, relayed, sendVars, senderWoken, eventFaults>>

(* Mutant: the poller goes on as if the event were in the outbox. *)
QueueFailsSilently(e) ==
  /\ Offered(e) /\ persisting \in {0, e} /\ e \notin signalling
  /\ \/ persisting = 0 /\ e \notin outbox /\ Full /\ UNCHANGED eventFaults
     \/ EventFault
  /\ persisting' = 0 /\ Returns(e, "cursor")
  /\ UNCHANGED <<sourceVars, eventsUp, signalling, eventQueued, outboxStray, outbox,
                 relayed, sendVars, senderWoken>>

QueueFails(e) ==
  /\ Offered(e) /\ persisting \in {0, e} /\ e \notin signalling
  /\ \/ persisting = 0 /\ e \notin outbox /\ Full /\ UNCHANGED eventFaults
     \/ EventFault
  /\ persisting' = 0 /\ Returns(e, "tick")
  /\ UNCHANGED <<sourceVars, eventsUp, signalling, eventQueued, outboxStray, outbox,
                 relayed, sendVars, senderWoken>>

QueueEnds ==
  /\ persisting # 0 /\ persisting' = 0
  /\ outbox' = outbox \cup {persisting} /\ signalling' = signalling \cup {persisting}
  /\ UNCHANGED <<sourceVars, eventsUp, observing, pollVars, eventQueued, outboxStray,
                 relayed, sendVars, senderWoken, eventFaults>>

(* Mutant: without a slot in the channel a signal that comes between the   *)
(* look into the directory and the wait is lost.                           *)
QueueSignalsUnbuffered(e) ==
  /\ e \in signalling /\ signalling' = signalling \ {e}
  /\ senderWoken' \in {senderWoken, TRUE} /\ eventQueued' = eventQueued \cup {e}
  /\ Returns(e, "cursor")
  /\ UNCHANGED <<sourceVars, eventsUp, persisting, outboxStray, outbox, relayed, sendVars,
                 eventFaults>>

(* A full channel stays as it is. *)
QueueSignals(e) ==
  /\ e \in signalling /\ signalling' = signalling \ {e}
  /\ senderWoken' = TRUE /\ eventQueued' = eventQueued \cup {e}
  /\ Returns(e, "cursor")
  /\ UNCHANGED <<sourceVars, eventsUp, persisting, outboxStray, outbox, relayed, sendVars,
                 eventFaults>>

QueueSteps(e) == QueueBegins(e) \/ QueueFails(e) \/ QueueSignals(e)

----------------------------------------------------------------------------
(* The poller. *)

Polls(next) == poller' = next /\ UNCHANGED <<pollerLast, pollerEvent>>

NotPolled ==
  UNCHANGED <<sourceVars, eventsUp, observing, spoolVars, outbox, relayed, sendVars,
              senderWoken>>

(* The cursor is read; without one the end of the table is taken for it.   *)
PollerReads ==
  /\ poller = "start"
  /\ IF eventCursor = NoCursor
       THEN poller' = "first" /\ pollerLast' = eventTail
       ELSE poller' = "next" /\ pollerLast' = eventCursor
  /\ UNCHANGED <<pollerEvent, eventCursor, eventFirst, eventFaults>> /\ NotPolled

PollerFirst ==
  /\ poller = "first" /\ Polls("next")
  /\ eventCursor' = pollerLast /\ eventFirst' = pollerLast
  /\ UNCHANGED eventFaults /\ NotPolled

(* next: the event behind the last one. *)
PollerFinds ==
  /\ poller = "next"
  /\ \/ /\ pollerLast < eventTail /\ poller' = "queue" /\ pollerEvent' = pollerLast + 1
        /\ UNCHANGED <<pollerLast, eventFaults>>
     \/ pollerLast = eventTail /\ Polls("tick") /\ UNCHANGED eventFaults
     \/ EventFault /\ Polls("tick")
  /\ UNCHANGED <<eventCursor, eventFirst>> /\ NotPolled

(* Queue has nothing to do for an event without a template. *)
PollerPasses ==
  /\ poller = "queue" /\ pollerEvent \notin eventNotifies /\ Polls("cursor")
  /\ UNCHANGED <<eventCursor, eventFirst, eventFaults>> /\ NotPolled

(* writeCursor, and only then the next event. *)
PollerAdvances ==
  /\ poller = "cursor"
  /\ \/ /\ eventCursor' = pollerEvent /\ pollerLast' = pollerEvent /\ poller' = "next"
        /\ UNCHANGED <<pollerEvent, eventFaults>>
     \/ EventFault /\ Polls("tick") /\ UNCHANGED eventCursor
  /\ UNCHANGED eventFirst /\ NotPolled

PollerTicks ==
  /\ poller = "tick" /\ Polls("next")
  /\ UNCHANGED <<eventCursor, eventFirst, eventFaults>> /\ NotPolled

PollerSteps ==
  \/ PollerReads \/ PollerFirst \/ PollerFinds \/ PollerPasses \/ PollerAdvances
  \/ PollerTicks

----------------------------------------------------------------------------
(* run and forwardOne, which do not take the mutex. *)

NotSent == UNCHANGED <<sourceVars, eventsUp, observing, pollVars, spoolVars>>

(* The failures are counted; behind the threshold only the timer counts.   *)
BacksOff ==
  /\ EventFault
  /\ senderFailures' = IF senderFailures = Threshold THEN Threshold ELSE senderFailures + 1
  /\ senderAt' = IF senderFailures' = Threshold THEN "open" ELSE "delay"
  /\ UNCHANGED sending

SenderLooks ==
  /\ senderAt = "look"
  /\ \/ outbox = {} /\ senderAt' = "wait" /\ senderFailures' = 0 /\ UNCHANGED sending
     \/ /\ \E e \in outbox : sending' = e /\ \A d \in outbox : e <= d
        /\ senderAt' = "send" /\ UNCHANGED senderFailures
  /\ UNCHANGED <<outbox, relayed, senderWoken, eventFaults>> /\ NotSent

(* The receiver accepts it, refuses it, or its answer is lost. *)
SenderSends ==
  /\ senderAt = "send"
  /\ \/ /\ relayed' = relayed \cup {sending} /\ senderAt' = "remove"
        /\ UNCHANGED <<sending, senderFailures, eventFaults>>
     \/ BacksOff /\ relayed' \in {relayed, relayed \cup {sending}}
  /\ UNCHANGED <<outbox, senderWoken>> /\ NotSent

(* The file goes, and a signal that has come meanwhile is taken. *)
SenderRemoves ==
  /\ senderAt = "remove"
  /\ \/ /\ outbox' = outbox \ {sending} /\ senderAt' = "look" /\ senderFailures' = 0
        /\ senderWoken' = FALSE /\ UNCHANGED <<sending, eventFaults>>
     \/ BacksOff /\ UNCHANGED <<outbox, senderWoken>>
  /\ UNCHANGED relayed /\ NotSent

SenderWakes ==
  /\ senderAt \in {"wait", "delay"} /\ senderWoken
  /\ senderAt' = "look" /\ senderWoken' = FALSE
  /\ UNCHANGED <<sending, senderFailures, outbox, relayed, eventFaults>> /\ NotSent

SenderTimer ==
  /\ senderAt \in {"delay", "open"} /\ senderAt' = "look"
  /\ UNCHANGED <<sending, senderFailures, outbox, relayed, senderWoken, eventFaults>>
  /\ NotSent

SenderSteps ==
  SenderLooks \/ SenderSends \/ SenderRemoves \/ SenderWakes \/ SenderTimer

SecurityEventsNext ==
  \/ EventCommitted \/ EventsStart \/ EventsDie
  \/ \E e \in EventIds : QueueSteps(e)
  \/ QueueEnds \/ PollerSteps \/ SenderSteps

SecurityEventsSpec == SecurityEventsInit /\ [][SecurityEventsNext]_eventVars

(* The goroutines go on, and the receiver answers in the end. *)
EventsFairness ==
  /\ \A e \in EventIds : WF_eventVars(QueueSteps(e))
  /\ WF_eventVars(QueueEnds) /\ WF_eventVars(PollerSteps) /\ WF_eventVars(SenderSteps)

----------------------------------------------------------------------------
(* The events that have to arrive: of the Broker's channel the ones with a *)
(* template from the first start on, of the service's those Queue took.    *)
Due(e) ==
  CASE eventChannel = "web"   -> e \in eventQueued
    [] eventChannel = "email" -> /\ eventCursor # NoCursor /\ e \in eventNotifies
                                 /\ eventFirst < e /\ e <= eventTail

Forwarded(e) == e \in outbox \/ e \in relayed

(* Whatever fails or dies: what was queued, or what the cursor has passed, *)
(* is on the disk or has arrived; the emails arrive for the first time in  *)
(* the order of their events; and a sender does not sleep over a file      *)
(* unless a signal is on its way.                                          *)
EventsKept ==
  /\ SecurityEventsTypeOK
  /\ \A e \in eventQueued : Forwarded(e)
  /\ \A e \in EventIds : eventChannel = "email" /\ Due(e) =>
       /\ e <= eventCursor => Forwarded(e)
       /\ \A d \in relayed : e < d => e \in relayed
  /\ senderAt = "wait" /\ outbox # {} => senderWoken \/ signalling # {}

(* A due event arrives as long as its process lives: the poller and the    *)
(* sender come to it whatever they were waiting for.                       *)
EventsArrive ==
  \A e \in EventIds : (eventsUp /\ Due(e)) ~> (e \in relayed \/ ~eventsUp)
=============================================================================
