----------------------------- MODULE StateWatcher -----------------------------
(***************************************************************************)
(* state_watcher.rs: one task polls the contract, bumps an atomic token    *)
(* when epoch or challenge changed and then publishes the WorkState on a   *)
(* watch channel.  A poll makes several RPC calls, so the epoch and the    *)
(* challenge it combines may be of different blocks; token and channel are *)
(* two pieces of shared state, written one after the other.  The channel   *)
(* keeps a value only while it has a receiver: send fails without one and  *)
(* stores nothing, and the error is dropped.  A coordinator subscribes     *)
(* before the task starts and mirrors the channel for good;                *)
(* standalone_mine subscribes to wait for the first state, lets go of its  *)
(* receiver and reads with current(), which needs none.                    *)
(***************************************************************************)
EXTENDS Integers

CONSTANTS
  MaxEpoch,  \* bound on epochs
  MaxToken,  \* bound on changes of state the watcher sees
  Lag,       \* how many epochs an endpoint that answers may be behind the head
  None       \* no value

VARIABLES
  head,      \* external: the contract's epoch; each epoch has its challenge
  wpc,       \* where run is: "state", "challenge", "compare" or "publish"
  polled,    \* the WorkState poll_once is putting together
  last,      \* last_epoch and last_challenge
  token,     \* epoch_token
  published, \* the watch channel's value
  mode,      \* AppConfig.mode, of the two that run a watcher
  listening  \* whether the channel has a receiver

channel == <<published, listening>>
watcherVars == <<head, wpc, polled, last, token, mode, channel>>

Epochs == 0..MaxEpoch
\* A challenge is named by the epoch it belongs to.
WorkState == [epoch : Epochs, challenge : Epochs]

ASSUME WatcherAssumption ==
  /\ MaxEpoch \in Nat /\ MaxToken \in Nat /\ Lag \in Nat
  /\ None \notin WorkState \cup Nat

WatcherTypeOK ==
  /\ head \in Epochs
  /\ wpc \in {"state", "challenge", "compare", "publish"}
  /\ polled \in WorkState \cup {None}
  /\ last \in WorkState \cup {None}
  /\ token \in 0..MaxToken
  /\ published \in WorkState \cup {None}
  /\ mode \in {"standalone", "coordinator"}
  /\ listening \in BOOLEAN

\* The receiver StateWatcher::new makes is dropped there; CoordinatorApp::run
\* subscribes before it starts the watcher.
WatcherInit ==
  /\ head = 0 /\ wpc = "state" /\ polled = None /\ last = None
  /\ token = 0 /\ published = None
  /\ mode \in {"standalone", "coordinator"} /\ listening = (mode = "coordinator")

\* What an eth_call of the contract may answer.
Readable == {e \in Epochs : e <= head /\ head <= e + Lag}

NewEpoch ==
  /\ head < MaxEpoch
  /\ head' = head + 1
  /\ UNCHANGED <<wpc, polled, last, token, mode, channel>>

\* mining_state; the challenge is not known yet.
PollState ==
  /\ wpc = "state"
  /\ \E e \in Readable : polled' = [epoch |-> e, challenge |-> e]
  /\ wpc' = "challenge"
  /\ UNCHANGED <<head, last, token, mode, channel>>

PollChallenge ==
  /\ wpc = "challenge"
  /\ \E e \in Readable : polled' = [polled EXCEPT !.challenge = e]
  /\ wpc' = "compare"
  /\ UNCHANGED <<head, last, token, mode, channel>>

\* get_challenge failed: the poll is dropped and made again after the interval.
\* (When mining_state fails nothing has happened yet.)
PollFails ==
  /\ wpc = "challenge"
  /\ wpc' = "state" /\ polled' = None
  /\ UNCHANGED <<head, last, token, mode, channel>>

(* Mutant: only a new challenge is news, and only news are published. *)
CompareChallenge ==
  LET known == IF last = None THEN None ELSE last.challenge
  IN /\ wpc = "compare"
     /\ \/ /\ polled.challenge # known /\ token < MaxToken
           /\ last' = polled /\ token' = token + 1 /\ wpc' = "publish"
           /\ UNCHANGED polled
        \/ /\ polled.challenge = known
           /\ wpc' = "state" /\ polled' = None
           /\ UNCHANGED <<last, token>>
     /\ UNCHANGED <<head, mode, channel>>

(* Mutant: a new challenge within an epoch is published without a new token. *)
CompareEpoch ==
  LET known == IF last = None THEN None ELSE last.epoch
  IN /\ wpc = "compare"
     /\ \/ polled.epoch # known /\ token < MaxToken /\ last' = polled /\ token' = token + 1
        \/ polled.epoch = known /\ UNCHANGED <<last, token>>
     /\ wpc' = "publish"
     /\ UNCHANGED <<head, polled, mode, channel>>

\* The token moves before the state it stands for is published.
Compare ==
  /\ wpc = "compare"
  /\ \/ polled # last /\ token < MaxToken /\ last' = polled /\ token' = token + 1
     \/ polled = last /\ UNCHANGED <<last, token>>
  /\ wpc' = "publish"
  /\ UNCHANGED <<head, polled, mode, channel>>

\* send: nobody hears of its failure.
Publish ==
  /\ wpc = "publish"
  /\ published' = IF listening THEN polled ELSE published
  /\ wpc' = "state" /\ polled' = None
  /\ UNCHANGED <<head, last, token, mode, listening>>

\* standalone_mine waits for the first state ...
Subscribe ==
  /\ ~listening /\ published = None
  /\ listening' = TRUE
  /\ UNCHANGED <<head, wpc, polled, last, token, mode, published>>

\* ... and its receiver ends with the block; whatever was published by then stays.
Unsubscribe ==
  /\ mode = "standalone" /\ listening /\ published # None
  /\ listening' = FALSE
  /\ UNCHANGED <<head, wpc, polled, last, token, mode, published>>

\* standalone_mine has come past the wait.
Started == mode = "standalone" /\ ~listening /\ published # None

WatcherStep == PollState \/ PollChallenge \/ PollFails \/ Compare \/ Publish

\* The task runs, and not every poll fails.
WatcherFairness == WF_watcherVars(WatcherStep) /\ SF_watcherVars(PollChallenge)

-----------------------------------------------------------------------------
Feed == INSTANCE StateFeed
          WITH States <- WorkState, version <- token, announced <- last,
               due <- (wpc = "publish"), shown <- published

\* Polls that fail, tear or repeat themselves, receivers that come and go: every change
\* of state has its own token, which moves before the state is offered, and is shown
\* or, without a receiver, missed before the next poll.
ImplementsFeed == Feed!Spec

\* Between two polls, what current() returns is what the newest token was bumped for.
CurrentIsNewest == Started /\ wpc = "state" => published = last

\* The same of a coordinator's channel.
MirrorSourceIsNewest == mode = "coordinator" /\ wpc # "publish" => published = last

\* Why CurrentIsNewest does not hold: what standalone_mine waited for is what its
\* devices read for ever, while the token goes on moving.
FrozenOnceStarted == [][Started => Started' /\ published' = published]_watcherVars

\* What Coordinator.tla takes for granted of the channel, whichever blocks and
\* endpoints the calls of a poll were answered from: nothing from the future, no
\* challenge older than its epoch and no way back, save for what an endpoint may lag.
PublishedInOrder ==
  [][published' # published =>
       /\ published'.epoch <= head /\ published'.challenge <= head
       /\ published'.epoch <= published'.challenge + Lag
       /\ published # None =>
             /\ published.epoch <= published'.epoch + Lag
             /\ published.challenge <= published'.challenge + Lag]_watcherVars

\* Strengthening for ImplementsFeed: what was compared is published before the next
\* poll, and a lasting receiver leaves nothing behind.
WatcherInv ==
  /\ wpc # "state" => polled # None
  /\ wpc = "publish" => polled = last
  /\ mode = "coordinator" => listening
  /\ MirrorSourceIsNewest

\* ... and for PublishedInOrder: what was read was the contract's, and what is being
\* read is not older than what was published before.
OrderInv ==
  /\ \A s \in {published, polled} : s # None => s.epoch <= head /\ s.challenge <= head
  /\ polled # None => polled.epoch <= polled.challenge + Lag
  /\ polled # None /\ published # None =>
        /\ published.epoch <= polled.epoch + Lag
        /\ published.challenge <= polled.challenge + Lag
=============================================================================
