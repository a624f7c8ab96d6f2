----------------------------- MODULE AnnictSync -----------------------------
(***************************************************************************)
(* Reservations of the anime that no subscribed service streams            *)
(* (docker/annict-rec-sync/sync.py): a daily job compares the broadcasts   *)
(* that Annict lists with the programme guide of EPGStation and reserves   *)
(* those of one channel per work.  A run ends at its first failed request, *)
(* and the answer to a reservation may be lost; the next day's run starts  *)
(* from what EPGStation has reserved by then.                              *)
(*                                                                         *)
(* A channel is its rank in (channel_priority, id).  Of the titles only    *)
(* the lengths count that title_matches compares.                          *)
(***************************************************************************)
EXTENDS Naturals, FiniteSets, FiniteSetsExt

CONSTANTS
  Works,
  TitleLength,  \* TitleLength[w]: of the title of a work, normalized
  MinChars,     \* TITLE_MATCH_MIN_CHARS
  Broadcasts,   \* Annict: [work, channel, start, rebroadcast]; unmapped channels left out
  Guide,        \* EPGStation: [id, channel, start, common]; common[w] is the
                \* length of the longest substring that name and title share
  Tolerance,    \* how far the two starts may differ
  Lookahead,    \* how far ahead the guide reaches
  MaxDay        \* bound for TLC

VARIABLES
  today,
  streamed,     \* the works that a subscribed service streams
  reserves,     \* the programmes reserved in EPGStation
  withdrawn,    \* programmes whose reservation the operator has deleted
  syncAt,       \* where the job is, "idle" when it does not run
  todo,         \* works that the run has fetched and not looked at
  existing,     \* the reservations that it knows of
  matched,      \* programmes of the work at hand
  wanted        \* history: the programmes this run has chosen

syncVars == <<syncAt, todo, existing, matched, wanted>>
annictVars == <<today, streamed, reserves, withdrawn, syncVars>>

Ids == {p.id : p \in Guide}

-----------------------------------------------------------------------------
(* What to reserve *)

\* Broadcasts of a work in the window, repeats left out.
Upcoming(w) ==
  {b \in Broadcasts : /\ b.work = w /\ ~b.rebroadcast
                      /\ today <= b.start /\ b.start - today < Lookahead}

\* get_schedule: what the guide holds of a channel.
Schedule(channel) ==
  {p \in Guide : p.channel = channel /\ today <= p.start /\ p.start - today <= Lookahead}

Distance(a, b) == IF a < b THEN b - a ELSE a - b

\* match_program: the nearest programme within the tolerance, the first of two.
Match(b) ==
  LET near == {p \in Schedule(b.channel) : Distance(p.start, b.start) <= Tolerance}
      best == {p \in near : \A q \in near : Distance(p.start, b.start) <= Distance(q.start, b.start)}
  IN  {p \in best : \A q \in best : p.start <= q.start}

\* title_matches: a short title occurs in the name as a whole, and of a longer
\* one a part that is long enough.
SameWork(p, w) ==
  IF TitleLength[w] <= MinChars THEN p.common[w] = TitleLength[w] ELSE p.common[w] >= MinChars

\* The programmes of a work on a channel, after title_matches.
Confirmed(w, channel) ==
  {p \in UNION {Match(b) : b \in {u \in Upcoming(w) : u.channel = channel}} : SameWork(p, w)}

\* The preferred channel with a confirmed programme; one channel per work.
Chosen(w) ==
  LET channels == {c \in {b.channel : b \in Upcoming(w)} : Confirmed(w, c) # {}}
  IN  IF channels = {} THEN {} ELSE {p.id : p \in Confirmed(w, Min(channels))}

-----------------------------------------------------------------------------
(* main *)

StartRun ==
  /\ syncAt = "idle"
  /\ syncAt' = "season" /\ todo' = {}
  /\ matched' = {} /\ wanted' = {}
  /\ UNCHANGED <<today, streamed, reserves, withdrawn, existing>>

\* fetch_season_works: one page after the other, to the last one.
FetchPage(page) ==
  /\ syncAt = "season" /\ page # {}
  /\ todo' = todo \cup page
  /\ syncAt' = IF todo' = Works THEN "known" ELSE "season"
  /\ UNCHANGED <<today, streamed, reserves, withdrawn, existing, matched, wanted>>

\* fetch_existing_reserve_program_ids.
FetchReserves ==
  /\ syncAt = "known"
  /\ syncAt' = "works" /\ existing' = reserves
  /\ UNCHANGED <<today, streamed, reserves, withdrawn, todo, matched, wanted>>

\* A work without a broadcast in the window.
NothingUpcoming(w) ==
  /\ syncAt = "works" /\ w \in todo /\ Upcoming(w) = {}
  /\ todo' = todo \ {w}
  /\ UNCHANGED <<today, streamed, reserves, withdrawn, syncAt, existing, matched, wanted>>

\* is_streamable_on_subscription: streamed, or unknown after the retries.
Skip(w, unknown) ==
  /\ syncAt = "works" /\ w \in todo /\ Upcoming(w) # {}
  /\ unknown \/ w \in streamed
  /\ todo' = todo \ {w}
  /\ UNCHANGED <<today, streamed, reserves, withdrawn, syncAt, existing, matched, wanted>>

Choose(w) ==
  /\ syncAt = "works" /\ w \in todo /\ Upcoming(w) # {} /\ w \notin streamed
  /\ todo' = todo \ {w}
  /\ matched' = Chosen(w) /\ wanted' = wanted \cup Chosen(w)
  /\ syncAt' = "reserve"
  /\ UNCHANGED <<today, streamed, reserves, withdrawn, existing>>

\* A mutant: a work of which something is reserved counts as done.
WorkAlreadyKnown == IF matched \cap existing = {} THEN matched ELSE {}

ToReserve == matched \ existing

\* add_reserve: made and answered; made with the answer lost, which ends the
\* run; or refused, because somebody else has reserved it or for any error.
Reserve(p, made, answered) ==
  /\ syncAt = "reserve" /\ p \in ToReserve
  /\ made => p \notin reserves
  /\ answered => made
  /\ reserves' = IF made THEN reserves \cup {p} ELSE reserves
  /\ existing' = IF answered THEN existing \cup {p} ELSE existing
  /\ IF answered THEN syncAt' = syncAt /\ UNCHANGED <<todo, matched>>
     ELSE syncAt' = "idle" /\ todo' = {} /\ matched' = {}
  /\ UNCHANGED <<today, streamed, withdrawn, wanted>>

WorkDone ==
  /\ syncAt = "reserve" /\ ToReserve = {}
  /\ syncAt' = "works" /\ matched' = {}
  /\ UNCHANGED <<today, streamed, reserves, withdrawn, todo, existing, wanted>>

\* The run has come to its end ...
SyncComplete == syncAt = "works" /\ todo = {}

\* ... or it ends by the failure of a request, or is killed.
SyncEnds ==
  /\ syncAt # "idle"
  /\ syncAt' = "idle" /\ todo' = {} /\ matched' = {}
  /\ UNCHANGED <<today, streamed, reserves, withdrawn, existing, wanted>>

-----------------------------------------------------------------------------
(* EPGStation, the services and the days *)

\* Rules and the operator reserve programmes, and the operator deletes some.
ReservedByOthers(p) ==
  /\ p \notin reserves
  /\ reserves' = reserves \cup {p} /\ withdrawn' = withdrawn \ {p}
  /\ UNCHANGED <<today, streamed, syncVars>>

Withdrawn(p) ==
  /\ p \in reserves
  /\ reserves' = reserves \ {p} /\ withdrawn' = withdrawn \cup {p}
  /\ UNCHANGED <<today, streamed, syncVars>>

Streams(w) ==
  /\ w \notin streamed /\ streamed' = streamed \cup {w}
  /\ UNCHANGED <<today, reserves, withdrawn, syncVars>>

NextDay ==
  /\ syncAt = "idle" /\ today < MaxDay
  /\ today' = today + 1
  /\ UNCHANGED <<streamed, reserves, withdrawn, syncVars>>

AnnictInit ==
  /\ today = 0 /\ streamed = {} /\ reserves = {} /\ withdrawn = {}
  /\ syncAt = "idle" /\ todo = {} /\ existing = {} /\ matched = {} /\ wanted = {}

AnnictNext ==
  \/ \E page \in SUBSET (Works \ todo) : FetchPage(page)
  \/ StartRun \/ FetchReserves \/ WorkDone \/ SyncEnds \/ NextDay
  \/ \E w \in Works :
       \/ NothingUpcoming(w) \/ Choose(w) \/ Streams(w)
       \/ \E unknown \in BOOLEAN : Skip(w, unknown)
  \/ \E p \in Ids :
       \/ ReservedByOthers(p) \/ Withdrawn(p)
       \/ \E made, answered \in BOOLEAN : Reserve(p, made, answered)

AnnictSpec == AnnictInit /\ [][AnnictNext]_annictVars

-----------------------------------------------------------------------------
(* Properties *)

\* A run that comes to its end leaves every programme it has chosen reserved,
\* whatever earlier runs left half done, unless the operator has deleted the
\* reservation.
NothingMissed == SyncComplete => wanted \subseteq reserves \cup withdrawn
=============================================================================
