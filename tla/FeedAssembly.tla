---------------------------- MODULE FeedAssembly ----------------------------
(***************************************************************************)
(* The items of an answer of the feed, made from a page that any source or *)
(* cache has given: the page is filtered by what MySQL says is visible and *)
(* filled with cards, which are cached in the process and in Redis, absent *)
(* cards included.                                                         *)
(***************************************************************************)
EXTENDS FeedVideos

VARIABLES
  cardL2,    \* video:card in Redis, by video
  cardL1,    \* video:card in localCache, by process and video
  loads,     \* singleflight.Group: the loads of cards under way
  preheat,   \* videos whose card the fanout worker has still to preheat
  answer     \* the requests that are being assembled

cardVars == <<videoVars, cardL2, cardL1, loads, preheat, answer>>

NoCards == [v \in Videos |-> Nothing]
NoAnswer == [step |-> "idle", page |-> {}, cards |-> NoCards, fetched |-> {}, was |-> {}]

AssemblyInit ==
  /\ VideosInit
  /\ cardL2 = NoCards
  /\ cardL1 = [a \in Apis |-> NoCards]
  /\ preheat = {} /\ loads = {}
  /\ answer = [r \in Requests |-> NoAnswer]
----------------------------------------------------------------------------
AnswerAt(r, step) == answer[r].step = step
AnswerGoto(r, next) == answer' = [answer EXCEPT ![r] = next]
Fails(r) == AnswerGoto(r, NoAnswer)

\* A request whose page, old or new, is assembled.
Assemble(r, page) ==
  /\ AnswerAt(r, "idle")
  /\ AnswerGoto(r, [NoAnswer EXCEPT !.step = "filter", !.page = page, !.was = published])
  /\ UNCHANGED <<videoVars, cardL2, cardL1, loads, preheat>>

\* Mutant: a page is taken to hold only what is visible.
TrustPage(r) ==
  /\ AnswerAt(r, "filter")
  /\ AnswerGoto(r, [answer[r] EXCEPT !.step = "cards"])
  /\ UNCHANGED <<videoVars, cardL2, cardL1, loads, preheat>>

FilterVisible(r) ==
  /\ AnswerAt(r, "filter")
  /\ \/ AnswerGoto(r, [answer[r] EXCEPT !.step = "cards", !.page = @ \cap published])
     \/ Fails(r)
  /\ UNCHANGED <<videoVars, cardL2, cardL1, loads, preheat>>

\* The cards of the process, and of Redis unless it fails; the latter are kept.
GetCards(r) ==
  LET a == apiOf[r]
      page == answer[r].page
  IN  /\ AnswerAt(r, "cards")
      /\ \E redis \in BOOLEAN :
           LET kept  == [v \in Videos |-> IF v \in page /\ redis /\ cardL1[a][v] = Nothing
                                          THEN cardL2[v] ELSE cardL1[a][v]]
               cards == [v \in Videos |-> IF v \in page THEN kept[v] ELSE Nothing]
               step  == IF \E v \in page : cards[v] = Nothing THEN "load" ELSE "answer"
           IN  /\ AnswerGoto(r, [answer[r] EXCEPT !.step = step, !.cards = cards])
               /\ cardL1' = [cardL1 EXCEPT ![a] = kept]
      /\ UNCHANGED <<videoVars, cardL2, loads, preheat>>

Lacking(r) == {v \in answer[r].page : answer[r].cards[v] = Nothing}
LoadOf(r, load) == load.api = apiOf[r] /\ load.ids = Lacking(r)

\* cardGroup.Do: the first request reads the cards from MySQL, and others of the
\* process that lack the same cards wait for what it has read.
JoinLoad(r) ==
  /\ AnswerAt(r, "load")
  /\ AnswerGoto(r, [answer[r] EXCEPT !.step = "wait"])
  /\ loads' = IF \E load \in loads : LoadOf(r, load) THEN loads
              ELSE loads \cup {[api |-> apiOf[r], ids |-> Lacking(r), found |-> Lacking(r) \cap published]}
  /\ UNCHANGED <<videoVars, cardL2, cardL1, preheat>>

\* The load ends for all that wait for it.  A video without a card is remembered
\* as missing.
LoadCards(load) ==
  LET Got(r) == [answer[r] EXCEPT !.step = "set", !.fetched = load.ids,
                   !.cards = [v \in Videos |-> IF v \notin load.ids THEN @[v]
                                               ELSE IF v \in load.found THEN "card" ELSE "missing"]]
  IN  /\ loads' = loads \ {load}
      /\ \E ok \in BOOLEAN :
           answer' = [r \in Requests |->
                       IF ~AnswerAt(r, "wait") \/ ~LoadOf(r, load) THEN answer[r]
                       ELSE IF ok THEN Got(r) ELSE NoAnswer]
      /\ UNCHANGED <<videoVars, cardL2, cardL1, preheat>>

\* SetCards: the process keeps the cards, Redis may fail.
SetCards(r) ==
  LET Put(cards) == [v \in Videos |-> IF v \in answer[r].fetched THEN answer[r].cards[v] ELSE cards[v]]
  IN  /\ AnswerAt(r, "set")
      /\ cardL1' = [cardL1 EXCEPT ![apiOf[r]] = Put(@)]
      /\ cardL2' \in {cardL2, Put(cardL2)}
      /\ AnswerGoto(r, [answer[r] EXCEPT !.step = "answer", !.fetched = {}])
      /\ UNCHANGED <<videoVars, loads, preheat>>

Items(r) == {v \in answer[r].page : answer[r].cards[v] = "card"}

ReplyItems(r) ==
  /\ AnswerAt(r, "answer")
  /\ Fails(r)
  /\ UNCHANGED <<videoVars, cardL2, cardL1, loads, preheat>>
----------------------------------------------------------------------------
\* Mutant: an absent card has no time to live.
ExpirePresentCard(v) ==
  /\ cardL2[v] = "card"
  /\ cardL2' = [cardL2 EXCEPT ![v] = Nothing]
  /\ UNCHANGED <<videoVars, cardL1, loads, preheat, answer>>

ExpireCard(v) ==
  /\ cardL2[v] # Nothing
  /\ cardL2' = [cardL2 EXCEPT ![v] = Nothing]
  /\ UNCHANGED <<videoVars, cardL1, loads, preheat, answer>>

ExpireLocalCard(a, v) ==
  /\ cardL1[a][v] # Nothing
  /\ cardL1' = [cardL1 EXCEPT ![a][v] = Nothing]
  /\ UNCHANGED <<videoVars, cardL2, loads, preheat, answer>>

Seen(new) ==
  answer' = [r \in Requests |-> IF AnswerAt(r, "idle") THEN answer[r]
                                ELSE [answer[r] EXCEPT !.was = @ \cup new]]

HideAnswered(v) == Hide(v) /\ UNCHANGED <<cardL2, cardL1, loads, preheat, answer>>

\* A restore also announces the video.
RestoreAnswered(v) ==
  /\ Restore(v)
  /\ preheat' = preheat \cup {v}
  /\ Seen({v})
  /\ UNCHANGED <<cardL2, cardL1, loads>>

\* InvalidateVideo deletes the card in Redis.
InvalidateCard(v) ==
  /\ Invalidate(v)
  /\ cardL2' = [cardL2 EXCEPT ![v] = Nothing]
  /\ UNCHANGED <<cardL1, loads, preheat, answer>>

\* The fanout worker writes the card of a video that has been announced.
Preheat(v) ==
  /\ v \in preheat
  /\ preheat' = preheat \ {v}
  /\ cardL2' = IF v \in published THEN [cardL2 EXCEPT ![v] = "card"] ELSE cardL2
  /\ UNCHANGED <<videoVars, cardL1, loads, answer>>
----------------------------------------------------------------------------
AssemblyStep(r) ==
  FilterVisible(r) \/ GetCards(r) \/ JoinLoad(r) \/ SetCards(r) \/ ReplyItems(r)

AssemblyNext ==
  \/ \E r \in Requests : AssemblyStep(r) \/ \E page \in SUBSET Videos : Assemble(r, page)
  \/ \E v \in Videos :
       \/ HideAnswered(v) \/ RestoreAnswered(v) \/ InvalidateCard(v) \/ Preheat(v) \/ ExpireCard(v)
       \/ \E a \in Apis : ExpireLocalCard(a, v)
  \/ \E load \in loads : LoadCards(load)

AssemblySpec == AssemblyInit /\ [][AssemblyNext]_cardVars

\* A request that is being assembled ends, and every entry of a cache expires.
AssemblyFairness ==
  /\ \A r \in Requests : WF_cardVars(AssemblyStep(r))
  /\ WF_cardVars(\E load \in loads : LoadCards(load))
  /\ \A v \in Videos : /\ WF_cardVars(ExpireCard(v))
                       /\ \A a \in Apis : WF_cardVars(ExpireLocalCard(a, v))
----------------------------------------------------------------------------
(* Properties.                                                             *)

\* An answer shows only videos that have been published at some moment since
\* the request came, however old the page and the cards it was made from.
HiddenNotShown == \A r \in Requests : AnswerAt(r, "answer") => Items(r) \subseteq answer[r].was

Cards  == [Videos -> {Nothing, "card", "missing"}]
Answer == [step : {"idle", "filter", "cards", "load", "wait", "set", "answer"}, page : SUBSET Videos,
           cards : Cards, fetched : SUBSET Videos, was : SUBSET Videos]

AssemblyTypeOK ==
  /\ published \subseteq Videos /\ apiOf \in [Requests -> Apis]
  /\ cardL2 \in Cards /\ cardL1 \in [Apis -> Cards]
  /\ loads \subseteq [api : Apis, ids : SUBSET Videos, found : SUBSET Videos]
  /\ answer \in [Requests -> Answer]

\* What is published while a request is assembled counts as seen, and a page that has been
\* filtered has nothing else on it.
PageWasVisible(r) ==
  /\ ~AnswerAt(r, "idle") => published \subseteq answer[r].was
  /\ ~AnswerAt(r, "idle") /\ ~AnswerAt(r, "filter") => answer[r].page \subseteq answer[r].was

\* Inductive.
AssemblyInv == AssemblyTypeOK /\ \A r \in Requests : PageWasVisible(r)

\* A video that stays published is on every answer made from a page that has it,
\* from some moment on: no absent card outlives its time.
CardsComeBack ==
  \A v \in Videos :
    <>[](v \in published) =>
      <>[](\A r \in Requests : AnswerAt(r, "answer") /\ v \in answer[r].page => v \in Items(r))
============================================================================
