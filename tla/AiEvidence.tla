----------------------------- MODULE AiEvidence -----------------------------
(***************************************************************************)
(* What an AI opinion is made of and what is made of it: headlines from    *)
(* Alpaca and from a scrape of Investopedia, each behind caches, the       *)
(* evidence packet with its caps, the prompt cut to a budget, the parsed   *)
(* reply and its blend into the quantitative probability                   *)
(* (backend/ai/{evidence,schemas,blend}.py, backend/api/{ai,news}.py,      *)
(* providers/investopedia.py).  The router between prompt and reply is     *)
(* AIRouter's: here a model says anything its schema allows, or fails.     *)
(*                                                                         *)
(* A headline is what the model can tell apart: what it is about, its      *)
(* tone, where it is from and when it was fetched.  Probabilities are in   *)
(* tenths, blended ones in hundredths; labels are 1 low, 2 moderate and    *)
(* 3 high.                                                                 *)
(***************************************************************************)
EXTENDS Naturals, FiniteSets, FiniteSetsExt

CONSTANTS
  NewsTtl,        \* _CACHE_TTL_S of both sources
  ArticleCap,     \* articles a profile keeps
  BulletCap,      \* bullish items, and risks, of a packet
  PromptItems,    \* items the budget of the prompt has room for
  Probabilities,  \* tenths: what the model and the forecast may say
  HeadlineMaxTime \* bound of the clock

ASSUME EvidenceAssumption ==
  /\ {NewsTtl, ArticleCap, BulletCap, PromptItems, HeadlineMaxTime} \subseteq Nat
  /\ Probabilities \subseteq 0 .. 10

VARIABLES
  abroad,      \* the symbol has a venue's suffix (.PA, .SS ...)
  hasKeys,     \* Alpaca's keys are set
  newsEntry,   \* cache of Alpaca's articles: [articles, expires]
  sceneEntry,  \* cache of the scraped front page
  symbolEntry, \* cache of its headlines about the symbol
  inquiry,     \* the request under way: its step and what it has gathered
  given,       \* the last answer, until the next request begins
  tick         \* the clock

evidenceVars ==
  <<abroad, hasKeys, newsEntry, sceneEntry, symbolEntry, inquiry, given, tick>>

-----------------------------------------------------------------------------
Headline(from, about, tone) == [from |-> from, about |-> about, tone |-> tone, at |-> tick]

\* A source has something on the symbol, on the market, on both or on neither.
Offers(from) ==
  SUBSET {Headline(from, "symbol", "bull"), Headline(from, "market", "bear")}

NoArticles == [articles |-> {}, expires |-> 0, made |-> FALSE]

Entry(articles) == [articles |-> articles, expires |-> tick + NewsTtl, made |-> TRUE]

Live(entry) == entry.made /\ tick <= entry.expires

AtRest == [step |-> "idle", articles |-> {}, items |-> {}]

NothingGiven == [made |-> FALSE]

EvidenceInit ==
  /\ abroad \in BOOLEAN /\ hasKeys \in BOOLEAN
  /\ newsEntry = NoArticles /\ sceneEntry = NoArticles /\ symbolEntry = NoArticles
  /\ inquiry = AtRest /\ given = NothingGiven /\ tick = 0

Gathered(step, articles) ==
  inquiry' = [inquiry EXCEPT !.step = step, !.articles = @ \cup articles]

-----------------------------------------------------------------------------
\* A quote first: without one there is no evidence, and the answer is a 502.
QuoteFound ==
  /\ inquiry.step = "idle"
  /\ inquiry' = [AtRest EXCEPT !.step = "alpaca"] /\ given' = NothingGiven
  /\ UNCHANGED <<abroad, hasKeys, newsEntry, sceneEntry, symbolEntry, tick>>

\* No keys, or no symbol Alpaca knows, is no reason to fail: the leg is skipped.
NewsRefused ==
  /\ inquiry.step = "alpaca" /\ ~hasKeys
  /\ Gathered("scrape", {})
  /\ UNCHANGED <<abroad, hasKeys, newsEntry, sceneEntry, symbolEntry, given, tick>>

NewsCached ==
  /\ inquiry.step = "alpaca" /\ hasKeys /\ Live(newsEntry)
  /\ Gathered("scrape", newsEntry.articles)
  /\ UNCHANGED <<abroad, hasKeys, newsEntry, sceneEntry, symbolEntry, given, tick>>

\* A suffixed symbol is dropped from the query, and a query without symbols is
\* for the news of the whole market.
NewsQuery(offered) ==
  IF abroad THEN {a \in offered : a.about = "market"} ELSE {a \in offered : a.about = "symbol"}

NewsFetched ==
  /\ inquiry.step = "alpaca" /\ hasKeys /\ ~Live(newsEntry)
  /\ \E offered \in Offers("alpaca") :
       /\ Gathered("scrape", NewsQuery(offered))
       /\ newsEntry' = Entry(NewsQuery(offered))
  /\ UNCHANGED <<abroad, hasKeys, sceneEntry, symbolEntry, given, tick>>

NewsMissed ==
  /\ inquiry.step = "alpaca" /\ hasKeys /\ ~Live(newsEntry)
  /\ Gathered("scrape", {})
  /\ UNCHANGED <<abroad, hasKeys, newsEntry, sceneEntry, symbolEntry, given, tick>>

\* Bug: a hit keeps the entry alive.
ScrapeCachedRenewed ==
  /\ inquiry.step = "scrape" /\ Live(symbolEntry)
  /\ Gathered("packet", symbolEntry.articles)
  /\ symbolEntry' = Entry(symbolEntry.articles)
  /\ UNCHANGED <<abroad, hasKeys, newsEntry, sceneEntry, given, tick>>

\* The scraped headlines about the symbol have a cache of their own ...
ScrapeCached ==
  /\ inquiry.step = "scrape" /\ Live(symbolEntry)
  /\ Gathered("packet", symbolEntry.articles)
  /\ UNCHANGED <<abroad, hasKeys, newsEntry, sceneEntry, symbolEntry, given, tick>>

\* ... and are picked from a front page that has another.
SceneCached ==
  /\ inquiry.step = "scrape" /\ ~Live(symbolEntry) /\ Live(sceneEntry)
  /\ Gathered("filter", {})
  /\ UNCHANGED <<abroad, hasKeys, newsEntry, sceneEntry, symbolEntry, given, tick>>

\* A page that gives no headline is not kept.
SceneFetched ==
  /\ inquiry.step = "scrape" /\ ~Live(symbolEntry) /\ ~Live(sceneEntry)
  /\ \E page \in Offers("investopedia") \ {{}} : sceneEntry' = Entry(page)
  /\ Gathered("filter", {})
  /\ UNCHANGED <<abroad, hasKeys, newsEntry, symbolEntry, given, tick>>

\* The flag is off, or neither front page answers.
SceneMissed ==
  /\ inquiry.step = "scrape" /\ ~Live(symbolEntry) /\ ~Live(sceneEntry)
  /\ Gathered("packet", {})
  /\ UNCHANGED <<abroad, hasKeys, newsEntry, sceneEntry, symbolEntry, given, tick>>

\* What does not mention the symbol is left out; nothing left is not kept.
FilterScene ==
  /\ inquiry.step = "filter"
  /\ LET picked == {a \in sceneEntry.articles : a.about = "symbol"}
     IN  /\ Gathered("packet", picked)
         /\ symbolEntry' = IF picked = {} THEN symbolEntry ELSE Entry(picked)
  /\ UNCHANGED <<abroad, hasKeys, newsEntry, sceneEntry, given, tick>>

-----------------------------------------------------------------------------
(* The packet.  Alpaca's articles are listed before the scraped ones.      *)

\* At most n members of a set, those of the first source first.
FirstOf(n, articles) ==
  {kept \in SUBSET articles :
     /\ Cardinality(kept) = Min({n, Cardinality(articles)})
     /\ \A a \in articles \ kept, b \in kept : a.from = "alpaca" => b.from = "alpaca"}

Item(kind, article) == [kind |-> kind, article |-> article]

NoArticle == [from |-> "quote", about |-> "symbol", tone |-> "neutral", at |-> 0]

\* The articles of a tone that its list takes after the quote's own momentum.
Listed(kept, tone, momentum) ==
  FirstOf(BulletCap - (IF momentum = tone THEN 1 ELSE 0), {a \in kept : a.tone = tone})

\* The quote's event, and its momentum; a tone whose list is full spills into
\* the events.
PacketItems(kept, placed, momentum) ==
  {Item("event", NoArticle)}
    \cup (IF momentum = "flat" THEN {} ELSE {Item(momentum, NoArticle)})
    \cup {Item(a.tone, a) : a \in placed}
    \cup {Item("event", a) : a \in kept \ placed}

BuildPacket ==
  /\ inquiry.step = "packet"
  /\ \E kept \in FirstOf(ArticleCap, inquiry.articles), momentum \in {"bull", "bear", "flat"} :
     \E bulls \in Listed(kept, "bull", momentum), bears \in Listed(kept, "bear", momentum) :
       inquiry' = [inquiry EXCEPT !.step = "prompt",
                                  !.items = PacketItems(kept, bulls \cup bears, momentum)]
  /\ UNCHANGED <<abroad, hasKeys, newsEntry, sceneEntry, symbolEntry, given, tick>>

\* The prompt holds the packet up to its budget: bullish items, then risks,
\* then events, and the limitations last.
Rank(item) == CASE item.kind = "bull" -> 1 [] item.kind = "bear" -> 2 [] OTHER -> 3

Prompted(items) ==
  {some \in SUBSET items :
     /\ Cardinality(some) = Min({PromptItems, Cardinality(items)})
     /\ \A i \in items \ some, j \in some : Rank(j) <= Rank(i)}

RenderPrompt ==
  /\ inquiry.step = "prompt"
  /\ \E some \in Prompted(inquiry.items) :
       inquiry' = [inquiry EXCEPT !.step = "reply", !.items = some]
  /\ UNCHANGED <<abroad, hasKeys, newsEntry, sceneEntry, symbolEntry, given, tick>>

-----------------------------------------------------------------------------
(* The reply and the blend.                                                *)

Presets == {0, 1, 2}
Requestable == {0, 1, 4}
MaxWeight == 2

\* A requested weight snaps down to a preset.
ResolveWeight(wanted) == Max({p \in Presets : p <= Min({wanted, MaxWeight})})

Gap(a, b) == IF a > b THEN a - b ELSE b - a

\* More than a tenth apart, and the label goes down a notch.
Clashes(quant, prob) == Gap(quant, prob) > 1

Lowered(label, quant, prob) ==
  IF Clashes(quant, prob) /\ label > 1 THEN label - 1 ELSE label

Blended(quant, prob, weight) == (10 - weight) * quant + weight * prob

Opinion(quant, blend, label, was, prob) ==
  [made |-> TRUE, quant |-> quant, blend |-> blend, label |-> label, was |-> was,
   prob |-> prob, articles |-> {i.article : i \in inquiry.items} \ {NoArticle}]

\* What a model may say: a probability, perhaps no probability at all, and the
\* number of ids it cites.
Replies == [prob : Probabilities \cup {11}, cites : {0, 1}]

\* Neither the ids nor the horizon are held against the packet or the request.
Parses(reply) == reply.prob <= 10 /\ reply.cites > 0

Blend ==
  /\ inquiry.step = "reply"
  /\ \E quant \in Probabilities, reply \in {r \in Replies : Parses(r)}, wanted \in Requestable, label \in 1 .. 3 :
       LET prob == reply.prob
           weight == ResolveWeight(wanted)
           applied == weight > 0
       IN  given' = Opinion(quant, IF applied THEN Blended(quant, prob, weight) ELSE 10 * quant,
                           IF applied THEN Lowered(label, quant, prob) ELSE label, label, prob)
  /\ inquiry' = AtRest
  /\ UNCHANGED <<abroad, hasKeys, newsEntry, sceneEntry, symbolEntry, tick>>

\* AI switched off by the request: the packet is built and no model is asked.
PassThrough ==
  /\ inquiry.step = "prompt"
  /\ \E quant \in Probabilities, label \in 1 .. 3 :
       given' = Opinion(quant, 10 * quant, label, label, quant)
  /\ inquiry' = AtRest
  /\ UNCHANGED <<abroad, hasKeys, newsEntry, sceneEntry, symbolEntry, tick>>

\* A malformed reply is never mended: a marked stub, and then a 502.
ReplyRejected ==
  /\ inquiry.step = "reply" /\ \E reply \in Replies : ~Parses(reply)
  /\ inquiry' = AtRest
  /\ UNCHANGED <<abroad, hasKeys, newsEntry, sceneEntry, symbolEntry, given, tick>>

\* A tick is longer than a request takes to gather its evidence.
EvidenceTick ==
  /\ tick < HeadlineMaxTime /\ inquiry.step = "idle"
  /\ tick' = tick + 1 /\ given' = NothingGiven
  /\ UNCHANGED <<abroad, hasKeys, newsEntry, sceneEntry, symbolEntry, inquiry>>

EvidenceNext ==
  \/ QuoteFound \/ NewsRefused \/ NewsCached \/ NewsFetched \/ NewsMissed
  \/ ScrapeCached \/ SceneCached \/ SceneFetched \/ SceneMissed \/ FilterScene
  \/ BuildPacket \/ RenderPrompt \/ Blend \/ PassThrough \/ ReplyRejected
  \/ EvidenceTick

EvidenceSpec == EvidenceInit /\ [][EvidenceNext]_evidenceVars

-----------------------------------------------------------------------------
(***************************************************************************)
(* The AI never overrides the quantitative core: whatever weight is asked  *)
(* and whatever the model says, the blend stays within a fifth of the way  *)
(* to the model's probability, and a disagreement of more than a tenth     *)
(* that moved the blend has lowered the label, never raised it (blend.py). *)
(***************************************************************************)
BlendIsBounded ==
  given.made =>
    /\ Gap(given.blend, 10 * given.quant) <= MaxWeight * Gap(given.prob, given.quant)
    /\ given.label <= given.was
    /\ given.blend # 10 * given.quant /\ Clashes(given.quant, given.prob) =>
         given.label < given.was \/ given.label = 1

(***************************************************************************)
(* Two caches in a row keep a scraped headline for twice their time, and   *)
(* no longer: no headline in the evidence is older                         *)
(* (investopedia.py:207-330), and one of Alpaca's is kept once.            *)
(***************************************************************************)
HeadlinesAreRecent ==
  given.made =>
    \A a \in given.articles :
      tick - a.at <= IF a.from = "alpaca" THEN NewsTtl ELSE 2 * NewsTtl

\* The AI moves a forecast a little, and by what is recent.
OpinionIsGrounded == BlendIsBounded /\ HeadlinesAreRecent
=============================================================================
