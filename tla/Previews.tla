------------------------------ MODULE Previews ------------------------------
(***************************************************************************)
(* The link previews of one message: the workers of the group "unfurls"    *)
(* (unfurl/consumer.rs) look at the message again for every                *)
(* message.created and message.updated, their own included, and its author *)
(* edits it, hides the previews or asks for them again (routes.rs).        *)
(*                                                                         *)
(* An entry of the stream says no more than "look at it", so entries are   *)
(* counted.  Each is handed out at least once (StreamGroup).  A text has   *)
(* one link at most: of an issue, which an app fetches for an author who   *)
(* has connected it, or of a page, which anybody can fetch.                *)
(***************************************************************************)
EXTENDS Naturals

CONSTANTS
    Fetcher,            \* worker replicas
    MaxAsked,           \* bound: the posting, edits and refreshes
    MaxFlips,           \* bound: connections and settings changed
    MaxPreviewFaults    \* bound: failed steps, crashes and reclaimed entries

ASSUME PreviewAssumption ==
    MaxAsked \in Nat /\ MaxFlips \in Nat /\ MaxPreviewFaults \in Nat

NoLink == "no link"
Text == {NoLink, "issue", "page"}

VARIABLES
    text,               \* messages.content, told by its link; none before it is posted
    metadata,           \* unfurls, app_prompts, unfurls_source and unfurls_hidden
    gone,               \* deleted_at
    previewsOn,         \* the workspace's link_previews
    linked,             \* the author has connected the app
    due,                \* entries of the stream nobody holds
    fetcher,            \* each worker: its step, and what it read
    asked,              \* history: the posting, edits and refreshes
    stores,             \* history: previews written
    reset,              \* history: the previews were asked for again
    renewed,            \* history: they were, with the app connected since
    early,              \* history: workers whose result is older than that
    overtaken,          \* history: one of those wrote after it
    skipped,            \* history: a step failed, or found previews off
    flips, previewFaults

previewVars == <<text, metadata, gone, previewsOn, linked, due, fetcher, asked, stores, reset,
                 renewed, early, overtaken, skipped, flips, previewFaults>>
previewAccounts == <<reset, renewed, early>>

AtRest == [does |-> "rest", text |-> NoLink, card |-> NoLink, prompt |-> FALSE]

PreviewInit ==
    /\ text = NoLink
    /\ metadata = [card |-> NoLink, prompt |-> FALSE, source |-> NoLink, hidden |-> FALSE]
    /\ gone = FALSE /\ previewsOn = TRUE /\ linked = FALSE
    /\ due = 0
    /\ fetcher = [w \in Fetcher |-> AtRest]
    /\ asked = 0 /\ stores = 0 /\ reset = FALSE /\ renewed = FALSE /\ early = {}
    /\ overtaken = FALSE /\ skipped = FALSE /\ flips = 0 /\ previewFaults = 0

PreviewFault == previewFaults < MaxPreviewFaults /\ previewFaults' = previewFaults + 1

-----------------------------------------------------------------------------
(* The author and the admin.  A handler that found the message before it   *)
(* was deleted writes it all the same, by id.                              *)

(* send_message and update_message *)
WriteText(t) ==
    /\ asked < MaxAsked /\ asked' = asked + 1
    /\ text' = t /\ due' = due + 1
    /\ UNCHANGED <<metadata, gone, previewsOn, linked, fetcher, stores, previewAccounts,
                   overtaken, skipped, flips, previewFaults>>

(* refresh_unfurls: what is shown stays until there is something new *)
RefreshPreviews ==
    /\ asked > 0 /\ asked < MaxAsked /\ asked' = asked + 1
    /\ metadata' = [metadata EXCEPT !.source = NoLink] /\ due' = due + 1
    /\ reset' = TRUE /\ renewed' = linked
    /\ early' = {w \in Fetcher : fetcher[w].does = "store"}
    /\ UNCHANGED <<text, gone, previewsOn, linked, fetcher, stores, overtaken, skipped, flips,
                   previewFaults>>

(* hide_unfurls: the cards go, a prompt to connect stays *)
HidePreviews ==
    /\ asked > 0 /\ ~metadata.hidden
    /\ metadata' = [metadata EXCEPT !.card = NoLink, !.hidden = TRUE] /\ due' = due + 1
    /\ UNCHANGED <<text, gone, previewsOn, linked, fetcher, asked, stores, previewAccounts,
                   overtaken, skipped, flips, previewFaults>>

RemoveMessage ==
    /\ asked > 0 /\ ~gone /\ gone' = TRUE
    /\ UNCHANGED <<text, metadata, previewsOn, linked, due, fetcher, asked, stores,
                   previewAccounts, overtaken, skipped, flips, previewFaults>>

(* The workspace's setting, or the author's connection, changes. *)
FlipSetting ==
    /\ flips < MaxFlips /\ flips' = flips + 1
    /\ \/ previewsOn' = ~previewsOn /\ UNCHANGED <<linked, renewed>>
       \/ linked' = ~linked /\ renewed' = FALSE /\ UNCHANGED previewsOn
    /\ UNCHANGED <<text, metadata, gone, due, fetcher, asked, stores, reset, early, overtaken,
                   skipped, previewFaults>>

-----------------------------------------------------------------------------
(* unfurl_delivery: whether there is anything to fetch *)
Wanted == ~gone /\ previewsOn /\ ~metadata.hidden /\ metadata.source # text

(* next_batch and find_unfurl_target: the message as it is now.  An entry  *)
(* that asks for nothing is acknowledged at once.                          *)
LoadTarget(w) ==
    /\ fetcher[w] = AtRest /\ due > 0 /\ due' = due - 1
    /\ \/ /\ fetcher' = IF Wanted THEN [fetcher EXCEPT ![w].does = "fetch", ![w].text = text]
                       ELSE fetcher
          /\ skipped' = (skipped \/ ~previewsOn) /\ UNCHANGED previewFaults
       \/ PreviewFault /\ skipped' = TRUE /\ UNCHANGED fetcher
    /\ UNCHANGED <<text, metadata, gone, previewsOn, linked, asked, stores,
                   previewAccounts, overtaken, flips>>

(* apps::unfurl and cached_or_fetched: a card; for an issue without a      *)
(* connection a prompt, or, where the author wants none, what anybody can  *)
(* see; or nothing.                                                        *)
FetchLinks(w) ==
    LET link == fetcher[w].text
        Fetched(card, prompt) == fetcher' = [fetcher EXCEPT ![w].does = "store", ![w].card = card,
                                                            ![w].prompt = prompt] IN
    /\ fetcher[w].does = "fetch"
    /\ \/ Fetched(link, FALSE) /\ UNCHANGED <<skipped, previewFaults>>
       \/ link = "issue" /\ ~linked /\ Fetched(NoLink, TRUE) /\ UNCHANGED <<skipped, previewFaults>>
       \/ link # NoLink /\ Fetched(NoLink, FALSE) /\ PreviewFault /\ skipped' = TRUE
    /\ UNCHANGED <<text, metadata, gone, previewsOn, linked, due, asked, stores,
                   previewAccounts, overtaken, flips>>

(* Mutant: a message that was edited takes the previews of its old text. *)
MayStoreOld(w) ==
    ~gone /\ ~metadata.hidden /\ metadata.source # fetcher[w].text

(* store_unfurls_in, its WHERE *)
MayStore(w) ==
    /\ text = fetcher[w].text /\ ~gone
    /\ metadata.source # fetcher[w].text /\ ~metadata.hidden

(* store: the row and the event in one transaction; then the entry is      *)
(* acknowledged, however it went.                                          *)
StorePreviews(w) ==
    /\ fetcher[w].does = "store"
    /\ \/ /\ MayStore(w)
          /\ metadata' = [metadata EXCEPT !.card = fetcher[w].card, !.prompt = fetcher[w].prompt,
                                          !.source = fetcher[w].text]
          /\ stores' = stores + 1 /\ due' = due + 1
          /\ overtaken' = (overtaken \/ (renewed /\ w \in early))
          /\ UNCHANGED <<skipped, previewFaults>>
       \/ /\ ~MayStore(w)
          /\ UNCHANGED <<metadata, stores, due, overtaken, skipped, previewFaults>>
       \/ /\ PreviewFault /\ skipped' = TRUE
          /\ UNCHANGED <<metadata, stores, due, overtaken>>
    /\ early' = early \ {w}
    /\ fetcher' = [fetcher EXCEPT ![w] = AtRest]
    /\ UNCHANGED <<text, gone, previewsOn, linked, asked, reset, renewed, flips>>

(* A worker dies, or is so slow that its entry is given to another. *)
FetcherLapses(w) ==
    /\ fetcher[w] # AtRest /\ PreviewFault
    /\ due' = due + 1
    /\ \/ fetcher' = [fetcher EXCEPT ![w] = AtRest] /\ early' = early \ {w}
       \/ UNCHANGED <<fetcher, early>>
    /\ UNCHANGED <<text, metadata, gone, previewsOn, linked, asked, stores, reset, renewed,
                   overtaken, skipped, flips>>

FetcherStep(w) == LoadTarget(w) \/ FetchLinks(w) \/ StorePreviews(w)

PreviewNext ==
    \/ \E t \in Text : WriteText(t)
    \/ RefreshPreviews \/ HidePreviews \/ RemoveMessage \/ FlipSetting
    \/ \E w \in Fetcher : FetcherStep(w) \/ FetcherLapses(w)

-----------------------------------------------------------------------------
(* Every variable stays in its domain. *)
PreviewTypeOK ==
    /\ text \in Text
    /\ metadata \in [card : Text, prompt : BOOLEAN, source : Text, hidden : BOOLEAN]
    /\ gone \in BOOLEAN /\ previewsOn \in BOOLEAN /\ linked \in BOOLEAN /\ due \in Nat
    /\ fetcher \in [Fetcher -> [does : {"rest", "fetch", "store"}, text : Text,
                                card : Text, prompt : BOOLEAN]]
    /\ asked \in 0..MaxAsked /\ stores \in Nat /\ reset \in BOOLEAN
    /\ renewed \in BOOLEAN /\ early \subseteq Fetcher /\ overtaken \in BOOLEAN
    /\ skipped \in BOOLEAN /\ flips \in 0..MaxFlips /\ previewFaults \in 0..MaxPreviewFaults

LookedAt == due = 0 /\ \A w \in Fetcher : fetcher[w] = AtRest

(* "Idempotent without a claims table": however often entries are handed   *)
(* out, and though every write is announced to the workers themselves,     *)
(* previews are written once for the message, each edit and each refresh.  *)
StoresBounded == stores <= asked

(* "Sticky across edits": a message whose author removed its previews      *)
(* shows none, whatever was being fetched then or is asked for later.      *)
HiddenStays == metadata.hidden => metadata.card = NoLink

(* "An edit racing a fetch loses the fetch, not the edit": with nothing    *)
(* left to look at, a message shows the preview of its own link, unless a  *)
(* step failed or found previews off, or they were asked for again and the *)
(* link taken out before the answer: then the source that is missing is    *)
(* the one a text without links has, and the old card stays.               *)
SettledFits ==
    LookedAt /\ ~gone /\ ~metadata.hidden =>
        \/ skipped \/ (reset /\ text = NoLink)
        \/ /\ metadata.card \in {text, NoLink} /\ (metadata.prompt => text = "issue")
           /\ text = "page" => metadata.card = "page"

(* "Connecting refreshes that message": once the author has connected the  *)
(* app and the previews were asked for again, an issue has its card and    *)
(* not the prompt, unless a step failed, or a worker that had fetched      *)
(* before the refresh wrote after it and left nothing to fetch.            *)
RefreshTakes ==
    LookedAt /\ ~gone /\ ~metadata.hidden /\ renewed /\ text = "issue" =>
        skipped \/ overtaken \/ (metadata.card = "issue" /\ ~metadata.prompt)

(* A message has the previews its text asks for, written no oftener than   *)
(* they were asked for, and none that its author removed.                  *)
PreviewSafety == PreviewTypeOK /\ StoresBounded /\ HiddenStays /\ SettledFits /\ RefreshTakes
=============================================================================
