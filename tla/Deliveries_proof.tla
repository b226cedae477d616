-------------------------- MODULE Deliveries_proof --------------------------
(***************************************************************************)
(* The consumers of the streams, for any number of workers, any faults and *)
(* any bounds: previews, workflow runs, the call log and the events of an  *)
(* app; and who is in a huddle, which the call log is written from.        *)
(***************************************************************************)
EXTENDS Previews, Workflows, CallLog, AppEvents, Huddle, FiniteSetTheorems,
        WellFoundedInduction, TLAPS

-----------------------------------------------------------------------------
(* Previews. *)

PreviewSpec == PreviewInit /\ [][PreviewNext]_previewVars

(* A text that has no previews yet has been asked for since they were      *)
(* written last.                                                           *)
StoresOK == stores <= asked /\ (metadata.source # text => stores < asked)

(* It will be looked at again, or is being fetched. *)
LookOK ==
    ~gone /\ ~metadata.hidden /\ ~skipped /\ metadata.source # text =>
        due > 0 \/ \E w \in Fetcher : fetcher[w].does # "rest" /\ fetcher[w].text = text

(* A card and a prompt fit a link. *)
Fits(card, prompt, link) ==
    /\ card \in {link, NoLink} /\ (prompt => link = "issue")
    /\ link = "page" => card = "page"

(* What was fetched fits the text it was fetched for, and what is shown    *)
(* fits the text it was written for.                                       *)
FitsOK ==
    ~skipped =>
        /\ \A w \in Fetcher : fetcher[w].does = "store" =>
               Fits(fetcher[w].card, fetcher[w].prompt, fetcher[w].text)
        /\ ~metadata.hidden /\ (metadata.source # NoLink \/ ~reset) =>
               Fits(metadata.card, metadata.prompt, metadata.source)

(* Since the app was connected and the previews asked for again, only the  *)
(* workers that had fetched before bring a prompt.                         *)
RenewedOK ==
    renewed /\ ~skipped =>
        /\ linked
        /\ \A w \in Fetcher : fetcher[w].does = "store" /\ fetcher[w].text = "issue" =>
               w \in early \/ (fetcher[w].card = "issue" /\ ~fetcher[w].prompt)
        /\ ~overtaken /\ ~metadata.hidden /\ metadata.source = "issue" =>
               metadata.card = "issue" /\ ~metadata.prompt

PreviewInv ==
    PreviewTypeOK /\ StoresOK /\ HiddenStays /\ LookOK /\ FitsOK /\ RenewedOK

FetcherType == [does : {"rest", "fetch", "store"}, text : Text, card : Text, prompt : BOOLEAN]
MetadataType == [card : Text, prompt : BOOLEAN, source : Text, hidden : BOOLEAN]

LEMMA DeliverPreviewInit == PreviewInit => PreviewInv
  <1> SUFFICES ASSUME PreviewInit PROVE PreviewInv
    OBVIOUS
  <1> USE PreviewAssumption DEF PreviewInit, NoLink
  <1>1. /\ gone \in BOOLEAN /\ previewsOn \in BOOLEAN /\ linked \in BOOLEAN
        /\ reset \in BOOLEAN /\ renewed \in BOOLEAN /\ overtaken \in BOOLEAN
        /\ skipped \in BOOLEAN
    BY Zenon
  <1>2. metadata \in MetadataType /\ AtRest \in FetcherType
    BY DEF MetadataType, FetcherType, AtRest, Text
  <1>6. fetcher \in [Fetcher -> FetcherType] /\ NoLink \in Text
    BY <1>2 DEF Text
  <1>3. PreviewTypeOK
    <2> HIDE DEF NoLink
    <2> QED
      BY <1>1, <1>2, <1>6 DEF PreviewTypeOK, MetadataType, FetcherType
  <1>7. metadata.source = text /\ metadata.card = NoLink /\ stores = 0 /\ asked = 0
    OBVIOUS
  <1>4. StoresOK /\ HiddenStays /\ LookOK
    <2> HIDE DEF PreviewInit
    <2>4. 0 <= 0
      OBVIOUS
    <2>1. StoresOK
      BY <1>7, <2>4, Zenon DEF StoresOK
    <2>2. HiddenStays
      BY <1>7 DEF HiddenStays
    <2>3. LookOK
      BY <1>7 DEF LookOK
    <2> QED
      BY <2>1, <2>2, <2>3
  <1>5. FitsOK /\ RenewedOK
    BY DEF FitsOK, RenewedOK, Fits, AtRest
  <1> QED
    BY <1>3, <1>4, <1>5 DEF PreviewInv

(* The author and the admin. *)
LEMMA DeliverAuthor ==
    ASSUME PreviewInv,
           \/ \E t \in Text : WriteText(t)
           \/ RefreshPreviews \/ HidePreviews \/ RemoveMessage
    PROVE  PreviewInv'
  <1> USE PreviewAssumption DEF PreviewInv
  <1>1. ASSUME NEW t \in Text, WriteText(t) PROVE PreviewInv'
    <2>1. /\ UNCHANGED <<metadata, gone, previewsOn, linked, fetcher, stores, reset, renewed>>
          /\ UNCHANGED <<early, overtaken, skipped, flips, previewFaults>>
          /\ asked < MaxAsked /\ asked' = asked + 1 /\ text' = t /\ due' = due + 1
      BY <1>1 DEF WriteText, previewAccounts
    <2>2. PreviewTypeOK'
      BY <2>1 DEF PreviewTypeOK
    <2>3. StoresOK' /\ HiddenStays'
      BY <2>1 DEF StoresOK, HiddenStays, PreviewTypeOK
    <2>4. LookOK'
      BY <2>1 DEF LookOK, PreviewTypeOK
    <2>5. FitsOK' /\ RenewedOK'
      BY <2>1 DEF FitsOK, RenewedOK, Fits
    <2> QED
      BY <2>2, <2>3, <2>4, <2>5
  <1>2. CASE RefreshPreviews
    <2>1. /\ UNCHANGED <<text, gone, previewsOn, linked, fetcher, stores, overtaken, skipped>>
          /\ UNCHANGED <<flips, previewFaults>>
          /\ asked < MaxAsked /\ asked' = asked + 1 /\ due' = due + 1
          /\ early' = {w \in Fetcher : fetcher[w].does = "store"}
          /\ metadata' = [metadata EXCEPT !.source = NoLink]
      BY <1>2 DEF RefreshPreviews
    <2>2. reset' \in BOOLEAN /\ reset' /\ renewed' \in BOOLEAN
      BY <1>2, Zenon DEF RefreshPreviews, PreviewTypeOK
    <2>3. renewed' => linked
      BY <1>2, Zenon DEF RefreshPreviews
    <2>4. /\ metadata' \in MetadataType /\ metadata'.card = metadata.card
          /\ metadata'.source = NoLink /\ (metadata'.hidden <=> metadata.hidden)
      BY <2>1 DEF PreviewTypeOK, MetadataType, Text
    <2>5. PreviewTypeOK'
      BY <2>1, <2>2, <2>4 DEF PreviewTypeOK, MetadataType
    <2>6. StoresOK' /\ HiddenStays'
      BY <2>1, <2>4 DEF StoresOK, HiddenStays, PreviewTypeOK
    <2>7. LookOK'
      BY <2>1 DEF LookOK, PreviewTypeOK
    <2>8. FitsOK'
      BY <2>1, <2>2, <2>4 DEF FitsOK, Fits
    <2>9. RenewedOK'
      BY <2>1, <2>3, <2>4 DEF RenewedOK, NoLink
    <2> QED
      BY <2>5, <2>6, <2>7, <2>8, <2>9
  <1>3. CASE HidePreviews
    <2>1. /\ UNCHANGED <<text, gone, previewsOn, linked, fetcher, asked, stores, reset, renewed>>
          /\ UNCHANGED <<early, overtaken, skipped, flips, previewFaults>>
          /\ due' = due + 1
          /\ metadata' = [metadata EXCEPT !.card = NoLink, !.hidden = TRUE]
      BY <1>3 DEF HidePreviews, previewAccounts
    <2>2. /\ metadata' \in MetadataType /\ metadata'.card = NoLink
          /\ metadata'.source = metadata.source /\ metadata'.hidden
      BY <2>1 DEF PreviewTypeOK, MetadataType, Text
    <2>3. PreviewTypeOK'
      BY <2>1, <2>2 DEF PreviewTypeOK, MetadataType
    <2>4. StoresOK' /\ HiddenStays' /\ LookOK'
      BY <2>1, <2>2 DEF StoresOK, HiddenStays, LookOK
    <2>5. FitsOK' /\ RenewedOK'
      BY <2>1, <2>2 DEF FitsOK, RenewedOK
    <2> QED
      BY <2>3, <2>4, <2>5
  <1>4. CASE RemoveMessage
    <2>1. /\ UNCHANGED <<text, metadata, previewsOn, linked, due, fetcher, asked, stores, reset>>
          /\ UNCHANGED <<renewed, early, overtaken, skipped, flips, previewFaults>>
          /\ gone'
      BY <1>4 DEF RemoveMessage, previewAccounts
    <2>2. gone' \in BOOLEAN
      BY <1>4, Zenon DEF RemoveMessage
    <2>3. PreviewTypeOK'
      BY <2>1, <2>2 DEF PreviewTypeOK
    <2>4. StoresOK' /\ HiddenStays' /\ LookOK'
      BY <2>1 DEF StoresOK, HiddenStays, LookOK
    <2>5. FitsOK' /\ RenewedOK'
      BY <2>1 DEF FitsOK, RenewedOK
    <2> QED
      BY <2>3, <2>4, <2>5
  <1> QED
    BY <1>1, <1>2, <1>3, <1>4

LEMMA DeliverFlip ==
    ASSUME PreviewInv, FlipSetting
    PROVE  PreviewInv'
  <1> USE PreviewAssumption DEF PreviewInv
  <1>1. /\ UNCHANGED <<text, metadata, gone, due, fetcher, asked, stores, reset, early>>
        /\ UNCHANGED <<overtaken, skipped, previewFaults>>
        /\ flips < MaxFlips /\ flips' = flips + 1
    BY DEF FlipSetting
  <1>2. previewsOn' \in BOOLEAN /\ linked' \in BOOLEAN /\ renewed' \in BOOLEAN
    BY Zenon DEF FlipSetting, PreviewTypeOK
  <1>3. renewed' => renewed /\ linked' = linked
    BY Zenon DEF FlipSetting
  <1>4. PreviewTypeOK'
    BY <1>1, <1>2 DEF PreviewTypeOK
  <1>5. StoresOK' /\ HiddenStays' /\ LookOK' /\ FitsOK'
    BY <1>1 DEF StoresOK, HiddenStays, LookOK, FitsOK
  <1>6. RenewedOK'
    BY <1>1, <1>3 DEF RenewedOK
  <1> QED
    BY <1>4, <1>5, <1>6

(* A worker looks at the message. *)
LEMMA DeliverLoadTarget ==
    ASSUME PreviewInv, NEW w \in Fetcher, LoadTarget(w)
    PROVE  PreviewInv'
  <1> USE PreviewAssumption DEF PreviewInv
  <1>1. /\ UNCHANGED <<text, metadata, gone, previewsOn, linked, asked, stores, reset, renewed>>
        /\ UNCHANGED <<early, overtaken, flips>>
        /\ fetcher[w] = AtRest /\ due > 0 /\ due' = due - 1
        /\ previewFaults' \in 0..MaxPreviewFaults
    BY DEF LoadTarget, PreviewFault, previewAccounts, PreviewTypeOK
  <1>2. skipped' \in BOOLEAN
    BY Zenon DEF LoadTarget, PreviewTypeOK
  <1>3. skipped => skipped'
    BY Zenon DEF LoadTarget
  <1>4. ~skipped' => previewsOn /\ fetcher' = IF Wanted
               THEN [fetcher EXCEPT ![w].does = "fetch", ![w].text = text] ELSE fetcher
    BY Zenon DEF LoadTarget
  <1>5. /\ fetcher' \in [Fetcher -> FetcherType]
        /\ \A v \in Fetcher : fetcher'[v] = fetcher[v] \/ fetcher'[v].does = "fetch"
        /\ \A v \in Fetcher : v # w => fetcher'[v] = fetcher[v]
    <2>1. [fetcher[w] EXCEPT !.does = "fetch", !.text = text] \in FetcherType
      BY DEF PreviewTypeOK, FetcherType
    <2>2. CASE fetcher' = fetcher
      BY <2>2 DEF PreviewTypeOK, FetcherType
    <2>3. CASE fetcher' = [fetcher EXCEPT ![w].does = "fetch", ![w].text = text]
      BY <2>1, <2>3 DEF PreviewTypeOK, FetcherType
    <2> QED
      BY <2>2, <2>3 DEF LoadTarget
  <1>6. PreviewTypeOK'
    BY <1>1, <1>2, <1>5 DEF PreviewTypeOK, FetcherType
  <1>7. StoresOK' /\ HiddenStays'
    BY <1>1 DEF StoresOK, HiddenStays
  <1>8. LookOK'
    <2> SUFFICES ASSUME ~gone, ~metadata.hidden, ~skipped', metadata.source # text
                 PROVE  \E v \in Fetcher : fetcher'[v].does # "rest" /\ fetcher'[v].text = text
      BY <1>1 DEF LookOK
    <2>1. fetcher' = [fetcher EXCEPT ![w].does = "fetch", ![w].text = text]
      BY <1>4 DEF Wanted
    <2>2. fetcher'[w].does = "fetch" /\ fetcher'[w].text = text
      BY <2>1 DEF PreviewTypeOK
    <2> QED
      BY <2>2
  <1>9. FitsOK' /\ RenewedOK'
    BY <1>1, <1>3, <1>5 DEF FitsOK, RenewedOK
  <1> QED
    BY <1>6, <1>7, <1>8, <1>9

LEMMA DeliverFetchLinks ==
    ASSUME PreviewInv, NEW w \in Fetcher, FetchLinks(w)
    PROVE  PreviewInv'
  <1> USE PreviewAssumption DEF PreviewInv
  <1>1. /\ UNCHANGED <<text, metadata, gone, previewsOn, linked, due, asked, stores, reset>>
        /\ UNCHANGED <<renewed, early, overtaken, flips>>
        /\ fetcher[w].does = "fetch"
        /\ previewFaults' \in 0..MaxPreviewFaults
    BY DEF FetchLinks, PreviewFault, previewAccounts, PreviewTypeOK
  <1>2. skipped' \in BOOLEAN
    BY Zenon DEF FetchLinks, PreviewTypeOK
  <1>3. skipped => skipped'
    BY Zenon DEF FetchLinks
  <1>4. PICK card \in Text, prompt \in BOOLEAN :
            /\ fetcher' = [fetcher EXCEPT ![w].does = "store", ![w].card = card,
                                          ![w].prompt = prompt]
            /\ ~skipped' => \/ card = fetcher[w].text /\ prompt = FALSE
                            \/ /\ fetcher[w].text = "issue" /\ ~linked
                               /\ card = NoLink /\ prompt = TRUE
    <2>1. fetcher[w].text \in Text /\ NoLink \in Text
      BY DEF PreviewTypeOK, Text
    <2> QED
      BY <2>1, Zenon DEF FetchLinks
  <1>5. /\ fetcher' \in [Fetcher -> FetcherType]
        /\ \A v \in Fetcher : v # w => fetcher'[v] = fetcher[v]
        /\ fetcher'[w].does = "store" /\ fetcher'[w].text = fetcher[w].text
        /\ fetcher'[w].card = card /\ (fetcher'[w].prompt <=> prompt)
    <2>1. [fetcher[w] EXCEPT !.does = "store", !.card = card, !.prompt = prompt] \in FetcherType
      BY DEF PreviewTypeOK, FetcherType
    <2> QED
      BY <1>4, <2>1 DEF PreviewTypeOK, FetcherType
  <1>6. PreviewTypeOK'
    BY <1>1, <1>2, <1>5 DEF PreviewTypeOK, FetcherType
  <1>7. StoresOK' /\ HiddenStays'
    BY <1>1 DEF StoresOK, HiddenStays
  <1>8. LookOK'
    BY <1>1, <1>3, <1>5 DEF LookOK
  <1>9. FitsOK'
    <2>1. ~skipped' => Fits(card, prompt, fetcher[w].text)
      BY <1>4 DEF Fits, NoLink
    <2> QED
      BY <1>1, <1>3, <1>5, <2>1 DEF FitsOK, Fits
  <1>10. RenewedOK'
    BY <1>1, <1>3, <1>4, <1>5 DEF RenewedOK
  <1> QED
    BY <1>6, <1>7, <1>8, <1>9, <1>10

LEMMA DeliverAtRest == AtRest \in FetcherType /\ AtRest.does = "rest"
  BY DEF AtRest, FetcherType, Text, NoLink

LEMMA DeliverStorePreviews ==
    ASSUME PreviewInv, NEW w \in Fetcher, StorePreviews(w)
    PROVE  PreviewInv'
  <1> USE PreviewAssumption DEF PreviewInv
  <1>1. /\ UNCHANGED <<text, gone, previewsOn, linked, asked, reset, renewed, flips>>
        /\ fetcher[w].does = "store"
        /\ early' = early \ {w} /\ fetcher' = [fetcher EXCEPT ![w] = AtRest]
    BY DEF StorePreviews
  <1>2. /\ fetcher' \in [Fetcher -> FetcherType] /\ fetcher'[w].does = "rest"
        /\ \A v \in Fetcher : v # w => fetcher'[v] = fetcher[v] /\ (v \in early <=> v \in early')
        /\ early' \subseteq Fetcher
    BY <1>1, DeliverAtRest DEF PreviewTypeOK, FetcherType
  <1>3. CASE /\ MayStore(w)
             /\ metadata' = [metadata EXCEPT !.card = fetcher[w].card,
                                !.prompt = fetcher[w].prompt, !.source = fetcher[w].text]
             /\ stores' = stores + 1 /\ due' = due + 1
             /\ overtaken' = (overtaken \/ (renewed /\ w \in early))
             /\ UNCHANGED <<skipped, previewFaults>>
    <2>1. /\ metadata' = [metadata EXCEPT !.card = fetcher[w].card, !.prompt = fetcher[w].prompt,
                                          !.source = fetcher[w].text]
          /\ stores' = stores + 1 /\ due' = due + 1
          /\ UNCHANGED <<skipped, previewFaults>>
      BY <1>3
    <2>2. overtaken' = (overtaken \/ (renewed /\ w \in early))
      BY <1>3
    <2>3. overtaken' \in BOOLEAN
      BY <2>2, Zenon
    <2>4. ~overtaken' => ~overtaken /\ (renewed => w \notin early)
      BY <2>2, Zenon
    <2>5. /\ metadata' \in MetadataType
          /\ metadata'.card = fetcher[w].card /\ metadata'.source = fetcher[w].text
          /\ (metadata'.prompt <=> fetcher[w].prompt) /\ (metadata'.hidden <=> metadata.hidden)
      BY <2>1 DEF PreviewTypeOK, MetadataType
    <2>6. fetcher[w].text = text /\ metadata.source # text /\ ~metadata.hidden
      BY <1>3 DEF MayStore
    <2>7. PreviewTypeOK'
      BY <1>1, <1>2, <2>1, <2>3, <2>5 DEF PreviewTypeOK, MetadataType, FetcherType
    <2>8. StoresOK' /\ HiddenStays' /\ LookOK'
      BY <1>1, <2>1, <2>5, <2>6 DEF StoresOK, HiddenStays, LookOK, PreviewTypeOK
    <2>9. FitsOK'
      BY <1>1, <1>2, <2>1, <2>5 DEF FitsOK, Fits
    <2>10. RenewedOK'
      BY <1>1, <1>2, <2>1, <2>4, <2>5 DEF RenewedOK
    <2> QED
      BY <2>7, <2>8, <2>9, <2>10
  <1>4. CASE ~MayStore(w) /\ UNCHANGED <<metadata, stores, due, overtaken, skipped, previewFaults>>
    <2>1. PreviewTypeOK'
      BY <1>1, <1>2, <1>4 DEF PreviewTypeOK, FetcherType
    <2>2. StoresOK' /\ HiddenStays'
      BY <1>1, <1>4 DEF StoresOK, HiddenStays
    <2>3. LookOK'
      <3> SUFFICES ASSUME ~gone, ~metadata.hidden, ~skipped, metadata.source # text, ~(due > 0)
                   PROVE  \E v \in Fetcher : fetcher'[v].does # "rest" /\ fetcher'[v].text = text
        BY <1>1, <1>4 DEF LookOK
      <3>1. PICK v \in Fetcher : fetcher[v].does # "rest" /\ fetcher[v].text = text
        BY DEF LookOK
      <3>2. v # w
        BY <1>4, <3>1 DEF MayStore
      <3> QED
        BY <1>2, <3>1, <3>2
    <2>4. FitsOK' /\ RenewedOK'
      BY <1>1, <1>2, <1>4 DEF FitsOK, RenewedOK
    <2> QED
      BY <2>1, <2>2, <2>3, <2>4
  <1>5. CASE PreviewFault /\ skipped' = TRUE /\ UNCHANGED <<metadata, stores, due, overtaken>>
    <2>1. skipped' \in BOOLEAN /\ skipped'
      BY <1>5, Zenon
    <2>2. previewFaults' \in 0..MaxPreviewFaults
      BY <1>5 DEF PreviewFault, PreviewTypeOK
    <2>3. PreviewTypeOK'
      BY <1>1, <1>2, <1>5, <2>1, <2>2 DEF PreviewTypeOK, FetcherType
    <2>4. StoresOK' /\ HiddenStays' /\ LookOK' /\ FitsOK' /\ RenewedOK'
      BY <1>1, <1>5, <2>1 DEF StoresOK, HiddenStays, LookOK, FitsOK, RenewedOK
    <2> QED
      BY <2>3, <2>4
  <1> QED
    BY <1>3, <1>4, <1>5 DEF StorePreviews

LEMMA DeliverLapses ==
    ASSUME PreviewInv, NEW w \in Fetcher, FetcherLapses(w)
    PROVE  PreviewInv'
  <1> USE PreviewAssumption DEF PreviewInv
  <1>1. /\ UNCHANGED <<text, metadata, gone, previewsOn, linked, asked, stores, reset, renewed>>
        /\ UNCHANGED <<overtaken, skipped, flips>>
        /\ due' = due + 1 /\ previewFaults' \in 0..MaxPreviewFaults
    BY DEF FetcherLapses, PreviewFault, PreviewTypeOK
  <1>2. /\ fetcher' \in [Fetcher -> FetcherType] /\ early' \subseteq Fetcher
        /\ \A v \in Fetcher : \/ fetcher'[v] = fetcher[v] /\ (v \in early <=> v \in early')
                              \/ fetcher'[v].does = "rest"
    <2>1. CASE fetcher' = [fetcher EXCEPT ![w] = AtRest] /\ early' = early \ {w}
      BY <2>1, DeliverAtRest DEF PreviewTypeOK, FetcherType
    <2>2. CASE UNCHANGED <<fetcher, early>>
      BY <2>2 DEF PreviewTypeOK, FetcherType
    <2> QED
      BY <2>1, <2>2 DEF FetcherLapses
  <1>3. PreviewTypeOK'
    BY <1>1, <1>2 DEF PreviewTypeOK, FetcherType
  <1>4. StoresOK' /\ HiddenStays' /\ LookOK'
    BY <1>1 DEF StoresOK, HiddenStays, LookOK, PreviewTypeOK
  <1>5. FitsOK' /\ RenewedOK'
    BY <1>1, <1>2 DEF FitsOK, RenewedOK
  <1> QED
    BY <1>3, <1>4, <1>5

(* Previews are written once for each time they are asked for, hidden ones *)
(* stay away, and a message that nobody has to look at again shows those   *)
(* of its own text, with the exceptions the property names                 *)
(* (unfurl_delivery, store_unfurls_in).                                    *)
THEOREM DeliverPreviewSafety == PreviewSpec => []PreviewSafety
  <1>1. PreviewInv /\ [PreviewNext]_previewVars => PreviewInv'
    <2> SUFFICES ASSUME PreviewInv, [PreviewNext]_previewVars PROVE PreviewInv'
      OBVIOUS
    <2>1. CASE UNCHANGED previewVars
      BY <2>1 DEF previewVars, PreviewInv, PreviewTypeOK, StoresOK, HiddenStays, LookOK,
         FitsOK,
                  RenewedOK
    <2> QED
      BY <2>1, DeliverAuthor, DeliverFlip, DeliverLoadTarget, DeliverFetchLinks,
         DeliverStorePreviews, DeliverLapses DEF PreviewNext, FetcherStep
  <1>2. PreviewInv => PreviewSafety
    <2> SUFFICES ASSUME PreviewInv PROVE PreviewSafety
      OBVIOUS
    <2>1. LookedAt /\ ~gone /\ ~metadata.hidden => skipped \/ metadata.source = text
      BY DEF LookedAt, PreviewInv, LookOK, AtRest
    <2>2. SettledFits
      BY <2>1 DEF SettledFits, PreviewInv, FitsOK, Fits
    <2>3. RefreshTakes
      BY <2>1 DEF RefreshTakes, PreviewInv, RenewedOK
    <2> QED
      BY <2>2, <2>3 DEF PreviewSafety, PreviewInv, StoresOK, StoresBounded
  <1> QED
    BY <1>1, <1>2, DeliverPreviewInit, PTL DEF PreviewSpec

-----------------------------------------------------------------------------
(* Workflow runs. *)

WorkflowSpec == WorkflowInit /\ [][WorkflowNext]_workflowVars

Version == 1..(1 + MaxRevisions)
RunType == [status : Status, version : Version, fresh : BOOLEAN]
RunnerType == [at : {"idle", "claimed", "stepping", "succeeded", "failed"},
               version : 0..(1 + MaxRevisions), ran : 0..(1 + MaxRevisions), done : SUBSET Pos]

IsForm(i) == StepKinds[i] = "form"
Active(w) == runner[w].at # "idle"
Sent(i) == sent[i] # <<>>

(* A worker that is at a step has one left, and has passed a form only if  *)
(* it was answered.                                                        *)
RunnerOK ==
    \A w \in Runner :
        /\ runner[w].at = "stepping" => runner[w].done # Pos
        /\ runner[w].at \in {"stepping", "succeeded", "failed"} =>
               runner[w].version \in 1..version
        /\ \A i \in runner[w].done : IsForm(i) => form = "answered"

(* A form that was answered was posted; nothing behind it was done before. *)
FormOK ==
    \A i \in Pos : IsForm(i) =>
        /\ steps[i] = "ok" => form = "answered"
        /\ form = "none" => ~Sent(i)
        /\ \A j \in Pos : i < j /\ Sent(j) => form = "answered"

VersionOK == run.version <= version

(* As long as no two workers had the run: who has it knows what is done,   *)
(* and the run is neither waiting nor over.                                *)
AloneOK == ~shared =>
    /\ \A v, w \in Runner : Active(v) /\ Active(w) => v = w
    /\ \A w \in Runner : Active(w) => run.status = "running"
    /\ form = "open" => run.status \in {"waiting"} \cup Settled
    /\ \A w \in Runner : runner[w].at = "stepping" =>
           runner[w].done = FinishedPositions /\ run.version <= runner[w].version
    /\ \A w \in Runner : runner[w].at = "claimed" => runner[w].ran = run.version

(* And then what was carried out is recorded, once, in one version.        *)
SentOK == ~shared =>
    /\ \A i \in Pos : Sent(i) => steps[i] = "ok" \/ (IsForm(i) /\ form = "open")
    /\ \A i \in Pos : Len(sent[i]) <= 1
    /\ \A i \in Pos : Sent(i) => Head(sent[i]) <= version
    /\ \A w \in Runner, i \in Pos : runner[w].at = "stepping" /\ Sent(i) =>
           Head(sent[i]) = runner[w].version
    /\ run.status \notin Settled => \A i \in Pos : Sent(i) => run.version <= Head(sent[i])
    /\ \A i, j \in Pos : Sent(i) /\ Sent(j) => Head(sent[i]) = Head(sent[j])
    /\ run.status = "none" => \A i \in Pos : ~Sent(i)

WorkflowInv ==
    WorkflowTypeOK /\ RunnerOK /\ FormOK /\ VersionOK /\ AloneOK /\ SentOK

LEMMA DeliverPos == Pos = 1..Len(StepKinds) /\ Len(StepKinds) \in Nat
  BY WorkflowAssumption DEF Pos

LEMMA DeliverOneForm ==
    ASSUME NEW i \in Pos, NEW j \in Pos, IsForm(i), IsForm(j)
    PROVE  i = j
  <1> DEFINE F == {k \in Pos : StepKinds[k] = "form"}
  <1>1. IsFiniteSet(Pos)
    BY DeliverPos, FS_Interval
  <1>2. IsFiniteSet(F) /\ F \in SUBSET Pos /\ Cardinality(F) <= 1
    BY <1>1, FS_Subset, WorkflowAssumption
  <1>3. i \in F /\ j \in F
    BY DEF IsForm
  <1> HIDE DEF F
  <1>4. SUFFICES ASSUME i # j PROVE FALSE
    OBVIOUS
  <1>5. IsFiniteSet({i}) /\ Cardinality({i}) = 1
    BY FS_Singleton
  <1>6. Cardinality({i} \cup {j}) = 2
    BY <1>4, <1>5, FS_AddElement
  <1>7. {i} \cup {j} \in SUBSET F
    BY <1>3
  <1>8. Cardinality({i} \cup {j}) <= Cardinality(F)
    BY <1>2, <1>7, FS_Subset
  <1>9. Cardinality(F) \in Nat
    BY <1>2, FS_CardinalityType
  <1> QED
    BY <1>2, <1>6, <1>8, <1>9

LEMMA DeliverSmallest ==
    ASSUME NEW T, T \subseteq Nat, T # {}
    PROVE  \E x \in T : \A y \in T : x <= y
  <1>1. \E x \in T : \A y \in T : ~(<<y, x>> \in OpToRel(<, Nat))
    BY WFMin, NatLessThanWellFounded
  <1>2. \A x, y \in Nat : ~(<<y, x>> \in OpToRel(<, Nat)) => x <= y
    BY DEF OpToRel
  <1> QED
    BY <1>1, <1>2

(* The next position is the first that is left. *)
LEMMA DeliverNextPos ==
    ASSUME NEW w \in Runner, runner[w].done # Pos, runner[w].done \subseteq Pos
    PROVE  /\ NextPos(w) \in Pos \ runner[w].done
           /\ \A j \in Pos \ runner[w].done : NextPos(w) <= j
  <1>1. Pos \ runner[w].done \subseteq Nat
    BY DeliverPos
  <1>2. Pos \ runner[w].done # {}
    OBVIOUS
  <1>3. \E i \in Pos \ runner[w].done : \A j \in Pos \ runner[w].done : i <= j
    BY <1>1, <1>2, DeliverSmallest
  <1> QED
    BY <1>3 DEF NextPos

LEMMA DeliverWorkflowInit == WorkflowInit => WorkflowInv
  <1> SUFFICES ASSUME WorkflowInit PROVE WorkflowInv
    OBVIOUS
  <1> USE WorkflowAssumption, DeliverPos DEF WorkflowInit, Version
  <1>1. enabled \in BOOLEAN /\ formDue \in BOOLEAN /\ shared \in BOOLEAN
    BY Zenon
  <1>2. run \in RunType /\ NoRun \in RunnerType
    BY DEF RunType, RunnerType, NoRun, Status
  <1>3. runner \in [Runner -> RunnerType] /\ sent \in [Pos -> Seq(Version)]
    BY <1>2
  <1>4. WorkflowTypeOK
    BY <1>1, <1>2, <1>3 DEF WorkflowTypeOK, RunType, RunnerType
  <1>5. /\ \A w \in Runner : runner[w].at = "idle" /\ runner[w].done = {}
        /\ \A i \in Pos : ~Sent(i) /\ steps[i] = "none" /\ Len(sent[i]) = 0
        /\ run.version = 1 /\ version = 1 /\ run.status = "none" /\ form = "none"
    BY DEF NoRun, Sent
  <1> HIDE DEF WorkflowInit
  <1>6. RunnerOK /\ FormOK /\ VersionOK
    BY <1>5 DEF RunnerOK, FormOK, VersionOK
  <1>7. AloneOK
    BY <1>5 DEF AloneOK, Active
  <1>8. SentOK
    BY <1>5 DEF SentOK
  <1> QED
    BY <1>4, <1>6, <1>7, <1>8 DEF WorkflowInv

LEMMA DeliverWorkflowTypes ==
    ASSUME WorkflowTypeOK
    PROVE  /\ run \in RunType /\ runner \in [Runner -> RunnerType]
           /\ sent \in [Pos -> Seq(Version)] /\ steps \in [Pos -> {"none", "ok", "failed"}]
           /\ version \in Version /\ form \in {"none", "open", "answered"}
           /\ enabled \in BOOLEAN /\ formDue \in BOOLEAN /\ shared \in BOOLEAN
  BY DEF WorkflowTypeOK, RunType, RunnerType, Version

LEMMA DeliverWorkflowTyped ==
    ASSUME run \in RunType, runner \in [Runner -> RunnerType],
           sent \in [Pos -> Seq(Version)], steps \in [Pos -> {"none", "ok", "failed"}],
           version \in Version, form \in {"none", "open", "answered"},
           enabled \in BOOLEAN, formDue \in BOOLEAN, shared \in BOOLEAN,
           acting \in {"yes", "lost channel", "stopped"},
           lapses \in 0..MaxLapses, runFaults \in 0..MaxRunFaults
    PROVE  WorkflowTypeOK
  BY DEF WorkflowTypeOK, RunType, RunnerType, Version

(* What goes on around a run that no worker is at: nothing of it is done. *)
LEMMA DeliverAround ==
    ASSUME WorkflowInv, UNCHANGED <<steps, form, runner, sent, shared>>,
           version' \in Version, run' \in RunType, version <= version',
           \/ run'.status = run.status /\ run'.version = run.version
           \/ run.status = "none" /\ run'.status \in {"pending", "failed"}
              /\ run'.version = version
           \/ run.status = "waiting" /\ run'.status = "expired" /\ run'.version = run.version
    PROVE  RunnerOK' /\ FormOK' /\ VersionOK' /\ AloneOK' /\ SentOK'
  <1>1. run \in RunType /\ version \in Nat /\ version' \in Nat /\ run.version \in Nat
    BY DeliverWorkflowTypes, WorkflowAssumption DEF WorkflowInv, RunType, Version
  <1>2. runner \in [Runner -> RunnerType]
    BY DeliverWorkflowTypes DEF WorkflowInv
  <1>3. RunnerOK'
    BY <1>1, <1>2, WorkflowAssumption DEF WorkflowInv, RunnerOK, IsForm, RunnerType
  <1>4. FormOK'
    BY DEF WorkflowInv, FormOK, IsForm, Sent
  <1>5. VersionOK'
    BY <1>1 DEF WorkflowInv, VersionOK
  <1>6. AloneOK'
    BY DEF WorkflowInv, AloneOK, Active, FinishedPositions, Settled
  <1>7. sent \in [Pos -> Seq(Version)] /\ \A i \in Pos : Sent(i) => Head(sent[i]) \in Nat
    BY DeliverWorkflowTypes, WorkflowAssumption DEF WorkflowInv, Sent, Version
  <1>8. SentOK'
    BY <1>1, <1>7 DEF WorkflowInv, SentOK, Sent, IsForm, Settled
  <1> QED
    BY <1>3, <1>4, <1>5, <1>6, <1>8

LEMMA DeliverAroundSteps ==
    ASSUME WorkflowInv,
           \/ \E limited \in BOOLEAN : Trigger(limited)
           \/ ClaimLapses \/ ExpireForms \/ FormGrowsOld \/ EditWorkflow
           \/ SwitchWorkflow \/ CreatorStops
    PROVE  WorkflowInv'
  <1> USE WorkflowAssumption
  <1>1. WorkflowTypeOK /\ run \in RunType /\ version \in Version
    BY DeliverWorkflowTypes DEF WorkflowInv
  <1>2. /\ UNCHANGED <<steps, form, runner, sent, shared>>
        /\ runFaults' = runFaults
    BY DEF Trigger, ClaimLapses, ExpireForms, FormGrowsOld, EditWorkflow, SwitchWorkflow,
           CreatorStops
  <1>3. version' \in Version /\ version <= version'
    <2>1. CASE EditWorkflow
      BY <1>1, <2>1 DEF EditWorkflow, Version
    <2>2. CASE version' = version
      BY <1>1, <2>2 DEF Version
    <2> QED
      BY <2>1, <2>2 DEF Trigger, ClaimLapses, ExpireForms, FormGrowsOld, SwitchWorkflow,
                        CreatorStops
  <1>4. /\ run' \in RunType
        /\ \/ run'.status = run.status /\ run'.version = run.version
           \/ run.status = "none" /\ run'.status \in {"pending", "failed"}
              /\ run'.version = version
           \/ run.status = "waiting" /\ run'.status = "expired" /\ run'.version = run.version
    <2>1. CASE \E limited \in BOOLEAN : Trigger(limited)
      BY <1>1, <2>1 DEF Trigger, RunType, Status, Settled
    <2>2. CASE ClaimLapses
      BY <1>1, <2>2 DEF ClaimLapses, RunType
    <2>3. CASE ExpireForms
      BY <1>1, <2>3 DEF ExpireForms, Expires, RunType, Status, Settled
    <2>4. CASE FormGrowsOld \/ EditWorkflow \/ SwitchWorkflow \/ CreatorStops
      BY <1>1, <2>4 DEF FormGrowsOld, EditWorkflow, SwitchWorkflow, CreatorStops
    <2> QED
      BY <2>1, <2>2, <2>3, <2>4
  <1>5. enabled' \in BOOLEAN
    <2>1. CASE SwitchWorkflow
      BY <2>1, Zenon DEF SwitchWorkflow
    <2>2. CASE enabled' = enabled
      BY <1>1, <2>2, DeliverWorkflowTypes
    <2> QED
      BY <2>1, <2>2 DEF Trigger, ClaimLapses, ExpireForms, FormGrowsOld, EditWorkflow,
                        CreatorStops
  <1>6. formDue' \in BOOLEAN
    <2>1. formDue' = formDue \/ formDue' = TRUE
      BY DEF Trigger, ClaimLapses, ExpireForms, FormGrowsOld, EditWorkflow, SwitchWorkflow,
             CreatorStops
    <2> QED
      BY <1>1, <2>1, DeliverWorkflowTypes
  <1>7. acting' \in {"yes", "lost channel", "stopped"}
    BY <1>1 DEF Trigger, ClaimLapses, ExpireForms, FormGrowsOld, EditWorkflow,
       SwitchWorkflow,
                CreatorStops, WorkflowTypeOK
  <1>8. lapses' \in 0..MaxLapses
    <2>1. CASE ClaimLapses
      <3>1. lapses' = lapses \/ (lapses' = lapses + 1 /\ lapses < MaxLapses)
        BY <2>1 DEF ClaimLapses
      <3>2. lapses \in 0..MaxLapses
        BY <1>1 DEF WorkflowTypeOK
      <3> QED
        BY <3>1, <3>2
    <2>2. CASE lapses' = lapses
      BY <1>1, <2>2 DEF WorkflowTypeOK
    <2> QED
      BY <2>1, <2>2 DEF Trigger, ExpireForms, FormGrowsOld, EditWorkflow, SwitchWorkflow,
                        CreatorStops
  <1>9. WorkflowTypeOK'
    BY <1>1, <1>2, <1>3, <1>4, <1>5, <1>6, <1>7, <1>8 DEF WorkflowTypeOK, RunType, Version
  <1> QED
    BY <1>2, <1>3, <1>4, <1>9, DeliverAround DEF WorkflowInv

LEMMA DeliverNoRun ==
    NoRun \in RunnerType /\ NoRun.at = "idle" /\ NoRun.done = {}
  BY WorkflowAssumption DEF NoRun, RunnerType

LEMMA DeliverClaimRun ==
    ASSUME WorkflowInv, NEW w \in Runner, ClaimRun(w)
    PROVE  WorkflowInv'
  <1> DEFINE r == [NoRun EXCEPT !.at = "claimed", !.ran = run.version]
  <1>1. /\ WorkflowTypeOK /\ run \in RunType /\ runner \in [Runner -> RunnerType]
        /\ shared \in BOOLEAN
    BY DeliverWorkflowTypes DEF WorkflowInv
  <1>2. r \in RunnerType /\ r.at = "claimed" /\ r.ran = run.version /\ r.done = {}
    <2>1. run.version \in 0..(1 + MaxRevisions)
      BY <1>1, WorkflowAssumption DEF RunType, Version
    <2> QED
      BY <2>1, DeliverNoRun DEF RunnerType
  <1>3. /\ runner' = [runner EXCEPT ![w] = r] /\ runner[w].at = "idle"
        /\ run' = [run EXCEPT !.status = "running", !.fresh = TRUE]
        /\ UNCHANGED <<enabled, version, acting, steps, form, formDue, sent, lapses, runFaults>>
        /\ run.status \in {"pending", "running"}
        /\ shared' = (shared \/ \E o \in Runner : runner[o].at # "idle")
    BY DEF ClaimRun, MayClaimRun
  <1> HIDE DEF r
  <1>4. /\ run' \in RunType /\ run'.status = "running" /\ run'.version = run.version
        /\ runner' \in [Runner -> RunnerType] /\ runner'[w] = r
        /\ \A v \in Runner \ {w} : runner'[v] = runner[v]
    BY <1>1, <1>2, <1>3 DEF RunType, Status
  <1>5. shared' \in BOOLEAN
    BY <1>3, Zenon
  <1>6. ~shared' => ~shared /\ \A v \in Runner : runner[v].at = "idle"
    BY <1>1, <1>3
  <1>7. WorkflowTypeOK'
    BY <1>1, <1>3, <1>4, <1>5 DEF WorkflowTypeOK, RunType, RunnerType, Version
  <1>8. RunnerOK'
    BY <1>2, <1>3, <1>4 DEF WorkflowInv, RunnerOK, IsForm
  <1>9. FormOK' /\ VersionOK'
    BY <1>3, <1>4 DEF WorkflowInv, FormOK, VersionOK, IsForm, Sent
  <1>10. AloneOK'
    BY <1>2, <1>3, <1>4, <1>6 DEF WorkflowInv, AloneOK, Active, FinishedPositions, Settled
  <1>11. SentOK'
    BY <1>2, <1>3, <1>4, <1>6 DEF WorkflowInv, SentOK, Sent, IsForm, Settled
  <1> QED
    BY <1>7, <1>8, <1>9, <1>10, <1>11 DEF WorkflowInv

(* A worker that lets go of the run, which stays as it is. *)
LEMMA DeliverRunnerDies ==
    ASSUME WorkflowInv, NEW w \in Runner, RunnerDies(w)
    PROVE  WorkflowInv'
  <1>1. /\ WorkflowTypeOK /\ runner \in [Runner -> RunnerType]
        /\ runFaults \in 0..MaxRunFaults
    BY DeliverWorkflowTypes DEF WorkflowInv, WorkflowTypeOK
  <1>2. /\ UNCHANGED <<enabled, version, acting, run, steps, form, formDue, sent, lapses, shared>>
        /\ runFaults' \in 0..MaxRunFaults
        /\ runner' = [runner EXCEPT ![w] = NoRun]
    BY <1>1, WorkflowAssumption DEF RunnerDies
  <1>3. /\ runner' \in [Runner -> RunnerType] /\ runner'[w] = NoRun
        /\ \A v \in Runner \ {w} : runner'[v] = runner[v]
    BY <1>1, <1>2, DeliverNoRun
  <1>4. WorkflowTypeOK'
    BY <1>1, <1>2, <1>3 DEF WorkflowTypeOK, RunnerType
  <1>5. RunnerOK'
    BY <1>2, <1>3, DeliverNoRun DEF WorkflowInv, RunnerOK, IsForm
  <1>6. FormOK' /\ VersionOK'
    BY <1>2 DEF WorkflowInv, FormOK, VersionOK, IsForm, Sent
  <1>7. AloneOK'
    BY <1>2, <1>3, DeliverNoRun DEF WorkflowInv, AloneOK, Active, FinishedPositions
  <1>8. SentOK'
    BY <1>2, <1>3, DeliverNoRun DEF WorkflowInv, SentOK, Sent, IsForm
  <1> QED
    BY <1>4, <1>5, <1>6, <1>7, <1>8 DEF WorkflowInv

(* finish *)
LEMMA DeliverFinishRun ==
    ASSUME WorkflowInv, NEW w \in Runner, FinishRun(w)
    PROVE  WorkflowInv'
  <1>1. /\ WorkflowTypeOK /\ runner \in [Runner -> RunnerType] /\ run \in RunType
        /\ version \in Version
    BY DeliverWorkflowTypes DEF WorkflowInv
  <1>2. /\ UNCHANGED <<enabled, version, acting, steps, form, formDue, sent, lapses, runFaults,
                       shared>>
        /\ runner[w].at \in {"succeeded", "failed"}
        /\ run' = [run EXCEPT !.status = runner[w].at, !.version = runner[w].version]
        /\ runner' = [runner EXCEPT ![w] = NoRun]
    BY DEF FinishRun
  <1>3. runner[w].version \in Version /\ runner[w].version <= version
    BY <1>1, <1>2, WorkflowAssumption DEF WorkflowInv, RunnerOK, Version
  <1>4. /\ runner' \in [Runner -> RunnerType] /\ runner'[w] = NoRun
        /\ \A v \in Runner \ {w} : runner'[v] = runner[v]
    BY <1>1, <1>2, DeliverNoRun
  <1>5. run' \in RunType /\ run'.status \in Settled /\ run'.version = runner[w].version
    BY <1>1, <1>2, <1>3 DEF RunType, Status, Settled
  <1>6. WorkflowTypeOK'
    BY <1>1, <1>2, <1>4, <1>5 DEF WorkflowTypeOK, RunnerType, RunType, Version
  <1>7. RunnerOK'
    BY <1>2, <1>4, DeliverNoRun DEF WorkflowInv, RunnerOK, IsForm
  <1>8. FormOK'
    BY <1>2 DEF WorkflowInv, FormOK, IsForm, Sent
  <1>9. VersionOK'
    BY <1>2, <1>3, <1>5 DEF VersionOK
  <1>10. ~shared' => \A v \in Runner : runner'[v].at = "idle"
    BY <1>2, <1>4, DeliverNoRun DEF WorkflowInv, AloneOK, Active
  <1>11. AloneOK'
    BY <1>2, <1>5, <1>10 DEF WorkflowInv, AloneOK, Active
  <1>12. SentOK'
    BY <1>2, <1>5, <1>10 DEF WorkflowInv, SentOK, Sent, IsForm, Settled
  <1> QED
    BY <1>6, <1>7, <1>8, <1>9, <1>11, <1>12 DEF WorkflowInv

(* answer_form *)
LEMMA DeliverAnswerForm ==
    ASSUME WorkflowInv, AnswerForm
    PROVE  WorkflowInv'
  <1>1. /\ WorkflowTypeOK /\ runner \in [Runner -> RunnerType] /\ run \in RunType
        /\ steps \in [Pos -> {"none", "ok", "failed"}]
    BY DeliverWorkflowTypes DEF WorkflowInv
  <1>2. /\ UNCHANGED <<enabled, version, acting, formDue, runner, sent, lapses, runFaults, shared>>
        /\ form = "open" /\ run.status = "waiting" /\ form' = "answered"
        /\ run' = [run EXCEPT !.status = "pending", !.fresh = FALSE]
        /\ steps' = [i \in Pos |-> IF IsForm(i) THEN "ok" ELSE steps[i]]
    BY DEF AnswerForm, TakesAnswer, IsForm
  <1>3. /\ run' \in RunType /\ run'.status = "pending" /\ run'.version = run.version
        /\ steps' \in [Pos -> {"none", "ok", "failed"}]
    BY <1>1, <1>2 DEF RunType, Status
  <1>4. WorkflowTypeOK'
    BY <1>1, <1>2, <1>3 DEF WorkflowTypeOK, RunType, Version
  <1>5. RunnerOK'
    BY <1>2 DEF WorkflowInv, RunnerOK, IsForm
  <1>6. FormOK' /\ VersionOK'
    BY <1>2, <1>3 DEF WorkflowInv, FormOK, VersionOK, IsForm, Sent
  <1>7. AloneOK'
    BY <1>2, <1>3 DEF WorkflowInv, AloneOK, Active
  <1>8. SentOK'
    BY <1>2, <1>3 DEF WorkflowInv, SentOK, Sent, IsForm, Settled
  <1> QED
    BY <1>4, <1>5, <1>6, <1>7, <1>8 DEF WorkflowInv

(* What is carried out was recorded, or is a form that waits: a worker     *)
(* that has the run to itself finds all of it among the finished steps.    *)
LEMMA DeliverSentIsFinished ==
    ASSUME WorkflowInv, ~shared, NEW w \in Runner, Active(w), NEW i \in Pos, Sent(i)
    PROVE  run.status = "running" /\ steps[i] = "ok" /\ i \in FinishedPositions
  BY DEF WorkflowInv, AloneOK, SentOK, Settled, FinishedPositions

(* execute *)
LEMMA DeliverLoadRun ==
    ASSUME WorkflowInv, NEW w \in Runner, LoadRun(w)
    PROVE  WorkflowInv'
  <1> DEFINE refused == ~enabled \/ acting # "yes" \/ EditedUnderWay(w)
             at == IF refused THEN "failed"
                   ELSE IF FinishedPositions = Pos THEN "succeeded" ELSE "stepping"
             r == [runner[w] EXCEPT !.at = at, !.version = version, !.done = FinishedPositions]
  <1>1. /\ WorkflowTypeOK /\ run \in RunType /\ runner \in [Runner -> RunnerType]
        /\ version \in Version /\ steps \in [Pos -> {"none", "ok", "failed"}]
        /\ sent \in [Pos -> Seq(Version)]
    BY DeliverWorkflowTypes DEF WorkflowInv
  <1>2. /\ runner' = [runner EXCEPT ![w] = r] /\ runner[w].at = "claimed"
        /\ UNCHANGED <<version, acting, run, steps, form, formDue, sent, lapses, runFaults, shared>>
        /\ enabled' = (enabled /\ acting # "stopped")
    BY DEF LoadRun
  <1>3. /\ at \in {"failed", "succeeded", "stepping"}
        /\ at = "stepping" => FinishedPositions # Pos /\ ~EditedUnderWay(w)
    OBVIOUS
  <1> HIDE DEF at
  <1>4. /\ r \in RunnerType /\ r.at = at /\ r.version = version /\ r.done = FinishedPositions
        /\ r.ran = runner[w].ran
    <2>1. FinishedPositions \in SUBSET Pos
      BY DEF FinishedPositions
    <2>2. version \in 0..(1 + MaxRevisions)
      BY <1>1, WorkflowAssumption DEF Version
    <2>3. runner[w] \in RunnerType
      BY <1>1
    <2> QED
      BY <1>3, <2>1, <2>2, <2>3 DEF RunnerType
  <1> HIDE DEF r
  <1>5. /\ runner' \in [Runner -> RunnerType] /\ runner'[w] = r
        /\ \A v \in Runner \ {w} : runner'[v] = runner[v]
    BY <1>1, <1>2, <1>4
  <1>6. enabled' \in BOOLEAN
    BY <1>2, Zenon
  <1>7. WorkflowTypeOK'
    BY <1>1, <1>2, <1>5, <1>6 DEF WorkflowTypeOK, RunnerType
  <1>8. version \in 1..version
    BY <1>1, WorkflowAssumption DEF Version
  <1>9. RunnerOK'
    <2>1. \A i \in FinishedPositions : IsForm(i) => form = "answered"
      BY DEF FinishedPositions, WorkflowInv, FormOK
    <2> QED
      BY <1>2, <1>3, <1>4, <1>5, <1>8, <2>1 DEF WorkflowInv, RunnerOK, IsForm
  <1>10. FormOK' /\ VersionOK'
    BY <1>2 DEF WorkflowInv, FormOK, VersionOK, IsForm, Sent
  <1>11. AloneOK'
    BY <1>2, <1>3, <1>4, <1>5 DEF WorkflowInv, AloneOK, Active, FinishedPositions, VersionOK
  <1>12. ASSUME ~shared, r.at = "stepping", NEW i \in Pos, Sent(i)
         PROVE  Head(sent[i]) = version
    <2>1. run.status = "running" /\ FinishedPositions # {}
      BY <1>2, <1>12, DeliverSentIsFinished DEF Active
    <2>2. version = runner[w].ran
      BY <1>3, <1>4, <1>12, <2>1 DEF EditedUnderWay
    <2>3. version = run.version
      BY <1>2, <1>12, <2>2 DEF WorkflowInv, AloneOK
    <2>4. run.version <= Head(sent[i]) /\ Head(sent[i]) <= version
      BY <1>12, <2>1 DEF WorkflowInv, SentOK, Settled
    <2>5. Head(sent[i]) \in Version
      BY <1>1, <1>12 DEF Sent
    <2> QED
      BY <1>1, <2>3, <2>4, <2>5, WorkflowAssumption DEF Version
  <1>13. SentOK'
    <2>1. \A v \in Runner, i \in Pos : ~shared /\ runner'[v].at = "stepping" /\ Sent(i) =>
              Head(sent[i]) = runner'[v].version
      BY <1>4, <1>5, <1>12 DEF WorkflowInv, SentOK
    <2> QED
      BY <1>2, <2>1 DEF WorkflowInv, SentOK, Sent, IsForm
  <1> QED
    BY <1>7, <1>9, <1>10, <1>11, <1>13 DEF WorkflowInv

(* run_step, for a message *)
LEMMA DeliverSendStep ==
    ASSUME WorkflowInv, NEW w \in Runner, SendStep(w)
    PROVE  WorkflowInv'
  <1> DEFINE i == NextPos(w)
             r == [runner[w] EXCEPT !.done = runner[w].done \cup {i},
                      !.at = IF runner[w].done \cup {i} = Pos THEN "succeeded"
                             ELSE runner[w].at]
  <1>1. /\ WorkflowTypeOK /\ run \in RunType /\ runner \in [Runner -> RunnerType]
        /\ version \in Version /\ steps \in [Pos -> {"none", "ok", "failed"}]
        /\ sent \in [Pos -> Seq(Version)] /\ runner[w] \in RunnerType
    BY DeliverWorkflowTypes DEF WorkflowInv
  <1>2. /\ runner' = [runner EXCEPT ![w] = r] /\ runner[w].at = "stepping"
        /\ StepKinds[i] = "send" /\ steps' = [steps EXCEPT ![i] = "ok"]
        /\ sent' = [sent EXCEPT ![i] = Append(sent[i], runner[w].version)]
        /\ UNCHANGED <<enabled, version, acting, run, form, formDue, lapses, runFaults, shared>>
    BY <1>1 DEF SendStep, RecordsStep, RunnerType
  <1>3. /\ i \in Pos \ runner[w].done /\ i \in Pos /\ ~IsForm(i)
        /\ \A j \in Pos \ runner[w].done : i <= j
    <2>1. runner[w].done # Pos /\ runner[w].done \subseteq Pos
      BY <1>1, <1>2 DEF WorkflowInv, RunnerOK, RunnerType
    <2> QED
      BY <1>2, <2>1, DeliverNextPos DEF IsForm
  <1>4. runner[w].version \in 1..version /\ runner[w].version \in Version
    BY <1>1, <1>2, WorkflowAssumption DEF WorkflowInv, RunnerOK, Version
  <1> HIDE DEF i
  <1>5. /\ r \in RunnerType /\ r.version = runner[w].version /\ r.ran = runner[w].ran
        /\ r.done = runner[w].done \cup {i} /\ r.at \in {"stepping", "succeeded"}
        /\ r.at = "stepping" => r.done # Pos
    BY <1>1, <1>2, <1>3 DEF RunnerType
  <1> HIDE DEF r
  <1>6. /\ runner' \in [Runner -> RunnerType] /\ runner'[w] = r
        /\ \A v \in Runner \ {w} : runner'[v] = runner[v]
    BY <1>1, <1>2, <1>5
  <1>7. /\ sent' \in [Pos -> Seq(Version)] /\ steps' \in [Pos -> {"none", "ok", "failed"}]
        /\ \A j \in Pos \ {i} : sent'[j] = sent[j] /\ steps'[j] = steps[j]
        /\ steps'[i] = "ok" /\ sent'[i] = Append(sent[i], runner[w].version)
    BY <1>1, <1>2, <1>3, <1>4
  <1>8. WorkflowTypeOK'
    BY <1>1, <1>2, <1>6, <1>7 DEF WorkflowTypeOK, RunnerType, Version
  <1>9. RunnerOK'
    BY <1>2, <1>3, <1>4, <1>5, <1>6 DEF WorkflowInv, RunnerOK, IsForm
  <1>10. FormOK'
    <2>1. ASSUME NEW j \in Pos, IsForm(j), j < i PROVE form = "answered"
      <3>1. j \in runner[w].done
        BY <1>3, <2>1, DeliverPos
      <3> QED
        BY <2>1, <3>1 DEF WorkflowInv, RunnerOK
    <2> QED
      BY <1>2, <1>3, <1>7, <2>1 DEF WorkflowInv, FormOK, IsForm, Sent
  <1>11. VersionOK'
    BY <1>2 DEF WorkflowInv, VersionOK
  <1>12. ASSUME ~shared
         PROVE  /\ run.status = "running" /\ runner[w].done = FinishedPositions
                /\ \A v \in Runner \ {w} : runner[v].at = "idle"
                /\ ~Sent(i) /\ run.version <= runner[w].version
    <2>1. Active(w)
      BY <1>2 DEF Active
    <2>2. runner[w].done = FinishedPositions
      BY <1>2, <1>12 DEF WorkflowInv, AloneOK
    <2>3. ~Sent(i)
      BY <1>3, <1>12, <2>1, <2>2, DeliverSentIsFinished
    <2> QED
      BY <1>2, <1>12, <2>1, <2>2, <2>3 DEF WorkflowInv, AloneOK, Active
  <1>13. AloneOK'
    <2>1. FinishedPositions' = FinishedPositions \cup {i}
      BY <1>3, <1>7 DEF FinishedPositions
    <2> QED
      BY <1>2, <1>5, <1>6, <1>12, <2>1 DEF WorkflowInv, AloneOK, Active
  <1>14. SentOK'
    <2> SUFFICES ASSUME ~shared PROVE SentOK'
      BY <1>2 DEF SentOK
    <2>1. sent'[i] = <<runner[w].version>> /\ Len(sent'[i]) = 1 /\ Head(sent'[i]) = runner[w].version
      BY <1>1, <1>3, <1>4, <1>7, <1>12 DEF Sent
    <2>2. \A j \in Pos : Sent(j) => Head(sent[j]) = runner[w].version
      BY <1>2 DEF WorkflowInv, SentOK
    <2>3. \A j \in Pos : Sent(j)' => Head(sent'[j]) = runner[w].version
      BY <1>7, <2>1, <2>2 DEF Sent
    <2>4. \A j \in Pos : Len(sent'[j]) <= 1
      <3>1. \A j \in Pos : Len(sent[j]) <= 1
        BY DEF WorkflowInv, SentOK
      <3> TAKE j \in Pos
      <3>2. CASE j = i
        <4>1. Len(sent'[j]) = 1
          BY <2>1, <3>2, Zenon
        <4> QED
          BY <4>1
      <3>3. CASE j # i
        <4>1. sent'[j] = sent[j]
          BY <1>7, <3>3
        <4> QED
          BY <3>1, <4>1
      <3> QED
        BY <3>2, <3>3
    <2>5. \A j \in Pos : Sent(j)' => steps'[j] = "ok" \/ (IsForm(j) /\ form = "open")
      BY <1>7 DEF WorkflowInv, SentOK, Sent
    <2>6. runner[w].version <= version
      BY <1>1, <1>4, WorkflowAssumption DEF Version
    <2>7. \A v \in Runner : runner'[v].at = "stepping" => runner'[v].version = runner[w].version
      BY <1>5, <1>6, <1>12
    <2>8. run'.status = "running" /\ run'.version <= runner[w].version
      BY <1>2, <1>12
    <2> QED
      BY <1>2, <2>3, <2>4, <2>5, <2>6, <2>7, <2>8 DEF SentOK, IsForm
  <1> QED
    BY <1>8, <1>9, <1>10, <1>11, <1>13, <1>14 DEF WorkflowInv

(* post_form *)
LEMMA DeliverFormStep ==
    ASSUME WorkflowInv, NEW w \in Runner, FormStep(w)
    PROVE  WorkflowInv'
  <1> DEFINE i == NextPos(w)
  <1>1. /\ WorkflowTypeOK /\ run \in RunType /\ runner \in [Runner -> RunnerType]
        /\ version \in Version /\ sent \in [Pos -> Seq(Version)] /\ runner[w] \in RunnerType
    BY DeliverWorkflowTypes DEF WorkflowInv
  <1>2. /\ runner' = [runner EXCEPT ![w] = NoRun] /\ runner[w].at = "stepping"
        /\ StepKinds[i] = "form" /\ form = "none" /\ form' = "open"
        /\ run' = [run EXCEPT !.status = "waiting"]
        /\ sent' = [sent EXCEPT ![i] = Append(sent[i], runner[w].version)]
        /\ UNCHANGED <<enabled, version, acting, steps, formDue, lapses, runFaults, shared>>
    BY DEF FormStep
  <1>3. i \in Pos /\ IsForm(i) /\ \A j \in Pos : IsForm(j) => j = i
    <2>1. runner[w].done # Pos /\ runner[w].done \subseteq Pos
      BY <1>1, <1>2 DEF WorkflowInv, RunnerOK, RunnerType
    <2>2. i \in Pos /\ IsForm(i)
      BY <1>2, <2>1, DeliverNextPos DEF IsForm
    <2> QED
      BY <2>2, DeliverOneForm
  <1>4. runner[w].version \in 1..version /\ runner[w].version \in Version
    BY <1>1, <1>2, WorkflowAssumption DEF WorkflowInv, RunnerOK, Version
  <1> HIDE DEF i
  <1>5. ~Sent(i) /\ steps[i] # "ok" /\ \A j \in Pos : i < j => ~Sent(j)
    BY <1>2, <1>3 DEF WorkflowInv, FormOK
  <1>6. /\ runner' \in [Runner -> RunnerType] /\ runner'[w] = NoRun
        /\ \A v \in Runner \ {w} : runner'[v] = runner[v]
    BY <1>1, <1>2, DeliverNoRun
  <1>7. /\ sent' \in [Pos -> Seq(Version)] /\ \A j \in Pos \ {i} : sent'[j] = sent[j]
        /\ sent'[i] = <<runner[w].version>>
    BY <1>1, <1>2, <1>3, <1>4, <1>5 DEF Sent
  <1>8. run' \in RunType /\ run'.status = "waiting" /\ run'.version = run.version
    BY <1>1, <1>2 DEF RunType, Status
  <1>9. WorkflowTypeOK'
    BY <1>1, <1>2, <1>6, <1>7, <1>8 DEF WorkflowTypeOK, RunnerType, RunType, Version
  <1>10. RunnerOK'
    BY <1>2, <1>6, DeliverNoRun DEF WorkflowInv, RunnerOK, IsForm
  <1>11. FormOK'
    <2>1. \A j \in Pos : i < j => ~Sent(j)'
      BY <1>3, <1>5, <1>7, DeliverPos DEF Sent
    <2> QED
      BY <1>2, <1>3, <1>5, <2>1 DEF FormOK, IsForm
  <1>12. VersionOK'
    BY <1>2, <1>8 DEF WorkflowInv, VersionOK
  <1>13. AloneOK'
    <2>1. ~shared => \A v \in Runner : runner'[v].at = "idle"
      BY <1>2, <1>6, DeliverNoRun DEF WorkflowInv, AloneOK, Active
    <2> QED
      BY <1>2, <1>8, <2>1 DEF AloneOK, Active
  <1>14. SentOK'
    <2> SUFFICES ASSUME ~shared PROVE SentOK'
      BY <1>2 DEF SentOK
    <2>1. Len(sent'[i]) = 1 /\ Head(sent'[i]) = runner[w].version
      BY <1>7
    <2>2. \A j \in Pos : Sent(j) => Head(sent[j]) = runner[w].version
      BY <1>2 DEF WorkflowInv, SentOK
    <2>3. \A j \in Pos : Sent(j)' => Head(sent'[j]) = runner[w].version
      BY <1>7, <2>1, <2>2 DEF Sent
    <2>4. \A j \in Pos : Len(sent'[j]) <= 1
      <3>1. \A j \in Pos : Len(sent[j]) <= 1
        BY DEF WorkflowInv, SentOK
      <3> TAKE j \in Pos
      <3>2. CASE j = i
        <4>1. Len(sent'[j]) = 1
          BY <2>1, <3>2, Zenon
        <4> QED
          BY <4>1
      <3>3. CASE j # i
        <4>1. sent'[j] = sent[j]
          BY <1>7, <3>3
        <4> QED
          BY <3>1, <4>1
      <3> QED
        BY <3>2, <3>3
    <2>5. \A j \in Pos : Sent(j)' => steps[j] = "ok" \/ IsForm(j)
      BY <1>3, <1>7 DEF WorkflowInv, SentOK, Sent
    <2>6. runner[w].version <= version
      BY <1>1, <1>4, WorkflowAssumption DEF Version
    <2>7. \A v \in Runner : runner'[v].at = "idle"
      BY <1>2, <1>6, DeliverNoRun DEF WorkflowInv, AloneOK, Active
    <2>8. run'.status = "waiting" /\ run'.version <= runner[w].version
      BY <1>2, <1>8 DEF WorkflowInv, AloneOK
    <2> QED
      BY <1>2, <2>3, <2>4, <2>5, <2>6, <2>7, <2>8 DEF SentOK, IsForm
  <1> QED
    BY <1>9, <1>10, <1>11, <1>12, <1>13, <1>14 DEF WorkflowInv

(* A step that fails, or finds its form there. *)
LEMMA DeliverStepError ==
    ASSUME WorkflowInv, NEW w \in Runner, FormIsThere(w) \/ StepFails(w)
    PROVE  WorkflowInv'
  <1> DEFINE i == NextPos(w)
             r == [runner[w] EXCEPT !.at = "failed"]
  <1>1. /\ WorkflowTypeOK /\ runner \in [Runner -> RunnerType]
        /\ steps \in [Pos -> {"none", "ok", "failed"}] /\ runner[w] \in RunnerType
        /\ runFaults \in 0..MaxRunFaults
    BY DeliverWorkflowTypes DEF WorkflowInv, WorkflowTypeOK
  <1>2. /\ runner' = [runner EXCEPT ![w] = r] /\ runner[w].at = "stepping"
        /\ steps' = [steps EXCEPT ![i] = "failed"]
        /\ UNCHANGED <<enabled, version, acting, run, form, formDue, sent, lapses, shared>>
    BY DEF FormIsThere, StepFails, StepError
  <1>3. i \in Pos \ runner[w].done
    <2>1. runner[w].done # Pos /\ runner[w].done \subseteq Pos
      BY <1>1, <1>2 DEF WorkflowInv, RunnerOK, RunnerType
    <2> QED
      BY <2>1, DeliverNextPos
  <1>4. runFaults' \in 0..MaxRunFaults
    BY <1>1, WorkflowAssumption DEF FormIsThere, StepFails
  <1> HIDE DEF i
  <1>5. /\ r \in RunnerType /\ r.at = "failed" /\ r.version = runner[w].version
        /\ r.done = runner[w].done
    BY <1>1 DEF RunnerType
  <1> HIDE DEF r
  <1>6. /\ runner' \in [Runner -> RunnerType] /\ runner'[w] = r
        /\ \A v \in Runner \ {w} : runner'[v] = runner[v]
    BY <1>1, <1>2, <1>5
  <1>7. /\ steps' \in [Pos -> {"none", "ok", "failed"}] /\ steps'[i] = "failed"
        /\ \A j \in Pos \ {i} : steps'[j] = steps[j]
    BY <1>1, <1>2, <1>3
  <1>8. WorkflowTypeOK'
    BY <1>1, <1>2, <1>4, <1>6, <1>7 DEF WorkflowTypeOK, RunnerType
  <1>9. RunnerOK'
    BY <1>2, <1>5, <1>6 DEF WorkflowInv, RunnerOK, IsForm
  <1>10. FormOK' /\ VersionOK'
    BY <1>2, <1>7 DEF WorkflowInv, FormOK, VersionOK, IsForm, Sent
  <1>11. AloneOK'
    <2>1. ~shared => /\ \A v \in Runner \ {w} : runner[v].at = "idle"
                     /\ run.status = "running" /\ form # "open"
      BY <1>2 DEF WorkflowInv, AloneOK, Active, Settled
    <2> QED
      BY <1>2, <1>5, <1>6, <2>1 DEF AloneOK, Active
  <1>12. SentOK'
    <2> SUFFICES ASSUME ~shared PROVE SentOK'
      BY <1>2 DEF SentOK
    <2>1. ~Sent(i)
      <3>1. runner[w].done = FinishedPositions /\ Active(w)
        BY <1>2 DEF WorkflowInv, AloneOK, Active
      <3> QED
        BY <1>3, <3>1, DeliverSentIsFinished
    <2>2. \A j \in Pos : Sent(j) => steps'[j] = "ok" \/ (IsForm(j) /\ form = "open")
      BY <1>7, <2>1 DEF WorkflowInv, SentOK
    <2>3. \A v \in Runner : runner'[v].at = "stepping" => v # w /\ runner'[v] = runner[v]
      BY <1>5, <1>6
    <2> QED
      BY <1>2, <2>2, <2>3 DEF WorkflowInv, SentOK, Sent, IsForm
  <1> QED
    BY <1>8, <1>9, <1>10, <1>11, <1>12 DEF WorkflowInv

LEMMA DeliverWorkflowStep == WorkflowInv /\ [WorkflowNext]_workflowVars => WorkflowInv'
  <1> SUFFICES ASSUME WorkflowInv, [WorkflowNext]_workflowVars PROVE WorkflowInv'
    OBVIOUS
  <1>1. CASE UNCHANGED workflowVars
    <2>1. WorkflowTypeOK' /\ VersionOK'
      BY <1>1 DEF workflowVars, WorkflowInv, WorkflowTypeOK, VersionOK
    <2>2. RunnerOK' /\ FormOK'
      BY <1>1 DEF workflowVars, WorkflowInv, RunnerOK, FormOK, Sent, IsForm
    <2>3. AloneOK'
      BY <1>1 DEF workflowVars, WorkflowInv, AloneOK, Active, FinishedPositions
    <2>4. SentOK'
      BY <1>1 DEF workflowVars, WorkflowInv, SentOK, Sent, IsForm
    <2> QED
      BY <2>1, <2>2, <2>3, <2>4 DEF WorkflowInv
  <1>2. CASE \E w \in Runner :
               \/ ClaimRun(w) \/ LoadRun(w) \/ SendStep(w) \/ FormStep(w)
               \/ FormIsThere(w) \/ StepFails(w) \/ FinishRun(w) \/ RunnerDies(w)
    <2>1. PICK w \in Runner :
               \/ ClaimRun(w) \/ LoadRun(w) \/ SendStep(w) \/ FormStep(w)
               \/ FormIsThere(w) \/ StepFails(w) \/ FinishRun(w) \/ RunnerDies(w)
      BY <1>2
    <2> QED
      BY <2>1, DeliverClaimRun, DeliverLoadRun, DeliverSendStep, DeliverFormStep,
         DeliverStepError, DeliverFinishRun, DeliverRunnerDies, Zenon
  <1>3. CASE AnswerForm
    BY <1>3, DeliverAnswerForm
  <1>4. CASE \/ \E limited \in BOOLEAN : Trigger(limited)
             \/ ClaimLapses \/ ExpireForms \/ FormGrowsOld \/ EditWorkflow
             \/ SwitchWorkflow \/ CreatorStops
    BY <1>4, DeliverAroundSteps, Zenon
  <1> QED
    BY <1>1, <1>2, <1>3, <1>4, Zenon DEF WorkflowNext

(* A run carries each step out once, unless two workers had it; what comes *)
(* after a form waits for the answer, whoever had the run; and its steps   *)
(* are those of one version of the workflow (execute, run_step, post_form, *)
(* answer_form).                                                           *)
THEOREM DeliverWorkflowSafety == WorkflowSpec => []WorkflowSafety
  <1>1. WorkflowInv => WorkflowSafety
    <2> SUFFICES ASSUME WorkflowInv PROVE WorkflowSafety
      OBVIOUS
    <2>1. StepOnceUnlessShared
      BY DEF WorkflowInv, SentOK, StepOnceUnlessShared
    <2>2. FormIsWaitedFor
      BY DEF WorkflowInv, FormOK, FormIsWaitedFor, IsForm, Sent
    <2>3. OneVersionUnlessShared
      BY DEF WorkflowInv, SentOK, OneVersionUnlessShared, Sent
    <2> QED
      BY <2>1, <2>2, <2>3 DEF WorkflowInv, WorkflowSafety
  <1> QED
    BY <1>1, DeliverWorkflowInit, DeliverWorkflowStep, PTL DEF WorkflowSpec

(* A run that has ended stays as it ended, and its form is not answered    *)
(* any more, unless two workers had it: nobody is at it any more, and      *)
(* claim_runs, answer_form and expire_forms_in pass it by.                 *)
THEOREM DeliverEndedIsFinal == WorkflowSpec => EndedIsFinalUnlessShared
  <1>1. WorkflowInv /\ [WorkflowNext]_workflowVars =>
            [run.status \in Settled /\ ~shared' =>
                 run'.status = run.status /\ form' = form]_workflowVars
    <2> SUFFICES ASSUME WorkflowInv, WorkflowNext, run.status \in Settled, ~shared'
                 PROVE  run'.status = run.status /\ form' = form
      OBVIOUS
    <2>1. CASE \E w \in Runner : ClaimRun(w)
      BY <2>1 DEF ClaimRun, MayClaimRun, Settled
    <2>2. CASE \E w \in Runner : LoadRun(w) \/ SendStep(w) \/ FormIsThere(w) \/ StepFails(w)
                                \/ RunnerDies(w)
      BY <2>2 DEF LoadRun, SendStep, FormIsThere, StepFails, StepError, RunnerDies
    <2>3. CASE \E w \in Runner : FormStep(w) \/ FinishRun(w)
      <3>1. PICK w \in Runner : FormStep(w) \/ FinishRun(w)
        BY <2>3
      <3>2. ~shared /\ Active(w)
        BY <3>1 DEF FormStep, FinishRun, Active
      <3> QED
        BY <3>2 DEF WorkflowInv, AloneOK, Settled
    <2>4. CASE \E limited \in BOOLEAN : Trigger(limited)
      BY <2>4 DEF Trigger, Settled
    <2>5. CASE ClaimLapses \/ AnswerForm \/ ExpireForms
      BY <2>5 DEF ClaimLapses, AnswerForm, TakesAnswer, ExpireForms, Expires, Settled
    <2>6. CASE FormGrowsOld \/ EditWorkflow \/ SwitchWorkflow \/ CreatorStops
      BY <2>6 DEF FormGrowsOld, EditWorkflow, SwitchWorkflow, CreatorStops
    <2> QED
      BY <2>1, <2>2, <2>3, <2>4, <2>5, <2>6 DEF WorkflowNext
  <1> QED
    BY <1>1, DeliverWorkflowInit, DeliverWorkflowStep, PTL
    DEF WorkflowSpec, EndedIsFinalUnlessShared

-----------------------------------------------------------------------------
(* The call log. *)

CallSpec == CallInit /\ [][CallNext]_callVars

EntryType == [user : Caller, joins : BOOLEAN]
Doing == {"read", "handle", "count", "end", "ack"}
ScribeType == [does : Doing, batch : Seq(1..MaxEntries)]

(* Worker w has written the entry i, or failed to. *)
Past(w, i) == scribe[w].does \in {"count", "end", "ack"} /\ Entry(w) = i

(* What is at work, acknowledged or written was delivered. *)
DeliveredOK ==
    /\ cursor <= Len(calls) + 1 /\ Len(calls) <= MaxEntries
    /\ acked \subseteq 1..(cursor - 1)
    /\ \A u \in Caller : written[u] < cursor
    /\ \A w \in Scribe : \A k \in DOMAIN scribe[w].batch : scribe[w].batch[k] \in 1..(cursor - 1)

(* Whoever is about to end the session counted nobody, and nobody was      *)
(* written since.                                                          *)
EndOK ==
    /\ endings = IF session = "ended" THEN 1 ELSE 0
    /\ session = "ended" \/ (\E w \in Scribe : scribe[w].does = "end") =>
           joinRaced \/ NobodyLeft

(* The row of a user says what the last entry written said ...             *)
WrittenOK ==
    \A u \in Caller \ (disordered \cup unwritten) :
        /\ written[u] = 0 => participant[u] = "none"
        /\ written[u] > 0 =>
               /\ calls[written[u]].user = u
               /\ participant[u] = "in" <=> calls[written[u]].joins

(* ... and that was the last one that anybody is done with.                *)
AckedOK ==
    \A i \in 1..(cursor - 1) :
        \/ calls[i].user \in disordered \cup unwritten
        \/ (i \in acked \/ \E w \in Scribe : Past(w, i)) => i <= written[calls[i].user]

CallInv == CallTypeOK /\ DeliveredOK /\ EndOK /\ WrittenOK /\ AckedOK

LEMMA DeliverCallTypes ==
    ASSUME CallTypeOK
    PROVE  /\ calls \in Seq(EntryType) /\ cursor \in Nat /\ cursor >= 1 /\ Len(calls) \in Nat
           /\ scribe \in [Scribe -> ScribeType] /\ participant \in [Caller -> {"none", "in", "out"}]
           /\ written \in [Caller -> 0..MaxEntries] /\ \A u \in Caller : written[u] \in Nat
           /\ disordered \subseteq Caller /\ unwritten \subseteq Caller
           /\ joinRaced \in BOOLEAN /\ logFaults \in 0..MaxLogFaults /\ endings \in Nat
           /\ session \in {"open", "ended"}
           /\ \A w \in Scribe : scribe[w].does = "read" <=> scribe[w].batch = <<>>
  BY CallLogAssumption DEF CallTypeOK, EntryType, ScribeType, Doing

LEMMA DeliverEntry ==
    ASSUME CallInv, NEW w \in Scribe, scribe[w].does # "read"
    PROVE  /\ Entry(w) \in 1..(cursor - 1) /\ Entry(w) \in 1..Len(calls)
           /\ Entry(w) \in 1..MaxEntries
           /\ calls[Entry(w)] \in EntryType /\ calls[Entry(w)].user \in Caller
  <1>1. /\ scribe[w].batch \in Seq(1..MaxEntries) /\ scribe[w].batch # <<>>
        /\ calls \in Seq(EntryType) /\ Len(calls) \in Nat /\ cursor \in Nat
    BY DeliverCallTypes DEF CallInv, ScribeType
  <1>2. Entry(w) = scribe[w].batch[1] /\ 1 \in DOMAIN scribe[w].batch
    BY <1>1 DEF Entry
  <1>3. Entry(w) \in 1..(cursor - 1)
    BY <1>2 DEF CallInv, DeliveredOK
  <1>4. cursor <= Len(calls) + 1 /\ Len(calls) <= MaxEntries
    BY DEF CallInv, DeliveredOK
  <1>5. Entry(w) \in 1..Len(calls) /\ Entry(w) \in 1..MaxEntries
    BY <1>1, <1>3, <1>4, CallLogAssumption
  <1>6. calls[Entry(w)] \in EntryType
    BY <1>1, <1>5
  <1> QED
    BY <1>3, <1>5, <1>6 DEF EntryType

LEMMA DeliverDoes ==
    ASSUME CallInv, NEW w \in Scribe, scribe[w].does # "read",
           NEW step \in {"count", "end", "ack"}, Does(w, step)
    PROVE  /\ scribe' \in [Scribe -> ScribeType]
           /\ \A v \in Scribe : scribe'[v].batch = scribe[v].batch /\ Entry(v)' = Entry(v)
           /\ scribe'[w].does = step /\ \A v \in Scribe \ {w} : scribe'[v] = scribe[v]
           /\ \A v \in Scribe : scribe'[v].does = "read" <=> scribe'[v].batch = <<>>
  <1> DEFINE r == [scribe[w] EXCEPT !.does = step]
  <1>1. /\ scribe \in [Scribe -> ScribeType] /\ scribe[w] \in ScribeType
        /\ \A v \in Scribe : scribe[v].does = "read" <=> scribe[v].batch = <<>>
    BY DeliverCallTypes DEF CallInv
  <1>2. r \in ScribeType /\ r.does = step /\ r.batch = scribe[w].batch
    BY <1>1 DEF ScribeType, Doing
  <1>3. scribe' = [scribe EXCEPT ![w] = r]
    BY DEF Does
  <1> HIDE DEF r
  <1>4. scribe' \in [Scribe -> ScribeType] /\ scribe'[w] = r
        /\ \A v \in Scribe \ {w} : scribe'[v] = scribe[v]
    BY <1>1, <1>2, <1>3
  <1>5. \A v \in Scribe : scribe'[v].batch = scribe[v].batch
    BY <1>2, <1>4
  <1> QED
    BY <1>1, <1>2, <1>4, <1>5 DEF Entry

LEMMA DeliverCallInit == CallInit => CallInv
  <1> SUFFICES ASSUME CallInit PROVE CallInv
    OBVIOUS
  <1> USE CallLogAssumption DEF CallInit
  <1>1. Resting \in ScribeType /\ Resting.does = "read" /\ Resting.batch = <<>>
    BY DEF Resting, ScribeType, Doing
  <1>2. joinRaced \in BOOLEAN
    BY Zenon
  <1>3. scribe \in [Scribe -> ScribeType] /\ \A w \in Scribe : scribe[w] = Resting
    BY <1>1
  <1>4. CallTypeOK
    BY <1>1, <1>2, <1>3 DEF CallTypeOK, ScribeType, Doing
  <1>5. Len(calls) = 0 /\ cursor = 1 /\ acked = {} /\ \A u \in Caller : written[u] = 0
    OBVIOUS
  <1>6. \A w \in Scribe : DOMAIN scribe[w].batch = {} /\ scribe[w].does = "read"
    BY <1>1, <1>3
  <1>7. DeliveredOK
    BY <1>5, <1>6 DEF DeliveredOK
  <1>8. EndOK
    BY <1>6 DEF EndOK
  <1>9. WrittenOK
    BY DEF WrittenOK
  <1>10. AckedOK
    BY <1>5 DEF AckedOK
  <1> QED
    BY <1>4, <1>7, <1>8, <1>9, <1>10 DEF CallInv

(* publish_huddle *)
LEMMA DeliverTellCall ==
    ASSUME CallInv, NEW u \in Caller, TellCall(u)
    PROVE  CallInv'
  <1> USE CallLogAssumption
  <1> DEFINE e == [user |-> u, joins |-> ~InCall(u)]
  <1>1. /\ UNCHANGED <<cursor, acked, scribe, participant, session, endings, written, disordered,
                       unwritten, joinRaced, logFaults>>
        /\ calls' = Append(calls, e) /\ Len(calls) < MaxEntries
    BY DEF TellCall
  <1>2. CallTypeOK /\ calls \in Seq(EntryType) /\ Len(calls) \in Nat /\ cursor \in Nat
        /\ \A v \in Caller : written[v] \in Nat
    BY DeliverCallTypes DEF CallInv
  <1>3. e \in EntryType
    <2>1. (~InCall(u)) \in BOOLEAN
      BY Zenon
    <2> HIDE DEF InCall
    <2> QED
      BY <2>1 DEF EntryType
  <1> HIDE DEF e
  <1>4. /\ calls' \in Seq(EntryType) /\ Len(calls') = Len(calls) + 1
        /\ \A i \in 1..Len(calls) : calls'[i] = calls[i]
    BY <1>1, <1>2, <1>3
  <1>5. CallTypeOK'
    BY <1>1, <1>2, <1>4 DEF CallTypeOK, EntryType
  <1>6. cursor <= Len(calls) + 1 /\ \A v \in Caller : written[v] < cursor
    BY DEF CallInv, DeliveredOK
  <1>7. DeliveredOK'
    BY <1>1, <1>2, <1>4 DEF CallInv, DeliveredOK
  <1>8. EndOK'
    BY <1>1 DEF CallInv, EndOK, NobodyLeft
  <1>9. WrittenOK'
    <2>1. \A v \in Caller : written[v] > 0 => calls'[written[v]] = calls[written[v]]
      BY <1>2, <1>4, <1>6
    <2> QED
      BY <1>1, <2>1, ZenonT(40) DEF CallInv, WrittenOK
  <1>10. AckedOK'
    <2>1. \A i \in 1..(cursor - 1) : calls'[i] = calls[i]
      BY <1>2, <1>4, <1>6
    <2> QED
      BY <1>1, <2>1 DEF CallInv, AckedOK, Past, Entry
  <1> QED
    BY <1>5, <1>7, <1>8, <1>9, <1>10 DEF CallInv

LEMMA DeliverWider ==
    ASSUME NEW a \in Nat, NEW b \in Nat, a <= b
    PROVE  \A k \in 1..(a - 1) : k \in 1..(b - 1)
  OBVIOUS

(* What is delivered, to a worker that rested, changes nothing that was   *)
(* written: the entries are at work now, and none of them done.            *)
LEMMA DeliverTaken ==
    ASSUME CallInv, NEW w \in Scribe, NEW b \in Seq(1..MaxEntries), b # <<>>,
           scribe' = [scribe EXCEPT ![w] = [does |-> "handle", batch |-> b]],
           cursor' \in Nat, cursor <= cursor', cursor' <= Len(calls) + 1,
           \A k \in DOMAIN b : b[k] \in 1..(cursor' - 1),
           logFaults' \in 0..MaxLogFaults,
           UNCHANGED <<calls, acked, participant, session, endings, written, disordered, unwritten,
                       joinRaced>>
    PROVE  CallInv'
  <1> USE CallLogAssumption
  <1> DEFINE r == [does |-> "handle", batch |-> b]
  <1>1. /\ CallTypeOK /\ scribe \in [Scribe -> ScribeType] /\ cursor \in Nat /\ cursor >= 1
        /\ Len(calls) \in Nat /\ calls \in Seq(EntryType)
        /\ \A v \in Caller : written[v] \in Nat
        /\ \A v \in Scribe : scribe[v].does = "read" <=> scribe[v].batch = <<>>
    BY DeliverCallTypes DEF CallInv
  <1>2. r \in ScribeType /\ r.does = "handle" /\ r.batch = b
    BY DEF ScribeType, Doing
  <1> HIDE DEF r
  <1>3. /\ scribe' \in [Scribe -> ScribeType] /\ scribe'[w] = r
        /\ \A v \in Scribe \ {w} : scribe'[v] = scribe[v]
    BY <1>1, <1>2 DEF r
  <1>4. cursor <= Len(calls) + 1 /\ Len(calls) <= MaxEntries /\ acked \subseteq 1..(cursor - 1)
    BY DEF CallInv, DeliveredOK
  <1>5. \A v \in Scribe : scribe'[v].does = "read" <=> scribe'[v].batch = <<>>
    BY <1>1, <1>2, <1>3
  <1>6. cursor' \in 1..(MaxEntries + 1)
    BY <1>1, <1>4
  <1>7. CallTypeOK'
    BY <1>1, <1>3, <1>5, <1>6 DEF CallTypeOK, ScribeType, Doing
  <1>8. DeliveredOK'
    <2>1. \A k \in 1..(cursor - 1) : k \in 1..(cursor' - 1)
      BY <1>1, DeliverWider
    <2>2. \A v \in Caller : written[v] < cursor'
      BY <1>1 DEF CallInv, DeliveredOK
    <2>3. \A v \in Scribe : \A k \in DOMAIN scribe'[v].batch : scribe'[v].batch[k] \in 1..(cursor' - 1)
      BY <1>2, <1>3, <2>1 DEF CallInv, DeliveredOK
    <2> QED
      BY <1>4, <2>1, <2>2, <2>3 DEF DeliveredOK
  <1>9. EndOK'
    <2>1. \A v \in Scribe : scribe'[v].does = "end" => scribe[v].does = "end"
      BY <1>2, <1>3
    <2> QED
      BY <2>1 DEF CallInv, EndOK, NobodyLeft
  <1>10. WrittenOK'
    BY DEF CallInv, WrittenOK
  <1>11. AckedOK'
    <2>1. \A v \in Scribe, i \in Nat : Past(v, i)' => Past(v, i) /\ scribe[v].does # "read"
      BY <1>2, <1>3 DEF Past, Entry
    <2>2. \A v \in Scribe, i \in Nat : Past(v, i)' => i \in 1..(cursor - 1)
      BY <2>1, DeliverEntry DEF Past
    <2>3. \A i \in 1..(cursor' - 1) : i \in Nat
      BY <1>1
    <2> QED
      BY <1>4, <2>1, <2>2, <2>3 DEF CallInv, AckedOK
  <1> QED
    BY <1>7, <1>8, <1>9, <1>10, <1>11 DEF CallInv

(* next_batch *)
LEMMA DeliverReadBatch ==
    ASSUME CallInv, NEW w \in Scribe, ReadBatch(w)
    PROVE  CallInv'
  <1>1. PICK n \in 1..MaxBatch :
            /\ cursor + n - 1 <= Len(calls)
            /\ scribe' = [scribe EXCEPT ![w] = [does |-> "handle",
                                                batch |-> [i \in 1..n |-> cursor + i - 1]]]
            /\ cursor' = cursor + n
    BY DEF ReadBatch
  <1> DEFINE b == [i \in 1..n |-> cursor + i - 1]
  <1>2. /\ cursor \in Nat /\ cursor >= 1 /\ Len(calls) \in Nat /\ logFaults \in 0..MaxLogFaults
        /\ Len(calls) <= MaxEntries /\ n \in Nat /\ n >= 1 /\ MaxEntries \in Nat
    BY DeliverCallTypes, CallLogAssumption DEF CallInv, DeliveredOK
  <1>3. b \in Seq(1..MaxEntries) /\ DOMAIN b = 1..n /\ Len(b) = n
    <2>1. \A i \in 1..n : cursor + i - 1 \in 1..MaxEntries
      BY <1>1, <1>2
    <2> QED
      BY <1>2, <2>1
  <1>4. \A k \in DOMAIN b : b[k] \in 1..(cursor' - 1)
    BY <1>1, <1>2, <1>3
  <1>5. b # <<>>
    BY <1>2, <1>3
  <1>6. scribe' = [scribe EXCEPT ![w] = [does |-> "handle", batch |-> b]]
    BY <1>1
  <1>7. cursor' \in Nat /\ cursor <= cursor' /\ cursor' <= Len(calls) + 1
    BY <1>1, <1>2
  <1> HIDE DEF b
  <1> QED
    BY <1>2, <1>3, <1>4, <1>5, <1>6, <1>7, DeliverTaken DEF ReadBatch

(* next_batch, of what is pending *)
LEMMA DeliverReclaim ==
    ASSUME CallInv, NEW w \in Scribe, Reclaim(w)
    PROVE  CallInv'
  <1>1. PICK i \in 1..(cursor - 1) :
            /\ scribe' = [scribe EXCEPT ![w] = [does |-> "handle", batch |-> <<i>>]]
            /\ UNCHANGED logFaults \/ LogFault
    BY DEF Reclaim
  <1> DEFINE b == <<i>>
  <1>2. /\ cursor \in Nat /\ cursor >= 1 /\ Len(calls) \in Nat /\ logFaults \in 0..MaxLogFaults
        /\ Len(calls) <= MaxEntries /\ cursor <= Len(calls) + 1 /\ MaxEntries \in Nat
    BY DeliverCallTypes, CallLogAssumption DEF CallInv, DeliveredOK
  <1>3. b \in Seq(1..MaxEntries) /\ b # <<>> /\ DOMAIN b = {1} /\ b[1] = i
    <2>1. i \in 1..MaxEntries
      BY <1>1, <1>2
    <2> QED
      BY <2>1
  <1>4. \A k \in DOMAIN b : b[k] \in 1..(cursor - 1)
    BY <1>3
  <1>5. logFaults' \in 0..MaxLogFaults
    BY <1>1, <1>2, CallLogAssumption DEF LogFault
  <1>6. scribe' = [scribe EXCEPT ![w] = [does |-> "handle", batch |-> b]]
    BY <1>1
  <1>7. UNCHANGED <<calls, cursor, acked, participant, session, endings, written, disordered,
                    unwritten, joinRaced>>
    BY DEF Reclaim
  <1>8. cursor' \in Nat /\ cursor <= cursor' /\ cursor' <= Len(calls) + 1
    BY <1>2, <1>7
  <1> HIDE DEF b
  <1>9. \A k \in DOMAIN b : b[k] \in 1..(cursor' - 1)
    BY <1>4, <1>7
  <1> QED
    BY <1>3, <1>5, <1>6, <1>7, <1>8, <1>9, DeliverTaken

(* The worker's step is another one, and nothing is written: the count, and *)
(* the acknowledgement of what is done.                                     *)
LEMMA DeliverCountLeft ==
    ASSUME CallInv, NEW w \in Scribe, CountLeft(w)
    PROVE  CallInv'
  <1> DEFINE step == IF NobodyLeft THEN "end" ELSE "ack"
  <1>1. /\ UNCHANGED <<calls, cursor, acked, participant, session, endings, written, disordered,
                       unwritten, joinRaced, logFaults>>
        /\ scribe[w].does = "count" /\ Does(w, step)
    BY DEF CountLeft
  <1>2. step \in {"count", "end", "ack"} /\ (step = "end" => NobodyLeft)
    OBVIOUS
  <1> HIDE DEF step
  <1>3. /\ scribe' \in [Scribe -> ScribeType]
        /\ \A v \in Scribe : scribe'[v].batch = scribe[v].batch /\ Entry(v)' = Entry(v)
        /\ scribe'[w].does = step /\ \A v \in Scribe \ {w} : scribe'[v] = scribe[v]
        /\ \A v \in Scribe : scribe'[v].does = "read" <=> scribe'[v].batch = <<>>
    BY <1>1, <1>2, DeliverDoes
  <1>4. CallTypeOK'
    BY <1>1, <1>3 DEF CallInv, CallTypeOK, ScribeType, Doing
  <1>5. DeliveredOK'
    BY <1>1, <1>3 DEF CallInv, DeliveredOK
  <1>6. EndOK'
    <2>1. (\E v \in Scribe : scribe'[v].does = "end") =>
              NobodyLeft \/ \E v \in Scribe : scribe[v].does = "end"
      BY <1>2, <1>3
    <2> QED
      BY <1>1, <2>1 DEF CallInv, EndOK, NobodyLeft
  <1>7. WrittenOK'
    BY <1>1 DEF CallInv, WrittenOK
  <1>8. AckedOK'
    <2>1. \A v \in Scribe, i \in 1..(cursor - 1) : Past(v, i)' => Past(v, i)
      BY <1>1, <1>3 DEF Past
    <2> QED
      BY <1>1, <2>1 DEF CallInv, AckedOK
  <1> QED
    BY <1>4, <1>5, <1>6, <1>7, <1>8 DEF CallInv

LEMMA DeliverTail ==
    ASSUME NEW S, NEW b \in Seq(S), b # <<>>, Len(b) # 1
    PROVE  /\ Tail(b) \in Seq(S) /\ Tail(b) # <<>>
           /\ \A k \in DOMAIN Tail(b) : k + 1 \in DOMAIN b /\ Tail(b)[k] = b[k + 1]
  <1>1. Len(b) \in Nat /\ Len(b) # 0 /\ DOMAIN b = 1..Len(b)
    OBVIOUS
  <1>2. Tail(b) \in Seq(S) /\ Len(Tail(b)) = Len(b) - 1
    BY <1>1
  <1>3. DOMAIN Tail(b) = 1..(Len(b) - 1)
    BY <1>2
  <1>4. \A k \in 1..(Len(b) - 1) : k + 1 \in 1..Len(b) /\ Tail(b)[k] = b[k + 1]
    BY <1>1
  <1>5. Len(Tail(b)) # 0
    BY <1>1, <1>2
  <1>6. Tail(b) # <<>>
    <2>1. Len(<<>>) = 0
      OBVIOUS
    <2> QED
      BY <1>5, <2>1, Zenon
  <1> QED
    BY <1>1, <1>2, <1>3, <1>4, <1>6

(* A worker that is through with its first entry, or dies. *)
LEMMA DeliverScribeRests ==
    ASSUME CallInv, NEW w \in Scribe, AckEntry(w) \/ ScribeDies(w)
    PROVE  CallInv'
  <1> USE CallLogAssumption
  <1>1. /\ CallTypeOK /\ scribe \in [Scribe -> ScribeType] /\ logFaults \in 0..MaxLogFaults
        /\ \A v \in Scribe : scribe[v].does = "read" <=> scribe[v].batch = <<>>
        /\ scribe[w] \in ScribeType
    BY DeliverCallTypes DEF CallInv
  <1>2. UNCHANGED <<calls, cursor, participant, session, endings, written, disordered, unwritten,
                    joinRaced>>
    BY DEF AckEntry, ScribeDies
  <1>3. logFaults' \in 0..MaxLogFaults
    BY <1>1 DEF AckEntry, ScribeDies, LogFault
  <1>4. \A i \in acked' : i \in acked \/ Past(w, i)
    BY DEF AckEntry, ScribeDies, Past
  <1>5. acked' \subseteq 1..(cursor - 1) /\ acked' \subseteq 1..MaxEntries
    <2>1. CASE AckEntry(w)
      <3>1. Entry(w) \in 1..(cursor - 1) /\ Entry(w) \in 1..MaxEntries
        BY <2>1, DeliverEntry DEF AckEntry
      <3> QED
        BY <2>1, <3>1 DEF AckEntry, CallInv, DeliveredOK, CallTypeOK
    <2>2. CASE ScribeDies(w)
      BY <2>2 DEF ScribeDies, CallInv, DeliveredOK, CallTypeOK
    <2> QED
      BY <2>1, <2>2
  <1>6. Resting \in ScribeType /\ Resting.does = "read" /\ Resting.batch = <<>>
    BY DEF Resting, ScribeType, Doing
  <1>7. PICK r \in ScribeType :
            /\ scribe' = [scribe EXCEPT ![w] = r]
            /\ r.does \in {"read", "handle"}
            /\ r.does = "read" <=> r.batch = <<>>
            /\ \A k \in DOMAIN r.batch : r.batch[k] \in 1..(cursor - 1)
    <2>1. CASE scribe' = [scribe EXCEPT ![w] = Resting]
      <3>1. DOMAIN Resting.batch = {}
        BY <1>6
      <3> QED
        BY <1>6, <2>1, <3>1
    <2>2. CASE AckEntry(w) /\ Len(scribe[w].batch) # 1
      <3> DEFINE b == scribe[w].batch
                 r == [does |-> "handle", batch |-> Tail(b)]
      <3>1. b \in Seq(1..MaxEntries) /\ b # <<>> /\ Len(b) # 1
        BY <1>1, <2>2 DEF AckEntry, ScribeType
      <3>2. \A k \in DOMAIN b : b[k] \in 1..(cursor - 1)
        BY DEF CallInv, DeliveredOK
      <3>3. scribe' = [scribe EXCEPT ![w] = r]
        BY <2>2 DEF AckEntry
      <3> HIDE DEF b
      <3>4. /\ Tail(b) \in Seq(1..MaxEntries) /\ Tail(b) # <<>>
            /\ \A k \in DOMAIN Tail(b) : k + 1 \in DOMAIN b /\ Tail(b)[k] = b[k + 1]
        BY <3>1, DeliverTail
      <3>5. r \in ScribeType /\ r.does = "handle" /\ r.batch = Tail(b)
        BY <3>4 DEF ScribeType, Doing
      <3> HIDE DEF r
      <3>6. \A k \in DOMAIN r.batch : r.batch[k] \in 1..(cursor - 1)
        BY <3>2, <3>4, <3>5
      <3> QED
        BY <3>3, <3>4, <3>5, <3>6
    <2> QED
      BY <2>1, <2>2 DEF AckEntry, ScribeDies
  <1>8. /\ scribe' \in [Scribe -> ScribeType] /\ scribe'[w] = r
        /\ \A v \in Scribe \ {w} : scribe'[v] = scribe[v]
    BY <1>1, <1>7
  <1>9. \A v \in Scribe : scribe'[v].does = "read" <=> scribe'[v].batch = <<>>
    BY <1>1, <1>7, <1>8
  <1>10. CallTypeOK'
    BY <1>1, <1>2, <1>3, <1>5, <1>8, <1>9 DEF CallTypeOK, ScribeType, Doing
  <1>11. DeliveredOK'
    <2>1. \A v \in Scribe : \A k \in DOMAIN scribe'[v].batch : scribe'[v].batch[k] \in 1..(cursor - 1)
      BY <1>7, <1>8 DEF CallInv, DeliveredOK
    <2> QED
      BY <1>2, <1>5, <2>1 DEF CallInv, DeliveredOK
  <1>12. EndOK'
    <2>1. \A v \in Scribe : scribe'[v].does = "end" => scribe[v].does = "end"
      BY <1>7, <1>8
    <2> QED
      BY <1>2, <2>1 DEF CallInv, EndOK, NobodyLeft
  <1>13. WrittenOK'
    BY <1>2 DEF CallInv, WrittenOK
  <1>14. AckedOK'
    <2>1. \A v \in Scribe, i \in 1..(cursor - 1) : Past(v, i)' => Past(v, i)
      BY <1>7, <1>8 DEF Past, Entry
    <2> QED
      BY <1>2, <1>4, <2>1 DEF CallInv, AckedOK
  <1> QED
    BY <1>10, <1>11, <1>12, <1>13, <1>14 DEF CallInv

(* A write that fails: nothing changes but that it is remembered. *)
LEMMA DeliverFails ==
    ASSUME CallInv, NEW w \in Scribe, scribe[w].does # "read", Does(w, "ack"),
           unwritten' \subseteq Caller, unwritten \subseteq unwritten',
           calls[Entry(w)].user \in unwritten', LogFault,
           UNCHANGED <<calls, cursor, acked, participant, session, endings, written, disordered,
                       joinRaced>>
    PROVE  CallInv'
  <1>1. /\ scribe' \in [Scribe -> ScribeType]
        /\ \A v \in Scribe : scribe'[v].batch = scribe[v].batch /\ Entry(v)' = Entry(v)
        /\ scribe'[w].does = "ack" /\ \A v \in Scribe \ {w} : scribe'[v] = scribe[v]
        /\ \A v \in Scribe : scribe'[v].does = "read" <=> scribe'[v].batch = <<>>
    BY DeliverDoes
  <1>2. logFaults' \in 0..MaxLogFaults
    <2>1. logFaults \in 0..MaxLogFaults
      BY DeliverCallTypes DEF CallInv
    <2> QED
      BY <2>1, CallLogAssumption DEF LogFault
  <1>3. CallTypeOK'
    BY <1>1, <1>2 DEF CallInv, CallTypeOK, ScribeType, Doing
  <1>4. DeliveredOK'
    BY <1>1 DEF CallInv, DeliveredOK
  <1>5. EndOK'
    <2>1. \A v \in Scribe : scribe'[v].does = "end" => scribe[v].does = "end"
      BY <1>1
    <2> QED
      BY <2>1 DEF CallInv, EndOK, NobodyLeft
  <1>6. WrittenOK'
    BY DEF CallInv, WrittenOK
  <1>7. AckedOK'
    <2>1. \A v \in Scribe, i \in 1..(cursor - 1) :
              Past(v, i)' => Past(v, i) \/ calls[i].user \in unwritten'
      BY <1>1 DEF Past
    <2> QED
      BY <2>1 DEF CallInv, AckedOK
  <1> QED
    BY <1>3, <1>4, <1>5, <1>6, <1>7 DEF CallInv

(* The row of a user is written for an entry: it says what the entry says. *)
LEMMA DeliverWrites ==
    ASSUME CallInv, NEW w \in Scribe, scribe[w].does = "handle", Writes(w),
           NEW step \in {"count", "ack"}, Does(w, step),
           UNCHANGED <<calls, cursor, acked, session, endings, unwritten, logFaults>>,
           participant' \in [Caller -> {"none", "in", "out"}],
           \A v \in Caller \ {calls[Entry(w)].user} : participant'[v] = participant[v],
           participant'[calls[Entry(w)].user] = "in" <=> calls[Entry(w)].joins,
           joinRaced' \in BOOLEAN
    PROVE  CallTypeOK' /\ DeliveredOK' /\ WrittenOK' /\ AckedOK'
  <1> DEFINE e == Entry(w)
             u == calls[e].user
  <1>1. /\ e \in 1..(cursor - 1) /\ e \in 1..MaxEntries /\ u \in Caller
    BY DeliverEntry
  <1>2. /\ scribe' \in [Scribe -> ScribeType]
        /\ \A v \in Scribe : scribe'[v].batch = scribe[v].batch /\ Entry(v)' = Entry(v)
        /\ scribe'[w].does = step /\ \A v \in Scribe \ {w} : scribe'[v] = scribe[v]
        /\ \A v \in Scribe : scribe'[v].does = "read" <=> scribe'[v].batch = <<>>
    BY DeliverDoes
  <1>3. /\ CallTypeOK /\ cursor \in Nat /\ written \in [Caller -> 0..MaxEntries]
        /\ disordered \subseteq Caller /\ written[u] \in Nat
    BY <1>1, DeliverCallTypes DEF CallInv
  <1>4. /\ written' = [written EXCEPT ![u] = e]
        /\ disordered' = IF written[u] > e THEN disordered \cup {u} ELSE disordered
    BY DEF Writes
  <1>5. /\ participant'[u] = "in" <=> calls[e].joins
        /\ \A v \in Caller \ {u} : participant'[v] = participant[v]
    OBVIOUS
  <1>6. \A v \in Scribe, i \in 1..(cursor - 1) : Past(v, i)' => Past(v, i) \/ i = e
    BY <1>2 DEF Past
  <1> HIDE DEF e, u
  <1>7. /\ written' \in [Caller -> 0..MaxEntries] /\ written'[u] = e /\ e \in Nat /\ e > 0
        /\ \A v \in Caller \ {u} : written'[v] = written[v]
        /\ disordered' \subseteq Caller /\ disordered \subseteq disordered'
        /\ u \notin disordered' => written[u] <= e
    BY <1>1, <1>3, <1>4, CallLogAssumption
  <1>8. calls[e].user = u
    BY DEF u
  <1>9. CallTypeOK'
    BY <1>2, <1>3, <1>7 DEF CallTypeOK, ScribeType, Doing
  <1>10. DeliveredOK'
    <2>1. \A v \in Caller : written'[v] < cursor
      BY <1>1, <1>3, <1>7 DEF CallInv, DeliveredOK
    <2> QED
      BY <1>2, <2>1 DEF CallInv, DeliveredOK
  <1>11. WrittenOK'
    <2> SUFFICES ASSUME NEW v \in Caller, v \notin disordered', v \notin unwritten
                 PROVE  /\ written'[v] = 0 => participant'[v] = "none"
                        /\ written'[v] > 0 =>
                               /\ calls[written'[v]].user = v
                               /\ participant'[v] = "in" <=> calls[written'[v]].joins
      BY DEF WrittenOK
    <2>1. CASE v = u
      BY <1>5, <1>7, <1>8, <2>1
    <2>2. CASE v # u
      BY <1>5, <1>7, <2>2 DEF CallInv, WrittenOK
    <2> QED
      BY <2>1, <2>2
  <1>12. AckedOK'
    <2> SUFFICES ASSUME NEW i \in 1..(cursor - 1), calls[i].user \notin disordered',
                        calls[i].user \notin unwritten,
                        i \in acked \/ \E v \in Scribe : Past(v, i)'
                 PROVE  i <= written'[calls[i].user]
      BY DEF AckedOK
    <2>1. CASE i = e
      BY <1>7, <1>8, <2>1
    <2>2. CASE i # e
      <3>1. i <= written[calls[i].user]
        BY <1>6, <1>7, <2>2 DEF CallInv, AckedOK
      <3>2. calls[i].user \in Caller /\ i \in Nat
        <4>1. /\ calls \in Seq(EntryType) /\ Len(calls) \in Nat /\ cursor <= Len(calls) + 1
          BY DeliverCallTypes DEF CallInv, DeliveredOK
        <4>2. i \in 1..Len(calls)
          BY <1>3, <4>1
        <4>3. calls[i] \in EntryType
          BY <4>1, <4>2
        <4> QED
          BY <4>2, <4>3 DEF EntryType
      <3>3. CASE calls[i].user = u
        BY <1>3, <1>7, <3>1, <3>2, <3>3
      <3>4. CASE calls[i].user # u
        BY <1>7, <3>1, <3>2, <3>4
      <3> QED
        BY <3>3, <3>4
    <2> QED
      BY <2>1, <2>2
  <1> QED
    BY <1>9, <1>10, <1>11, <1>12

(* handle, of a join *)
LEMMA DeliverRecordJoin ==
    ASSUME CallInv, NEW w \in Scribe, RecordJoin(w)
    PROVE  CallInv'
  <1> DEFINE u == calls[Entry(w)].user
  <1>1. /\ scribe[w].does = "handle" /\ calls[Entry(w)].joins /\ Does(w, "ack")
        /\ UNCHANGED <<calls, cursor, acked, session, endings>>
    BY DEF RecordJoin
  <1>2. u \in Caller /\ participant \in [Caller -> {"none", "in", "out"}] /\ unwritten \subseteq Caller
    BY <1>1, DeliverEntry, DeliverCallTypes DEF CallInv
  <1>3. CASE /\ participant' = [participant EXCEPT ![u] = "in"] /\ Writes(w)
             /\ joinRaced' = (joinRaced \/ session = "ended" \/ \E v \in Scribe : scribe[v].does = "end")
             /\ UNCHANGED <<unwritten, logFaults>>
    <2>1. joinRaced' \in BOOLEAN
      BY <1>3, Zenon
    <2>2. /\ participant' \in [Caller -> {"none", "in", "out"}] /\ participant'[u] = "in"
          /\ \A v \in Caller \ {u} : participant'[v] = participant[v]
      BY <1>2, <1>3
    <2>3. CallTypeOK' /\ DeliveredOK' /\ WrittenOK' /\ AckedOK'
      BY <1>1, <1>3, <2>1, <2>2, DeliverWrites
    <2>4. \A v \in Scribe : scribe'[v].does = "end" => scribe[v].does = "end"
      BY <1>1, DeliverDoes
    <2>5. session = "ended" \/ (\E v \in Scribe : scribe'[v].does = "end") => joinRaced'
      BY <1>3, <2>4
    <2>6. EndOK'
      BY <1>1, <2>5 DEF CallInv, EndOK
    <2> QED
      BY <2>3, <2>6 DEF CallInv
  <1>4. CASE /\ LogFault /\ unwritten' = unwritten \cup {u}
             /\ UNCHANGED <<participant, written, disordered, joinRaced>>
    BY <1>1, <1>2, <1>4, DeliverFails
  <1> QED
    BY <1>3, <1>4 DEF RecordJoin, Joined

(* handle, of a leave *)
LEMMA DeliverRecordLeave ==
    ASSUME CallInv, NEW w \in Scribe, RecordLeave(w)
    PROVE  CallInv'
  <1> DEFINE u == calls[Entry(w)].user
  <1>1. /\ scribe[w].does = "handle" /\ ~calls[Entry(w)].joins
        /\ UNCHANGED <<calls, cursor, acked, session, endings, joinRaced>>
    BY DEF RecordLeave
  <1>2. /\ u \in Caller /\ participant \in [Caller -> {"none", "in", "out"}]
        /\ unwritten \subseteq Caller /\ joinRaced \in BOOLEAN
    BY <1>1, DeliverEntry, DeliverCallTypes DEF CallInv
  <1>3. CASE /\ participant' = [participant EXCEPT ![u] = IF @ = "in" THEN "out" ELSE @]
             /\ Writes(w) /\ Does(w, "count") /\ UNCHANGED <<unwritten, logFaults>>
    <2>1. /\ participant' \in [Caller -> {"none", "in", "out"}] /\ participant'[u] # "in"
          /\ \A v \in Caller \ {u} : participant'[v] = participant[v]
      BY <1>2, <1>3
    <2>2. CallTypeOK' /\ DeliveredOK' /\ WrittenOK' /\ AckedOK'
      BY <1>1, <1>2, <1>3, <2>1, DeliverWrites
    <2>3. \A v \in Scribe : scribe'[v].does = "end" => scribe[v].does = "end"
      BY <1>1, <1>3, DeliverDoes
    <2>4. NobodyLeft => NobodyLeft'
      BY <2>1 DEF NobodyLeft
    <2>5. EndOK'
      BY <1>1, <2>3, <2>4 DEF CallInv, EndOK
    <2> QED
      BY <2>2, <2>5 DEF CallInv
  <1>4. CASE /\ LogFault /\ unwritten' = unwritten \cup {u} /\ Does(w, "ack")
             /\ UNCHANGED <<participant, written, disordered>>
    BY <1>1, <1>2, <1>4, DeliverFails
  <1> QED
    BY <1>3, <1>4 DEF RecordLeave

(* end_session *)
LEMMA DeliverEndSession ==
    ASSUME CallInv, NEW w \in Scribe, EndSession(w)
    PROVE  CallInv'
  <1>1. /\ scribe[w].does = "end" /\ Does(w, "ack")
        /\ UNCHANGED <<calls, cursor, acked, participant, written, disordered, joinRaced>>
    BY DEF EndSession
  <1>2. CASE /\ session' = "ended" /\ endings' = IF MayEnd THEN endings + 1 ELSE endings
             /\ UNCHANGED <<unwritten, logFaults>>
    <2>1. /\ scribe' \in [Scribe -> ScribeType]
          /\ \A v \in Scribe : scribe'[v].batch = scribe[v].batch /\ Entry(v)' = Entry(v)
          /\ scribe'[w].does = "ack" /\ \A v \in Scribe \ {w} : scribe'[v] = scribe[v]
          /\ \A v \in Scribe : scribe'[v].does = "read" <=> scribe'[v].batch = <<>>
      BY <1>1, DeliverDoes
    <2>2. endings' = 1
      <3>1. session \in {"open", "ended"} /\ endings = IF session = "ended" THEN 1 ELSE 0
        BY DEF CallInv, CallTypeOK, EndOK
      <3> QED
        BY <1>2, <3>1 DEF MayEnd
    <2>3. CallTypeOK'
      BY <1>1, <1>2, <2>1, <2>2 DEF CallInv, CallTypeOK, ScribeType, Doing
    <2>4. DeliveredOK'
      BY <1>1, <2>1 DEF CallInv, DeliveredOK
    <2>5. EndOK'
      BY <1>1, <1>2, <2>2 DEF CallInv, EndOK, NobodyLeft
    <2>6. WrittenOK'
      BY <1>1, <1>2 DEF CallInv, WrittenOK
    <2>7. AckedOK'
      <3>1. \A v \in Scribe, i \in 1..(cursor - 1) : Past(v, i)' => Past(v, i)
        BY <1>1, <2>1 DEF Past
      <3> QED
        BY <1>1, <1>2, <3>1 DEF CallInv, AckedOK
    <2> QED
      BY <2>3, <2>4, <2>5, <2>6, <2>7 DEF CallInv
  <1>3. CASE LogFault /\ unwritten' = Caller /\ UNCHANGED <<session, endings>>
    <2>1. calls[Entry(w)].user \in Caller /\ unwritten \subseteq Caller
      BY <1>1, DeliverEntry, DeliverCallTypes DEF CallInv
    <2> QED
      BY <1>1, <1>3, <2>1, DeliverFails
  <1> QED
    BY <1>2, <1>3 DEF EndSession

LEMMA DeliverCallStep == CallInv /\ [CallNext]_callVars => CallInv'
  <1> SUFFICES ASSUME CallInv, [CallNext]_callVars PROVE CallInv'
    OBVIOUS
  <1>1. CASE UNCHANGED callVars
    <2>1. CallTypeOK' /\ DeliveredOK'
      BY <1>1 DEF callVars, CallInv, CallTypeOK, DeliveredOK
    <2>2. EndOK' /\ WrittenOK'
      BY <1>1 DEF callVars, CallInv, EndOK, WrittenOK, NobodyLeft
    <2>3. AckedOK'
      BY <1>1 DEF callVars, CallInv, AckedOK, Past, Entry
    <2> QED
      BY <2>1, <2>2, <2>3 DEF CallInv
  <1>2. CASE \E u \in Caller : TellCall(u)
    BY <1>2, DeliverTellCall, Zenon
  <1>3. CASE \E w \in Scribe : ScribeStep(w) \/ Reclaim(w) \/ ScribeDies(w)
    <2>1. PICK w \in Scribe : ScribeStep(w) \/ Reclaim(w) \/ ScribeDies(w)
      BY <1>3
    <2> QED
      BY <2>1, DeliverReadBatch, DeliverReclaim, DeliverRecordJoin, DeliverRecordLeave,
         DeliverCountLeft, DeliverEndSession, DeliverScribeRests, Zenon DEF ScribeStep
  <1> QED
    BY <1>1, <1>2, <1>3, Zenon DEF CallNext

(* When everything is acknowledged, the last entry of a user is the one    *)
(* that was written last.                                                  *)
LEMMA DeliverLogIsRight ==
    ASSUME CallInv, 1..Len(calls) \subseteq acked,
           NEW u \in Caller, u \notin disordered, u \notin unwritten
    PROVE  participant[u] = "in" <=> InCall(u)
  <1>1. /\ cursor \in Nat /\ Len(calls) \in Nat /\ written[u] \in Nat /\ calls \in Seq(EntryType)
        /\ acked \subseteq 1..(cursor - 1) /\ written[u] < cursor /\ cursor <= Len(calls) + 1
    BY DeliverCallTypes DEF CallInv, DeliveredOK
  <1>2. DOMAIN calls = 1..Len(calls)
    BY <1>1
  <1>3. \A i \in Entries(u) : i \in Nat /\ 1 <= i /\ i <= written[u]
    <2> TAKE i \in Entries(u)
    <2>1. i \in 1..Len(calls) /\ calls[i].user = u
      BY <1>2 DEF Entries
    <2>2. i \in acked /\ i \in 1..(cursor - 1)
      BY <1>1, <2>1
    <2> QED
      BY <1>1, <2>1, <2>2 DEF CallInv, AckedOK
  <1>4. CASE written[u] = 0
    <2>1. participant[u] = "none"
      BY <1>4 DEF CallInv, WrittenOK
    <2>2. Entries(u) = {}
      BY <1>3, <1>4
    <2> QED
      BY <2>1, <2>2 DEF InCall
  <1>5. CASE written[u] # 0
    <2>1. written[u] > 0 /\ written[u] \in 1..Len(calls)
      BY <1>1, <1>5
    <2>2. calls[written[u]].user = u /\ (participant[u] = "in" <=> calls[written[u]].joins)
      BY <2>1 DEF CallInv, WrittenOK
    <2>3. written[u] \in Entries(u) /\ \A k \in Entries(u) : k <= written[u]
      BY <1>2, <1>3, <2>1, <2>2 DEF Entries
    <2>4. \A i \in Entries(u) : (\A k \in Entries(u) : k <= i) => i = written[u]
      BY <1>1, <1>3, <2>3
    <2> QED
      BY <2>2, <2>3, <2>4 DEF InCall
  <1> QED
    BY <1>4, <1>5

(* The log of a call agrees with who was in it once every entry is         *)
(* acknowledged, through crashes and redeliveries; a session is ended by   *)
(* one worker, and empty (huddle/consumer.rs handle, huddle/repo.rs        *)
(* record_join, record_leave, end_session).                                *)
THEOREM DeliverCallLogSafety == CallSpec => []CallLogSafety
  <1>1. CallInv => CallLogSafety
    <2> SUFFICES ASSUME CallInv PROVE CallLogSafety
      OBVIOUS
    <2>1. LogIsRight
      BY DeliverLogIsRight DEF LogIsRight
    <2>2. EndedOnce
      BY DEF CallInv, EndOK, EndedOnce
    <2>3. EndedIsEmpty
      BY DEF CallInv, EndOK, EndedIsEmpty, NobodyLeft
    <2> QED
      BY <2>1, <2>2, <2>3 DEF CallInv, CallLogSafety
  <1> QED
    BY <1>1, DeliverCallInit, DeliverCallStep, PTL DEF CallSpec

-----------------------------------------------------------------------------
(* The events of an app. *)

AppEventSpec == AppEventInit /\ [][AppEventNext]_appEventVars

DeliveryType == [state : {"open", "delivered", "failed"}, leased : BOOLEAN, ready : BOOLEAN,
                 expired : BOOLEAN, attempts : 0..MaxSends]
PostType == [does : {"wait", "post", "delivered", "retry"}, event : AppEvent \cup {NoEvent}]

Got == ToSet(received)
Held(e) == e \in frames \/ \E p \in Poster : post[p].event = e

(* What is being sent or was received is in the queue. *)
QueueOK ==
    /\ queue \in Seq(AppEvent) /\ received \in Seq(AppEvent)
    /\ Got \subseteq InQueue /\ frames \subseteq InQueue
    /\ \A p \in Poster :
           /\ post[p].event \in InQueue \cup {NoEvent}
           /\ post[p].does # "wait" => post[p].event # NoEvent
           /\ post[p].does = "delivered" => post[p].event \in Got

(* An event is sent when everything before it is settled. *)
BeforeOK ==
    \A a, b \in DOMAIN queue :
        a < b /\ (queue[b] \in Got \/ Held(queue[b])) => delivery[queue[a]].state # "open"

(* An event whose lease has not run out under the send is sent by one only *)
(* and is not settled, before the app has it.                              *)
HeldOK ==
    \A e \in AppEvent \ lapsed : Held(e) /\ e \notin Got =>
        /\ delivery[e].leased /\ delivery[e].state = "open"
        /\ \A p, q \in Poster : post[p].event = e /\ post[q].event = e => p = q
        /\ ~(e \in frames /\ \E p \in Poster : post[p].event = e)

AppEventInv ==
    /\ AppEventTypeOK /\ QueueOK /\ BeforeOK /\ HeldOK
    /\ InOrderUnlessLapsed /\ DeliveredIsReceived

LEMMA DeliverAppTypes ==
    ASSUME AppEventInv
    PROVE  /\ delivery \in [AppEvent -> DeliveryType] /\ post \in [Poster -> PostType]
           /\ frames \subseteq AppEvent /\ lapsed \subseteq AppEvent
           /\ switches \in 0..MaxSwitches /\ queue \in Seq(AppEvent)
           /\ received \in Seq(AppEvent) /\ InQueue \subseteq AppEvent
           /\ {socketMode, failing} \subseteq BOOLEAN /\ IsInjective(queue)
           /\ NoEvent \notin InQueue
  BY AppEventAssumption
  DEF AppEventInv, AppEventTypeOK, QueueOK, DeliveryType, PostType

LEMMA DeliverToSet ==
    ASSUME NEW S, NEW s \in Seq(S), NEW e
    PROVE  ToSet(Append(s, e)) = ToSet(s) \cup {e}
  <1>1. /\ Len(s) \in Nat /\ DOMAIN s = 1..Len(s) /\ DOMAIN Append(s, e) = 1..(Len(s) + 1)
        /\ \A i \in 1..Len(s) : Append(s, e)[i] = s[i]
        /\ Append(s, e)[Len(s) + 1] = e
    OBVIOUS
  <1>2. 1..(Len(s) + 1) = 1..Len(s) \cup {Len(s) + 1}
    BY <1>1
  <1> QED
    BY <1>1, <1>2 DEF ToSet

LEMMA DeliverAppInit == AppEventInit => AppEventInv
  <1> SUFFICES ASSUME AppEventInit PROVE AppEventInv
    OBVIOUS
  <1> USE AppEventAssumption DEF AppEventInit
  <1>1. {socketMode, failing} \subseteq BOOLEAN
    <2>1. failing \in BOOLEAN
      BY Zenon
    <2> QED
      BY <2>1
  <1>2. Unposted \in PostType /\ Unposted.does = "wait" /\ Unposted.event = NoEvent
    BY DEF Unposted, PostType
  <1>3. post \in [Poster -> PostType] /\ \A p \in Poster : post[p] = Unposted
    BY <1>2
  <1>4. delivery \in [AppEvent -> DeliveryType] /\ \A e \in AppEvent : delivery[e].state = "open"
    BY DEF DeliveryType
  <1>5. /\ InQueue = {} /\ Got = {} /\ DOMAIN queue = {} /\ DOMAIN received = {}
        /\ queue \in Seq(AppEvent) /\ received \in Seq(AppEvent) /\ frames = {} /\ lapsed = {}
    BY DEF InQueue, Got, ToSet
  <1>6. AppEventTypeOK
    BY <1>1, <1>3, <1>4, <1>5
    DEF AppEventTypeOK, DeliveryType, PostType, IsInjective, Got
  <1>7. \A e \in AppEvent : ~Held(e)
    BY <1>2, <1>3, <1>5 DEF Held
  <1> HIDE DEF AppEventInit
  <1>8. QueueOK
    BY <1>2, <1>3, <1>5 DEF QueueOK
  <1>9. BeforeOK /\ HeldOK /\ InOrderUnlessLapsed /\ DeliveredIsReceived
    BY <1>4, <1>5, <1>7 DEF BeforeOK, HeldOK, InOrderUnlessLapsed, DeliveredIsReceived
  <1> QED
    BY <1>6, <1>8, <1>9 DEF AppEventInv

(* Nothing new is sent or received: some of it is let go of, settled or    *)
(* not leased any more, but what is still being sent is as it was or noted *)
(* as lapsed.                                                              *)
LEMMA DeliverLessHeld ==
    ASSUME AppEventInv, AppEventTypeOK', UNCHANGED <<queue, received>>,
           frames' \subseteq frames, lapsed \subseteq lapsed',
           \A p \in Poster : post'[p] = Unposted \/ post'[p] = post[p],
           \A e \in AppEvent :
               /\ delivery'[e].state = "open" => delivery[e].state = "open"
               /\ delivery'[e].state = "delivered" => delivery[e].state = "delivered" \/ e \in Got,
           \A e \in AppEvent \ lapsed' : Held(e)' /\ e \notin Got =>
               (delivery[e].leased => delivery'[e].leased) /\ delivery'[e].state = delivery[e].state
    PROVE  AppEventInv'
  <1>1. Unposted.does = "wait" /\ Unposted.event = NoEvent
    BY DEF Unposted
  <1>2. /\ queue \in Seq(AppEvent) /\ InQueue \subseteq AppEvent /\ NoEvent \notin InQueue
        /\ \A a \in DOMAIN queue : queue[a] \in AppEvent
    BY DeliverAppTypes DEF InQueue, ToSet
  <1>3. InQueue' = InQueue /\ Got' = Got
    BY DEF InQueue, Got
  <1>4. QueueOK'
    BY <1>1, <1>3 DEF AppEventInv, QueueOK
  <1>5. \A e \in AppEvent : Held(e)' => Held(e)
    BY <1>1, AppEventAssumption DEF Held
  <1>6. BeforeOK'
    BY <1>2, <1>3, <1>5 DEF AppEventInv, BeforeOK
  <1>7. \A p \in Poster, e \in AppEvent : post'[p].event = e => post[p].event = e
    BY <1>1, AppEventAssumption
  <1>8. HeldOK'
    <2> SUFFICES ASSUME NEW e \in AppEvent, e \notin lapsed', Held(e)', e \notin Got
                 PROVE  /\ delivery'[e].leased /\ delivery'[e].state = "open"
                        /\ \A p, q \in Poster : post'[p].event = e /\ post'[q].event = e => p = q
                        /\ ~(e \in frames' /\ \E p \in Poster : post'[p].event = e)
      BY <1>3 DEF HeldOK
    <2>1. e \notin lapsed /\ Held(e)
      BY <1>5
    <2>2. /\ delivery[e].leased /\ delivery[e].state = "open"
          /\ \A p, q \in Poster : post[p].event = e /\ post[q].event = e => p = q
          /\ ~(e \in frames /\ \E p \in Poster : post[p].event = e)
      BY <2>1 DEF AppEventInv, HeldOK
    <2>3. (delivery[e].leased => delivery'[e].leased) /\ delivery'[e].state = delivery[e].state
      OBVIOUS
    <2> QED
      BY <1>7, <2>2, <2>3
  <1>9. InOrderUnlessLapsed'
    BY DEF AppEventInv, InOrderUnlessLapsed
  <1>10. DeliveredIsReceived'
    BY <1>3 DEF AppEventInv, DeliveredIsReceived, Got
  <1> QED
    BY <1>4, <1>6, <1>8, <1>9, <1>10 DEF AppEventInv

LEMMA DeliverAppTyped ==
    ASSUME AppEventInv, UNCHANGED queue, ToSet(received') \subseteq AppEvent,
           delivery' \in [AppEvent -> DeliveryType], post' \in [Poster -> PostType],
           frames' \subseteq AppEvent, lapsed' \subseteq AppEvent,
           socketMode' \in BOOLEAN, failing' \in BOOLEAN, switches' \in 0..MaxSwitches
    PROVE  AppEventTypeOK'
  BY DEF AppEventInv, AppEventTypeOK, InQueue, DeliveryType, PostType

LEMMA DeliverFlags ==
    ASSUME AppEventInv
    PROVE  /\ socketMode \in BOOLEAN /\ failing \in BOOLEAN /\ switches \in 0..MaxSwitches
           /\ ToSet(received) \subseteq AppEvent
  BY DEF AppEventInv, AppEventTypeOK

(* Time passes for an event. *)
LEMMA DeliverTime ==
    ASSUME AppEventInv, NEW e \in AppEvent, LeaseEnds(e) \/ RetryComes(e) \/ HourPasses(e)
    PROVE  AppEventInv'
  <1>1. /\ delivery \in [AppEvent -> DeliveryType] /\ post \in [Poster -> PostType]
        /\ frames \subseteq AppEvent /\ lapsed \subseteq AppEvent /\ delivery[e] \in DeliveryType
    BY DeliverAppTypes
  <1>2. UNCHANGED <<queue, socketMode, failing, post, frames, received, switches>>
    BY DEF LeaseEnds, RetryComes, HourPasses
  <1>3. PICK d \in DeliveryType : /\ delivery' = [delivery EXCEPT ![e] = d]
                                  /\ d.state = delivery[e].state
                                  /\ d.leased = delivery[e].leased \/ LeaseEnds(e)
    <2>1. CASE LeaseEnds(e)
      <3> DEFINE d == [delivery[e] EXCEPT !.leased = FALSE]
      <3>1. d \in DeliveryType /\ d.state = delivery[e].state
        BY <1>1 DEF DeliveryType
      <3>2. delivery' = [delivery EXCEPT ![e] = d]
        BY <2>1 DEF LeaseEnds
      <3> QED
        BY <2>1, <3>1, <3>2
    <2>2. CASE RetryComes(e)
      <3> DEFINE d == [delivery[e] EXCEPT !.ready = TRUE]
      <3>1. d \in DeliveryType /\ d.state = delivery[e].state /\ d.leased = delivery[e].leased
        BY <1>1 DEF DeliveryType
      <3>2. delivery' = [delivery EXCEPT ![e] = d]
        BY <2>2 DEF RetryComes
      <3> QED
        BY <3>1, <3>2
    <2>3. CASE HourPasses(e)
      <3> DEFINE d == [delivery[e] EXCEPT !.expired = TRUE]
      <3>1. d \in DeliveryType /\ d.state = delivery[e].state /\ d.leased = delivery[e].leased
        BY <1>1 DEF DeliveryType
      <3>2. delivery' = [delivery EXCEPT ![e] = d]
        BY <2>3 DEF HourPasses
      <3> QED
        BY <3>1, <3>2
    <2> QED
      BY <2>1, <2>2, <2>3
  <1>4. /\ lapsed \subseteq lapsed' /\ lapsed' \subseteq AppEvent
        /\ LeaseEnds(e) /\ Held(e) => e \in lapsed'
    BY <1>1 DEF LeaseEnds, RetryComes, HourPasses, Held
  <1>5. /\ delivery' \in [AppEvent -> DeliveryType] /\ delivery'[e] = d
        /\ \A f \in AppEvent \ {e} : delivery'[f] = delivery[f]
    BY <1>1, <1>3
  <1>6. AppEventTypeOK'
    BY <1>1, <1>2, <1>4, <1>5, DeliverAppTyped, DeliverFlags
  <1>7. \A f \in AppEvent : delivery'[f].state = delivery[f].state
    BY <1>3, <1>5
  <1>8. \A f \in AppEvent \ lapsed' : Held(f)' => delivery'[f].leased = delivery[f].leased
    BY <1>2, <1>3, <1>4, <1>5 DEF Held
  <1> QED
    BY <1>2, <1>4, <1>6, <1>7, <1>8, DeliverLessHeld

(* give_up_on_expired *)
LEMMA DeliverSweep ==
    ASSUME AppEventInv, Sweep
    PROVE  AppEventInv'
  <1>1. /\ delivery \in [AppEvent -> DeliveryType] /\ post \in [Poster -> PostType]
        /\ frames \subseteq AppEvent /\ lapsed \subseteq AppEvent
    BY DeliverAppTypes
  <1>2. UNCHANGED <<queue, socketMode, post, frames, received, lapsed, switches>>
    BY DEF Sweep
  <1>3. failing' \in BOOLEAN
    <2>1. failing' = TRUE
      BY DEF Sweep
    <2> QED
      BY <2>1, Zenon
  <1>4. delivery' = [e \in AppEvent |->
                      IF e \in GivenUp THEN [delivery[e] EXCEPT !.state = "failed"]
                      ELSE delivery[e]]
    BY DEF Sweep
  <1>5. \A e \in AppEvent :
            /\ delivery'[e] \in DeliveryType /\ delivery'[e].leased = delivery[e].leased
            /\ delivery'[e].state = delivery[e].state
               \/ (delivery'[e].state = "failed" /\ e \in GivenUp)
    <2> TAKE e \in AppEvent
    <2>1. CASE e \in GivenUp
      <3> DEFINE d == [delivery[e] EXCEPT !.state = "failed"]
      <3>1. d \in DeliveryType /\ d.leased = delivery[e].leased /\ d.state = "failed"
        BY <1>1 DEF DeliveryType
      <3>2. delivery'[e] = d
        BY <1>4, <2>1
      <3> QED
        BY <2>1, <3>1, <3>2
    <2>2. CASE e \notin GivenUp
      BY <1>1, <1>4, <2>2
    <2> QED
      BY <2>1, <2>2
  <1>6. delivery' \in [AppEvent -> DeliveryType]
    BY <1>4, <1>5
  <1>7. AppEventTypeOK'
    BY <1>1, <1>2, <1>3, <1>6, DeliverAppTyped, DeliverFlags
  <1>8. \A e \in AppEvent \ lapsed : Held(e)' /\ e \notin Got =>
            delivery'[e].state = delivery[e].state
    <2> TAKE e \in AppEvent \ lapsed
    <2> HAVE Held(e)' /\ e \notin Got
    <2>1. Held(e)
      BY <1>2 DEF Held
    <2>2. delivery[e].leased
      BY <2>1 DEF AppEventInv, HeldOK
    <2> QED
      BY <1>5, <2>2 DEF GivenUp
  <1>9. \A e \in AppEvent :
            /\ delivery'[e].state = "open" => delivery[e].state = "open"
            /\ delivery'[e].state = "delivered" => delivery[e].state = "delivered"
    BY <1>5
  <1> QED
    BY <1>2, <1>5, <1>7, <1>8, <1>9, DeliverLessHeld

LEMMA DeliverSwitchMode ==
    ASSUME AppEventInv, SwitchMode
    PROVE  AppEventInv'
  <1>1. /\ delivery \in [AppEvent -> DeliveryType] /\ post \in [Poster -> PostType]
        /\ frames \subseteq AppEvent /\ lapsed \subseteq AppEvent
    BY DeliverAppTypes
  <1>2. UNCHANGED <<queue, delivery, failing, post, frames, received, lapsed>>
    BY DEF SwitchMode
  <1>3. socketMode' \in BOOLEAN
    <2>1. socketMode' = ~socketMode
      BY DEF SwitchMode
    <2> QED
      BY <2>1, Zenon
  <1>4. switches' \in 0..MaxSwitches
    BY DeliverFlags, AppEventAssumption DEF SwitchMode
  <1>5. AppEventTypeOK'
    BY <1>1, <1>2, <1>3, <1>4, DeliverAppTyped, DeliverFlags
  <1> QED
    BY <1>2, <1>5, DeliverLessHeld

(* delivered, and the acknowledgement of a frame: the app has the event.  *)
LEMMA DeliverSettled ==
    ASSUME AppEventInv, NEW e \in AppEvent, e \in Got, delivery' = MarkDelivered(e), Recovers(e),
           UNCHANGED <<queue, socketMode, received, lapsed, switches>>,
           frames' \subseteq frames, post' \in [Poster -> PostType],
           \A p \in Poster : post'[p] = Unposted \/ post'[p] = post[p]
    PROVE  AppEventInv'
  <1> DEFINE d == [delivery[e] EXCEPT !.state = "delivered", !.leased = FALSE]
  <1>1. /\ delivery \in [AppEvent -> DeliveryType] /\ delivery[e] \in DeliveryType
        /\ frames \subseteq AppEvent /\ lapsed \subseteq AppEvent
    BY DeliverAppTypes
  <1>2. d \in DeliveryType /\ d.state = "delivered"
    BY <1>1 DEF DeliveryType
  <1>3. \/ delivery[e].state = "delivered" /\ delivery' = delivery
        \/ delivery' = [delivery EXCEPT ![e] = d]
    BY DEF MarkDelivered
  <1> HIDE DEF d
  <1>4. /\ delivery' \in [AppEvent -> DeliveryType] /\ delivery'[e].state = "delivered"
        /\ \A f \in AppEvent \ {e} : delivery'[f] = delivery[f]
    BY <1>1, <1>2, <1>3
  <1>5. failing' \in BOOLEAN
    <2>1. failing' = (failing /\ delivery[e].state = "delivered")
      BY DEF Recovers
    <2> QED
      BY <2>1, Zenon
  <1>6. AppEventTypeOK'
    BY <1>1, <1>4, <1>5, DeliverAppTyped, DeliverFlags
  <1> QED
    BY <1>4, <1>6, DeliverLessHeld

LEMMA DeliverUnposted == Unposted \in PostType
  BY DEF Unposted, PostType

LEMMA DeliverRecordDelivered ==
    ASSUME AppEventInv, NEW p \in Poster, RecordDelivered(p)
    PROVE  AppEventInv'
  <1> DEFINE e == post[p].event
  <1>1. /\ post \in [Poster -> PostType] /\ InQueue \subseteq AppEvent
    BY DeliverAppTypes
  <1>2. e \in Got /\ e \in AppEvent
    BY <1>1 DEF AppEventInv, QueueOK, RecordDelivered
  <1>3. /\ post' \in [Poster -> PostType]
        /\ \A q \in Poster : post'[q] = Unposted \/ post'[q] = post[q]
    BY <1>1, DeliverUnposted DEF RecordDelivered
  <1>4. /\ delivery' = MarkDelivered(e) /\ Recovers(e)
        /\ UNCHANGED <<queue, socketMode, frames, received, lapsed, switches>>
    BY DEF RecordDelivered
  <1> HIDE DEF e
  <1> QED
    BY <1>2, <1>3, <1>4, DeliverSettled

LEMMA DeliverAck ==
    ASSUME AppEventInv, NEW e \in AppEvent, Ack(e)
    PROVE  AppEventInv'
  <1>1. post \in [Poster -> PostType]
    BY DeliverAppTypes
  <1>2. /\ e \in Got /\ delivery' = MarkDelivered(e) /\ Recovers(e)
        /\ UNCHANGED <<queue, socketMode, post, received, lapsed, switches>>
        /\ frames' \subseteq frames
    BY DEF Ack, Got
  <1> QED
    BY <1>1, <1>2, DeliverSettled

(* retry_later: it may take the lease of another, which is noted. *)
LEMMA DeliverRetryLater ==
    ASSUME AppEventInv, NEW p \in Poster, RetryLater(p)
    PROVE  AppEventInv'
  <1>1. /\ delivery \in [AppEvent -> DeliveryType] /\ post \in [Poster -> PostType]
        /\ frames \subseteq AppEvent /\ lapsed \subseteq AppEvent /\ InQueue \subseteq AppEvent
    BY DeliverAppTypes
  <1>2. PICK e \in AppEvent : post[p].event = e
    BY <1>1 DEF AppEventInv, QueueOK, RetryLater
  <1> DEFINE d == [delivery[e] EXCEPT !.leased = FALSE, !.ready = FALSE]
  <1>3. d \in DeliveryType /\ d.state = delivery[e].state
    BY <1>1, <1>2 DEF DeliveryType
  <1>4. delivery' = delivery \/ delivery' = [delivery EXCEPT ![e] = d]
    BY <1>2 DEF RetryLater
  <1>5. /\ post' = [post EXCEPT ![p] = Unposted]
        /\ lapsed' = IF \E q \in Poster \ {p} : post[q].event = e THEN lapsed \cup {e} ELSE lapsed
        /\ UNCHANGED <<queue, socketMode, failing, frames, received, switches>>
    BY <1>2 DEF RetryLater
  <1> HIDE DEF d
  <1>7. /\ delivery' \in [AppEvent -> DeliveryType]
        /\ delivery'[e].state = delivery[e].state
        /\ \A f \in AppEvent \ {e} : delivery'[f] = delivery[f]
    BY <1>1, <1>2, <1>3, <1>4
  <1>8. /\ post' \in [Poster -> PostType] /\ post'[p] = Unposted
        /\ \A q \in Poster \ {p} : post'[q] = post[q]
    BY <1>1, <1>5, DeliverUnposted
  <1>9. /\ lapsed' \subseteq AppEvent /\ lapsed \subseteq lapsed'
        /\ e \notin lapsed' => \A q \in Poster \ {p} : post[q].event # e
    BY <1>1, <1>2, <1>5
  <1>10. AppEventTypeOK'
    BY <1>1, <1>5, <1>7, <1>8, <1>9, DeliverAppTyped, DeliverFlags
  <1>11. ASSUME e \notin lapsed', e \notin Got PROVE ~Held(e)'
    <2>1. e \notin lapsed /\ Held(e)
      BY <1>2, <1>9, <1>11 DEF Held
    <2>2. e \notin frames
      BY <1>2, <1>11, <2>1 DEF AppEventInv, HeldOK
    <2>3. Unposted.event # e
      BY <1>2, AppEventAssumption DEF Unposted
    <2>4. \A q \in Poster : post'[q].event # e
      BY <1>8, <1>9, <1>11, <2>3
    <2> QED
      BY <1>5, <2>2, <2>4 DEF Held
  <1>12. \A f \in AppEvent \ lapsed' : Held(f)' /\ f \notin Got =>
             (delivery[f].leased => delivery'[f].leased) /\ delivery'[f].state = delivery[f].state
    BY <1>7, <1>11
  <1>13. \A f \in AppEvent : delivery'[f].state = delivery[f].state
    BY <1>7
  <1> QED
    BY <1>5, <1>8, <1>9, <1>10, <1>12, <1>13, DeliverLessHeld

LEMMA DeliverLetGo ==
    ASSUME AppEventInv, UNCHANGED <<queue, delivery, socketMode, failing, received, lapsed, switches>>,
           frames' \subseteq frames, post' \in [Poster -> PostType],
           \A p \in Poster : post'[p] = Unposted \/ post'[p] = post[p]
    PROVE  AppEventInv'
  <1>1. /\ delivery \in [AppEvent -> DeliveryType]
        /\ frames \subseteq AppEvent /\ lapsed \subseteq AppEvent
    BY DeliverAppTypes
  <1>2. AppEventTypeOK'
    BY <1>1, DeliverAppTyped, DeliverFlags
  <1> QED
    BY <1>2, DeliverLessHeld

LEMMA DeliverPosterDies ==
    ASSUME AppEventInv, NEW p \in Poster, PosterDies(p)
    PROVE  AppEventInv'
  <1>1. post \in [Poster -> PostType]
    BY DeliverAppTypes
  <1>2. /\ post' \in [Poster -> PostType]
        /\ \A q \in Poster : post'[q] = Unposted \/ post'[q] = post[q]
    BY <1>1, DeliverUnposted DEF PosterDies
  <1> QED
    BY <1>2, DeliverLetGo DEF PosterDies

(* The first event that is not settled is taken, by a poster or for a      *)
(* socket: nobody is sending it that its lease did not run out under.      *)
LEMMA DeliverClaimed ==
    ASSUME AppEventInv, NEW e \in AppEvent, Claimable(e), delivery' = Lease(e),
           UNCHANGED <<queue, socketMode, failing, received, lapsed, switches>>,
           \/ /\ UNCHANGED frames
              /\ \E p \in Poster : /\ post[p] = Unposted
                                   /\ post' = [post EXCEPT ![p] = [does |-> "post", event |-> e]]
           \/ UNCHANGED post /\ frames' \in {frames, frames \cup {e}}
    PROVE  AppEventInv'
  <1> DEFINE d == [delivery[e] EXCEPT !.leased = TRUE, !.attempts = delivery[e].attempts + 1]
             n == [does |-> "post", event |-> e]
  <1>1. /\ delivery \in [AppEvent -> DeliveryType] /\ post \in [Poster -> PostType]
        /\ frames \subseteq AppEvent /\ lapsed \subseteq AppEvent /\ InQueue \subseteq AppEvent
        /\ IsInjective(queue) /\ delivery[e] \in DeliveryType /\ queue \in Seq(AppEvent)
    BY DeliverAppTypes
  <1>2. ~delivery[e].leased /\ delivery[e].attempts < MaxSends /\ e \in Heads
    BY DEF Claimable
  <1>3. d \in DeliveryType /\ d.state = delivery[e].state /\ d.leased
    <2>1. delivery[e].attempts + 1 \in 0..MaxSends
      BY <1>1, <1>2, AppEventAssumption DEF DeliveryType
    <2> QED
      BY <1>1, <2>1 DEF DeliveryType
  <1>4. delivery' = [delivery EXCEPT ![e] = d]
    BY DEF Lease
  <1> HIDE DEF d
  <1>5. /\ delivery' \in [AppEvent -> DeliveryType] /\ delivery'[e] = d
        /\ \A f \in AppEvent \ {e} : delivery'[f] = delivery[f]
    BY <1>1, <1>3, <1>4
  <1>6. PICK k \in DOMAIN queue :
            /\ queue[k] = e /\ Unsettled(e) /\ \A i \in 1..(k - 1) : ~Unsettled(queue[i])
    BY <1>2 DEF Heads
  <1>7. e \in InQueue /\ delivery[e].state = "open"
    BY <1>6 DEF Unsettled
  <1>8. \A i \in DOMAIN queue : i < k => delivery[queue[i]].state # "open"
    <2> TAKE i \in DOMAIN queue
    <2> HAVE i < k
    <2>1. i \in 1..(k - 1) /\ queue[i] \in InQueue
      BY <1>1 DEF InQueue, ToSet
    <2> QED
      BY <1>6, <2>1 DEF Unsettled
  <1>9. n \in PostType /\ n.event = e /\ n.does = "post"
    BY DEF PostType
  <1> HIDE DEF n
  <1>10. \/ post' = post
         \/ \E p \in Poster : /\ post[p].event = NoEvent /\ post' = [post EXCEPT ![p] = n]
    BY DEF n, Unposted
  <1>11. /\ post' \in [Poster -> PostType] /\ frames' \subseteq AppEvent
         /\ frames' \subseteq InQueue /\ frames \subseteq frames' /\ frames' \subseteq frames \cup {e}
         /\ \A p \in Poster : post'[p] = post[p] \/ post'[p] = n
    <2>1. frames \subseteq InQueue
      BY DEF AppEventInv, QueueOK
    <2> QED
      BY <1>1, <1>7, <1>9, <1>10, <2>1
  <1>12. AppEventTypeOK'
    BY <1>1, <1>5, <1>11, DeliverAppTyped, DeliverFlags
  <1>13. InQueue' = InQueue /\ Got' = Got
    BY DEF InQueue, Got
  <1>14. QueueOK'
    BY <1>7, <1>9, <1>11, <1>13, AppEventAssumption DEF AppEventInv, QueueOK
  <1>15. \A f \in AppEvent : delivery'[f].state = delivery[f].state
    BY <1>3, <1>5
  <1>16. \A f \in AppEvent : Held(f)' => Held(f) \/ f = e
    BY <1>9, <1>11 DEF Held
  <1>17. BeforeOK'
    <2> SUFFICES ASSUME NEW a \in DOMAIN queue, NEW b \in DOMAIN queue, a < b,
                        queue[b] \in Got \/ Held(queue[b])'
                 PROVE  delivery'[queue[a]].state # "open"
      BY <1>13 DEF BeforeOK
    <2>1. queue[a] \in AppEvent /\ queue[b] \in AppEvent
      BY <1>1
    <2>2. queue[b] \in Got \/ Held(queue[b]) \/ queue[b] = e
      <3>1. Held(queue[b])' => Held(queue[b]) \/ queue[b] = e
        <4>1. PICK f \in AppEvent : queue[b] = f
          BY <2>1
        <4>2. Held(queue[b])' <=> Held(f)'
          BY <4>1 DEF Held
        <4> QED
          BY <1>16, <4>1, <4>2 DEF Held
      <3> QED
        BY <3>1
    <2>3. CASE queue[b] = e
      <3>1. b = k
        BY <1>1, <1>6, <2>3 DEF IsInjective
      <3> QED
        BY <1>8, <1>15, <2>1, <3>1
    <2>4. CASE queue[b] \in Got \/ Held(queue[b])
      BY <1>15, <2>1, <2>4 DEF AppEventInv, BeforeOK
    <2> QED
      BY <2>2, <2>3, <2>4
  <1>18. HeldOK'
    <2> SUFFICES ASSUME NEW f \in AppEvent, f \notin lapsed, Held(f)', f \notin Got
                 PROVE  /\ delivery'[f].leased /\ delivery'[f].state = "open"
                        /\ \A p, q \in Poster : post'[p].event = f /\ post'[q].event = f => p = q
                        /\ ~(f \in frames' /\ \E p \in Poster : post'[p].event = f)
      BY <1>13 DEF HeldOK
    <2>1. CASE f = e
      <3>1. ~Held(e)
        BY <1>2, <2>1 DEF AppEventInv, HeldOK
      <3>2. e \notin frames /\ \A p \in Poster : post[p].event # e
        BY <3>1 DEF Held
      <3>3. delivery'[e].leased /\ delivery'[e].state = "open"
        BY <1>3, <1>5, <1>7
      <3>4. CASE UNCHANGED post
        BY <2>1, <3>2, <3>3, <3>4
      <3>5. CASE post' # post
        <4>1. frames' = frames
          BY <3>5
        <4>2. PICK p \in Poster : post' = [post EXCEPT ![p] = n]
          BY <1>10, <3>5
        <4>3. \A q \in Poster : q # p => post'[q].event # e
          BY <1>1, <3>2, <4>2
        <4> QED
          BY <2>1, <3>2, <3>3, <4>1, <4>3
      <3> QED
        BY <3>4, <3>5
    <2>2. CASE f # e
      <3>1. Held(f)
        BY <1>16, <2>2
      <3>2. \A p \in Poster : post'[p].event = f => post[p].event = f
        BY <1>9, <1>11, <2>2
      <3>3. f \in frames' => f \in frames
        BY <1>11, <2>2
      <3>4. delivery'[f] = delivery[f]
        BY <1>5, <2>2
      <3> QED
        BY <3>1, <3>2, <3>3, <3>4 DEF AppEventInv, HeldOK
    <2> QED
      BY <2>1, <2>2
  <1>19. InOrderUnlessLapsed' /\ DeliveredIsReceived'
    BY <1>15 DEF AppEventInv, InOrderUnlessLapsed, DeliveredIsReceived
  <1> QED
    BY <1>12, <1>14, <1>17, <1>18, <1>19 DEF AppEventInv

(* The app gets an event that is being sent to it, perhaps not for the     *)
(* first time.                                                             *)
LEMMA DeliverReceived ==
    ASSUME AppEventInv, NEW e \in AppEvent, Held(e), Receive(e) \/ UNCHANGED received,
           UNCHANGED <<queue, delivery, socketMode, failing, frames, lapsed, switches>>,
           post' \in [Poster -> PostType],
           \A p \in Poster :
               /\ post'[p].event = post[p].event
               /\ post'[p].does # "wait" => post[p].does # "wait"
               /\ post'[p].does = "delivered" =>
                      post[p].does = "delivered" \/ post[p].event \in ToSet(received')
    PROVE  AppEventInv'
  <1>1. /\ delivery \in [AppEvent -> DeliveryType] /\ IsInjective(queue)
        /\ frames \subseteq AppEvent /\ lapsed \subseteq AppEvent /\ InQueue \subseteq AppEvent
        /\ received \in Seq(AppEvent) /\ queue \in Seq(AppEvent)
    BY DeliverAppTypes
  <1>2. e \in InQueue
    BY AppEventAssumption DEF AppEventInv, QueueOK, Held
  <1>3. \/ received' = received /\ Got' = Got
        \/ received' = Append(received, e) /\ Got' = Got \cup {e} /\ e \notin Got
    <2>1. CASE received' = received
      BY <2>1 DEF Got
    <2>2. CASE received' = Append(received, e) /\ e \notin Got
      BY <1>1, <2>2, DeliverToSet DEF Got
    <2> QED
      BY <2>1, <2>2 DEF Receive, Got
  <1>4. received' \in Seq(AppEvent) /\ Got \subseteq Got' /\ Got' \subseteq InQueue
    <2>1. received' \in Seq(AppEvent)
      BY <1>1, <1>3
    <2>2. Got \subseteq InQueue
      BY DEF AppEventInv, QueueOK
    <2>3. Got \subseteq Got' /\ Got' \subseteq InQueue
      BY <1>2, <1>3, <2>2
    <2> QED
      BY <2>1, <2>3
  <1>5. AppEventTypeOK'
    BY <1>1, <1>4, DeliverAppTyped, DeliverFlags DEF Got
  <1>6. InQueue' = InQueue /\ \A f : Held(f)' <=> Held(f)
    BY DEF InQueue, Held
  <1>7. QueueOK'
    BY <1>1, <1>4, <1>6 DEF AppEventInv, QueueOK, Got
  <1>8. BeforeOK'
    <2> SUFFICES ASSUME NEW a \in DOMAIN queue, NEW b \in DOMAIN queue, a < b,
                        queue[b] \in Got' \/ Held(queue[b])'
                 PROVE  delivery[queue[a]].state # "open"
      BY DEF BeforeOK
    <2>1. Held(queue[b])' => Held(queue[b])
      BY DEF Held
    <2>2. queue[b] \in Got \/ Held(queue[b])
      BY <1>3, <2>1
    <2> QED
      BY <2>2 DEF AppEventInv, BeforeOK
  <1>9. HeldOK'
    BY <1>4, <1>6 DEF AppEventInv, HeldOK
  <1>10. DeliveredIsReceived'
    BY <1>4 DEF AppEventInv, DeliveredIsReceived, Got
  <1>11. InOrderUnlessLapsed'
    <2>1. CASE received' = received
      BY <2>1 DEF AppEventInv, InOrderUnlessLapsed
    <2>2. CASE received' = Append(received, e) /\ e \notin Got
      <3>1. /\ Len(received) \in Nat /\ DOMAIN received = 1..Len(received)
            /\ DOMAIN received' = 1..(Len(received) + 1)
            /\ \A i \in 1..Len(received) : received'[i] = received[i]
            /\ received'[Len(received) + 1] = e
        BY <1>1, <2>2
      <3> SUFFICES ASSUME NEW i \in DOMAIN received', NEW k \in DOMAIN received', i < k,
                          received'[k] \notin lapsed
                   PROVE  \E a, b \in DOMAIN queue :
                              a < b /\ queue[a] = received'[i] /\ queue[b] = received'[k]
        BY DEF InOrderUnlessLapsed
      <3>2. i \in 1..Len(received) /\ received'[i] = received[i] /\ received[i] \in Got
        BY <3>1 DEF Got, ToSet
      <3>3. CASE k \in 1..Len(received)
        BY <3>1, <3>2, <3>3 DEF AppEventInv, InOrderUnlessLapsed
      <3>4. CASE k = Len(received) + 1
        <4>1. received'[k] = e /\ delivery[e].state = "open"
          BY <2>2, <3>1, <3>4 DEF AppEventInv, HeldOK
        <4>2. PICK b \in DOMAIN queue : queue[b] = e
          BY <1>2 DEF InQueue, ToSet
        <4>3. received[i] \in InQueue
          BY <3>2 DEF AppEventInv, QueueOK
        <4>4. PICK a \in DOMAIN queue : queue[a] = received[i]
          BY <4>3 DEF InQueue, ToSet
        <4>5. ~(b < a)
          BY <3>2, <4>1, <4>2, <4>4 DEF AppEventInv, BeforeOK
        <4>6. a # b
          BY <2>2, <3>2, <4>2, <4>4
        <4>7. a \in Nat /\ b \in Nat
          BY <1>1
        <4>8. a < b
          BY <4>5, <4>6, <4>7
        <4> QED
          BY <3>2, <4>1, <4>2, <4>4, <4>8
      <3> QED
        BY <3>1, <3>3, <3>4
    <2> QED
      BY <1>3, <2>1, <2>2
  <1> QED
    BY <1>5, <1>7, <1>8, <1>9, <1>10, <1>11 DEF AppEventInv

(* attempt *)
LEMMA DeliverAttempt ==
    ASSUME AppEventInv, NEW p \in Poster, Attempt(p)
    PROVE  AppEventInv'
  <1>1. post \in [Poster -> PostType] /\ InQueue \subseteq AppEvent /\ received \in Seq(AppEvent)
    BY DeliverAppTypes
  <1>2. PICK e \in AppEvent : post[p].event = e
    BY <1>1 DEF AppEventInv, QueueOK, Attempt
  <1>3. Held(e)
    BY <1>2 DEF Held
  <1>4. PICK does \in {"delivered", "retry"} :
            /\ post' = [post EXCEPT ![p].does = does]
            /\ Receive(e) \/ (UNCHANGED received /\ does = "retry")
    BY <1>2 DEF Attempt
  <1> DEFINE n == [post[p] EXCEPT !.does = does]
  <1>5. n \in PostType /\ n.does = does /\ n.event = e
    BY <1>1, <1>2 DEF PostType
  <1>6. post' = [post EXCEPT ![p] = n]
    BY <1>4
  <1> HIDE DEF n
  <1>7. /\ post' \in [Poster -> PostType] /\ post'[p] = n
        /\ \A q \in Poster \ {p} : post'[q] = post[q]
    BY <1>1, <1>5, <1>6
  <1>8. Receive(e) => e \in ToSet(received')
    <2>1. ToSet(Append(received, e)) = ToSet(received) \cup {e}
      BY <1>1, DeliverToSet
    <2> QED
      BY <2>1 DEF Receive
  <1>9. post[p].does = "post"
    BY DEF Attempt
  <1>10. \A q \in Poster :
               /\ post'[q].event = post[q].event
               /\ post'[q].does # "wait" => post[q].does # "wait"
               /\ post'[q].does = "delivered" =>
                      post[q].does = "delivered" \/ post[q].event \in ToSet(received')
    <2> TAKE q \in Poster
    <2>1. CASE q = p
      BY <1>2, <1>4, <1>5, <1>7, <1>8, <1>9, <2>1
    <2>2. CASE q # p
      BY <1>7, <2>2
    <2> QED
      BY <2>1, <2>2
  <1>11. UNCHANGED <<queue, delivery, socketMode, failing, frames, lapsed, switches>>
    BY DEF Attempt
  <1> QED
    BY <1>3, <1>4, <1>7, <1>10, <1>11, DeliverReceived

LEMMA DeliverReadFrame ==
    ASSUME AppEventInv, NEW e \in AppEvent, ReadFrame(e)
    PROVE  AppEventInv'
  <1>1. post \in [Poster -> PostType]
    BY DeliverAppTypes
  <1>2. UNCHANGED <<queue, delivery, socketMode, failing, post, lapsed, switches>> /\ Held(e)
    BY DEF ReadFrame, Held
  <1>3. CASE Receive(e) /\ UNCHANGED frames
    BY <1>1, <1>2, <1>3, DeliverReceived
  <1>4. CASE frames' = frames \ {e} /\ UNCHANGED received
    BY <1>1, <1>2, <1>4, DeliverLetGo
  <1> QED
    BY <1>3, <1>4 DEF ReadFrame

(* fan_out *)
LEMMA DeliverFanOut ==
    ASSUME AppEventInv, NEW e \in AppEvent, FanOut(e)
    PROVE  AppEventInv'
  <1>1. /\ queue \in Seq(AppEvent) /\ InQueue \subseteq AppEvent /\ IsInjective(queue)
        /\ NoEvent \notin InQueue
    BY DeliverAppTypes
  <1>2. UNCHANGED <<delivery, socketMode, failing, post, frames, received, lapsed, switches>>
    BY DEF FanOut
  <1>3. Got' = Got /\ \A f : Held(f)' <=> Held(f)
    BY <1>2 DEF Got, Held
  <1>4. \/ e \in InQueue /\ queue' = queue /\ InQueue' = InQueue
        \/ e \notin InQueue /\ queue' = Append(queue, e) /\ InQueue' = InQueue \cup {e}
    <2>1. CASE e \in InQueue
      BY <2>1 DEF FanOut, Queued, InQueue
    <2>2. CASE e \notin InQueue
      <3>1. queue' = Append(queue, e)
        BY <2>2 DEF FanOut, Queued
      <3> QED
        BY <1>1, <2>2, <3>1, DeliverToSet DEF InQueue
    <2> QED
      BY <2>1, <2>2
  <1>5. /\ Len(queue) \in Nat /\ DOMAIN queue = 1..Len(queue) /\ queue' \in Seq(AppEvent)
        /\ \A i \in DOMAIN queue : i \in DOMAIN queue' /\ queue'[i] = queue[i] /\ queue[i] \in InQueue
        /\ \A i \in DOMAIN queue' : i \in DOMAIN queue
               \/ (i = Len(queue) + 1 /\ queue'[i] = e /\ e \notin InQueue)
    <2>1. Len(queue) \in Nat /\ DOMAIN queue = 1..Len(queue) /\ \A i \in DOMAIN queue : queue[i] \in InQueue
      BY <1>1 DEF InQueue, ToSet
    <2>2. CASE queue' = queue
      BY <1>1, <2>1, <2>2
    <2>3. CASE queue' = Append(queue, e) /\ e \notin InQueue
      <3>1. /\ DOMAIN queue' = 1..(Len(queue) + 1) /\ queue' \in Seq(AppEvent)
            /\ \A i \in 1..Len(queue) : queue'[i] = queue[i]
            /\ queue'[Len(queue) + 1] = e
        BY <1>1, <2>1, <2>3
      <3>2. \A i \in 1..(Len(queue) + 1) : i \in 1..Len(queue) \/ i = Len(queue) + 1
        BY <2>1
      <3>3. \A i \in 1..Len(queue) : i \in 1..(Len(queue) + 1)
        BY <2>1
      <3> QED
        BY <2>1, <2>3, <3>1, <3>2, <3>3
    <2> QED
      BY <1>4, <2>2, <2>3
  <1>6. InQueue' \subseteq AppEvent /\ InQueue \subseteq InQueue' /\ InQueue' \subseteq InQueue \cup {e}
    BY <1>1, <1>4
  <1>7. IsInjective(queue')
    BY <1>1, <1>5 DEF IsInjective
  <1>8. AppEventTypeOK'
    BY <1>2, <1>6, <1>7 DEF AppEventInv, AppEventTypeOK
  <1>9. QueueOK'
    BY <1>2, <1>3, <1>5, <1>6 DEF AppEventInv, QueueOK
  <1>10. e \notin InQueue => e \notin Got /\ ~Held(e)
    BY AppEventAssumption DEF AppEventInv, QueueOK, Held
  <1>11. BeforeOK'
    <2> SUFFICES ASSUME NEW a \in DOMAIN queue', NEW b \in DOMAIN queue', a < b,
                        queue'[b] \in Got \/ Held(queue[b])'
                 PROVE  delivery[queue'[a]].state # "open"
      BY <1>2, <1>3 DEF BeforeOK
    <2>1. Held(queue[b])' => queue'[b] \in frames \/ \E p \in Poster : post[p].event = queue'[b]
      BY <1>2 DEF Held
    <2>2. b \in DOMAIN queue
      BY <1>5, <1>10, <2>1 DEF Held
    <2>3. a \in DOMAIN queue
      BY <1>5, <2>2
    <2>4. queue'[a] = queue[a] /\ queue'[b] = queue[b]
      BY <1>5, <2>2, <2>3
    <2>5. queue[b] \in Got \/ Held(queue[b])
      BY <2>1, <2>4 DEF Held
    <2> QED
      BY <2>2, <2>3, <2>4, <2>5 DEF AppEventInv, BeforeOK
  <1>12. HeldOK'
    BY <1>2, <1>3 DEF AppEventInv, HeldOK
  <1>13. InOrderUnlessLapsed'
    BY <1>2, <1>5 DEF AppEventInv, InOrderUnlessLapsed
  <1>14. DeliveredIsReceived'
    BY <1>2 DEF AppEventInv, DeliveredIsReceived
  <1> QED
    BY <1>8, <1>9, <1>11, <1>12, <1>13, <1>14 DEF AppEventInv

LEMMA DeliverAppStep == AppEventInv /\ [AppEventNext]_appEventVars => AppEventInv'
  <1> SUFFICES ASSUME AppEventInv, [AppEventNext]_appEventVars PROVE AppEventInv'
    OBVIOUS
  <1>1. CASE UNCHANGED appEventVars
    <2>1. post \in [Poster -> PostType]
      BY DeliverAppTypes
    <2> QED
      BY <1>1, <2>1, DeliverLetGo DEF appEventVars
  <1>2. CASE Sweep \/ SwitchMode
    BY <1>2, DeliverSweep, DeliverSwitchMode
  <1>3. CASE \E p \in Poster : PostStep(p) \/ PosterDies(p)
    <2>1. PICK p \in Poster : PostStep(p) \/ PosterDies(p)
      BY <1>3
    <2>2. CASE \E e \in AppEvent : ClaimHttp(p, e)
      <3>1. PICK e \in AppEvent : ClaimHttp(p, e)
        BY <2>2
      <3> QED
        BY <3>1, DeliverClaimed DEF ClaimHttp
    <2> QED
      BY <2>1, <2>2, DeliverAttempt, DeliverRecordDelivered, DeliverRetryLater,
         DeliverPosterDies, Zenon DEF PostStep
  <1>4. CASE \E e \in AppEvent :
               \/ FanOut(e) \/ DeliverOnce(e) \/ ReadFrame(e) \/ Ack(e)
               \/ LeaseEnds(e) \/ RetryComes(e) \/ HourPasses(e)
    <2>1. PICK e \in AppEvent :
               \/ FanOut(e) \/ DeliverOnce(e) \/ ReadFrame(e) \/ Ack(e)
               \/ LeaseEnds(e) \/ RetryComes(e) \/ HourPasses(e)
      BY <1>4
    <2>2. CASE DeliverOnce(e)
      BY <2>2, DeliverClaimed DEF DeliverOnce
    <2> QED
      BY <2>1, <2>2, DeliverFanOut, DeliverReadFrame, DeliverAck, DeliverTime, Zenon
  <1> QED
    BY <1>1, <1>2, <1>3, <1>4, Zenon DEF AppEventNext

(* An app first gets the events of a channel in the order they were        *)
(* queued, through retries, crashes and changes of the mode, except one    *)
(* whose lease ran out under the send; and what reads as delivered was     *)
(* received (claim_http, deliver_once, retry_later, give_up_on_expired).   *)
THEOREM DeliverAppEventSafety == AppEventSpec => []AppEventSafety
  <1>1. AppEventInv => AppEventSafety
    BY DEF AppEventInv, AppEventSafety
  <1> QED
    BY <1>1, DeliverAppInit, DeliverAppStep, PTL DEF AppEventSpec

-----------------------------------------------------------------------------
(* Huddles. *)

HuddleSteps == HuddleInit /\ [][HuddleNext]_huddleVars

(* Who was put back by a heartbeat is a member; and where there is an SFU  *)
(* the huddle is on it as soon as the threshold is passed, so that the     *)
(* limit of the SFU is never below what the mesh has let in.               *)
CapOK ==
    /\ IsFiniteSet(members) /\ revived \subseteq members /\ CapHolds
    /\ ~sfu /\ setting.threshold >= 0 => Cardinality(members \ revived) <= setting.threshold
    /\ promoted = IF sfu THEN 1 ELSE 0

(* A member has a connection in the call, or one that is about to be in    *)
(* it, or one that will take the member out.                               *)
Keeps(c) == c \in sub \/ pc[c] \in {"enter", "check", "srem"}
MemberOK == \A u \in members \ ghosts : \E c \in Conn : UserOf[c] = u /\ Keeps(c)

(* The user of a connection, as far as the stream can tell: a connection   *)
(* that joins or is in the call has its member; while one takes the member *)
(* out none is in the call; and what the stream says will be put right.    *)
Leaving == {"check", "srem", "left"}
Own(u) == {c \in Conn : UserOf[c] = u}
SaidOK(u) ==
    /\ \A c \in Own(u) :
           /\ pc[c] \in {"joined", "transport", "snapshot"} => c \in sub
           /\ c \in sub \/ pc[c] = "enter" => u \in members
           /\ c \in sub => said[u] = "joined" \/ \E d \in Own(u) : pc[d] = "joined"
           /\ pc[c] \in {"srem", "left"} => \A d \in Own(u) : d \notin sub /\ pc[d] # "enter"
    /\ said[u] = "joined" =>
           \/ \E c \in Own(u) : c \in sub \/ pc[c] = "left"
           \/ u \in members /\ \E c \in Own(u) : pc[c] \in {"check", "srem"}
StreamOK ==
    /\ \A c \in Conn : pc[c] \in Leaving => c \notin sub
    /\ \A u \in User \ crossed : SaidOK(u)

(* On the SFU, whoever is in the call or about to be knows it, or will:    *)
(* from the snapshot, from its node, or from the one who moved the call.   *)
Moving == \E d \in Conn : got[d] = "promoted" /\ pc[d] \in {"enter", "joined", "transport"}
Informed(c) ==
    \/ c \in knows \cup untold \/ NodeOf[c] \in news
    \/ got[c] \in {"sfu", "promoted"} /\ pc[c] \in Joining
    \/ Moving
Hears(c) == c \in sub \/ (pc[c] = "enter" /\ conn[c] = "open")
TransportOK == sfu => \A c \in Conn : Hears(c) => Informed(c)

HuddleInv == HuddleTypeOK /\ CapOK /\ MemberOK /\ StreamOK /\ TransportOK

LEMMA HuddleConns ==
    ASSUME HuddleTypeOK
    PROVE  /\ \A c \in Conn : UserOf[c] \in User /\ NodeOf[c] \in Node
           /\ setting.meshMax \in Nat /\ setting.sfuMax \in Nat /\ setting.threshold \in Int
           /\ setting.threshold < setting.meshMax /\ setting.threshold < setting.sfuMax
  <1>1. setting \in [meshMax : Nat, threshold : Int, sfuMax : Nat, nodeOf : [Conn -> Node]]
        /\ setting.threshold < setting.meshMax /\ setting.threshold < setting.sfuMax
    BY SettingAssumption DEF HuddleTypeOK
  <1> QED
    BY <1>1, ConnAssumption DEF NodeOf

LEMMA HuddleBegins == HuddleInit => HuddleInv
  <1> SUFFICES ASSUME HuddleInit PROVE HuddleInv
    OBVIOUS
  <1>1. HuddleTypeOK
    <2>1. sfu \in BOOLEAN
      BY DEF HuddleInit
    <2>2. /\ conn \in [Conn -> {"open", "dropped"}]
          /\ pc \in [Conn -> {"idle", "script", "check", "srem", "left"} \cup Joining]
          /\ got \in [Conn -> {"none", "mesh", "sfu", "promoted"}]
          /\ said \in [User -> {"none", "joined", "left"}]
      BY DEF HuddleInit, Joining
    <2>3. promoted \in Nat /\ joins \in 0 .. MaxJoins /\ faults \in 0 .. MaxFaults
      BY BoundAssumption DEF HuddleInit
    <2> QED
      BY <2>1, <2>2, <2>3 DEF HuddleInit, HuddleTypeOK
  <1>2. CapOK
    <2>1. IsFiniteSet({}) /\ Cardinality({}) = 0 /\ members \ revived = {}
      BY FS_EmptySet DEF HuddleInit
    <2> QED
      BY <1>1, <2>1, HuddleConns DEF HuddleInit, CapOK, CapHolds, Limit
  <1>3. MemberOK /\ StreamOK /\ TransportOK
    BY DEF HuddleInit, MemberOK, StreamOK, SaidOK, Own, Leaving, TransportOK
  <1> QED
    BY <1>1, <1>2, <1>3 DEF HuddleInv

-----------------------------------------------------------------------------
(* The steps of a handler and of its client. *)

LEMMA HuddleTypes == HuddleTypeOK /\ [HuddleNext]_huddleVars => HuddleTypeOK'
  <1> SUFFICES ASSUME HuddleTypeOK, [HuddleNext]_huddleVars PROVE HuddleTypeOK'
    OBVIOUS
  <1> USE HuddleConns, BoundAssumption DEF HuddleTypeOK
  <1>1. ASSUME NEW c \in Conn, TryJoin(c) PROVE HuddleTypeOK'
    <2>1. /\ UNCHANGED <<setting, revived, conn, sub, knows, news, said, ghosts, joins>>
          /\ crossed' \subseteq User /\ untold' \subseteq Conn
      BY <1>1 DEF TryJoin, redisVars
    <2>2. CASE /\ Goto(c, "idle") /\ NoFault /\ UNCHANGED <<redisVars, got>>
      BY <2>1, <2>2 DEF Goto, NoFault, redisVars
    <2>3. CASE /\ members' = members \cup {UserOf[c]} /\ sfu' = (sfu \/ Promotes(UserOf[c]))
               /\ promoted' = promoted + IF Promotes(UserOf[c]) THEN 1 ELSE 0
               /\ got' = [got EXCEPT ![c] = IF Promotes(UserOf[c]) THEN "promoted"
                                            ELSE IF sfu THEN "sfu" ELSE "mesh"]
               /\ Goto(c, "enter") /\ NoFault
      <3>1. sfu' \in BOOLEAN
        BY <2>3 DEF Promotes
      <3>2. promoted' \in Nat
        BY <2>3
      <3>3. got' \in [Conn -> {"none", "mesh", "sfu", "promoted"}]
        BY <2>3
      <3>4. pc' \in [Conn -> {"idle", "script", "check", "srem", "left"} \cup Joining]
        BY <2>3 DEF Goto, Joining
      <3> QED
        BY <2>1, <2>3, <3>1, <3>2, <3>3, <3>4 DEF NoFault
    <2>4. CASE /\ Fault /\ got' = [got EXCEPT ![c] = "mesh"]
               /\ Goto(c, "enter") /\ UNCHANGED redisVars
      <3>1. pc' \in [Conn -> {"idle", "script", "check", "srem", "left"} \cup Joining]
        BY <2>4 DEF Goto, Joining
      <3>2. got' \in [Conn -> {"none", "mesh", "sfu", "promoted"}]
        BY <2>4
      <3>3. faults' \in 0 .. MaxFaults
        BY <2>4 DEF Fault
      <3>4. UNCHANGED <<members, sfu, promoted>>
        BY <2>4 DEF redisVars
      <3> QED
        BY <2>1, <3>1, <3>2, <3>3, <3>4
    <2> QED
      BY <1>1, <2>2, <2>3, <2>4 DEF TryJoin
  <1>2. ASSUME NEW c \in Conn, Enter(c) PROVE HuddleTypeOK'
    BY <1>2 DEF Enter, Goto, Joining, redisVars, clientVars
  <1>3. ASSUME NEW c \in Conn, PublishJoined(c) \/ PublishLeft(c) PROVE HuddleTypeOK'
    BY <1>3 DEF PublishJoined, PublishLeft, Publish, Fault, NoFault, Goto, Joining,
       redisVars,
                clientVars
  <1>4. ASSUME NEW c \in Conn, PublishTransport(c) PROVE HuddleTypeOK'
    BY <1>4 DEF PublishTransport, Fault, NoFault, Goto, Joining, redisVars
  <1>5. ASSUME NEW c \in Conn, Snapshot(c) PROVE HuddleTypeOK'
    BY <1>5 DEF Snapshot, Siblings, Goto, redisVars
  <1>6. ASSUME NEW c \in Conn, CheckLocal(c) PROVE HuddleTypeOK'
    BY <1>6 DEF CheckLocal, Goto, redisVars, clientVars
  <1>7. ASSUME NEW c \in Conn, SRem(c) PROVE HuddleTypeOK'
    BY <1>7 DEF SRem, Fault, NoFault, Goto, clientVars
  <1>8. ASSUME NEW c \in Conn, Join(c) PROVE HuddleTypeOK'
    BY <1>8 DEF Join, Goto, redisVars, clientVars
  <1>9. ASSUME NEW c \in Conn, Leave(c) PROVE HuddleTypeOK'
    BY <1>9 DEF Leave, Forget, Goto, redisVars
  <1>10. ASSUME NEW c \in Conn, Close(c) PROVE HuddleTypeOK'
    BY <1>10 DEF Close, Forget, Goto, redisVars
  <1>11. ASSUME NEW c \in Conn, Drop(c) PROVE HuddleTypeOK'
    BY <1>11 DEF Drop, Forget, Fault, redisVars
  <1>12. ASSUME NEW c \in Conn, Heartbeat(c) PROVE HuddleTypeOK'
    BY <1>12 DEF Heartbeat, connVars, clientVars
  <1>13. ASSUME NEW n \in Node, DeliverTransport(n) PROVE HuddleTypeOK'
    BY <1>13 DEF DeliverTransport, redisVars, connVars
  <1>14. ASSUME NEW n \in Node, NodeCrash(n) PROVE HuddleTypeOK'
    BY <1>14 DEF NodeCrash, Fault, redisVars
  <1>15. ASSUME Expire PROVE HuddleTypeOK'
    BY <1>15 DEF Expire, connVars, clientVars
  <1>16. CASE UNCHANGED huddleVars
    BY <1>16 DEF huddleVars
  <1> QED
    BY <1>1, <1>2, <1>3, <1>4, <1>5, <1>6, <1>7, <1>8, <1>9, <1>10, <1>11, <1>12, <1>13,
       <1>14,
       <1>15, <1>16 DEF HuddleNext, HandlerStep

-----------------------------------------------------------------------------
(* The script: the cap and the move. *)

(* Only the script, its counterpart, a heartbeat and time touch the keys. *)
LEMMA HuddleKeys ==
    ASSUME [HuddleNext]_huddleVars,
           \A c \in Conn : ~TryJoin(c) /\ ~SRem(c) /\ ~Heartbeat(c), ~Expire
    PROVE  UNCHANGED <<setting, members, sfu, promoted, revived>>
  BY DEF HuddleNext, HandlerStep, huddleVars, redisVars, Enter, PublishJoined,
     PublishTransport,
         Snapshot, CheckLocal, PublishLeft, Join, Leave, Close, Drop, DeliverTransport, NodeCrash

LEMMA HuddleCap == HuddleTypeOK /\ CapOK /\ [HuddleNext]_huddleVars => CapOK'
  <1> SUFFICES ASSUME HuddleTypeOK, CapOK, [HuddleNext]_huddleVars PROVE CapOK'
    OBVIOUS
  <1> DEFINE S == members \ revived
  <1>1. /\ IsFiniteSet(members) /\ revived \subseteq members /\ sfu \in BOOLEAN
        /\ IsFiniteSet(S) /\ Cardinality(S) \in Nat /\ Cardinality(members) \in Nat
        /\ Cardinality(S) <= Cardinality(members) /\ Cardinality(S) <= Limit
    BY FS_Subset, FS_CardinalityType DEF CapOK, CapHolds, HuddleTypeOK
  <1>2. /\ setting.meshMax \in Nat /\ setting.sfuMax \in Nat /\ setting.threshold \in Int
        /\ setting.threshold < setting.meshMax /\ setting.threshold < setting.sfuMax
    BY HuddleConns
  <1>3. ASSUME NEW c \in Conn, TryJoin(c) PROVE CapOK'
    <2> DEFINE u == UserOf[c]
    <2>1. CASE UNCHANGED redisVars
      BY <2>1 DEF CapOK, CapHolds, Limit, redisVars
    <2>2. CASE /\ ~FullFor(u) /\ members' = members \cup {u} /\ sfu' = (sfu \/ Promotes(u))
               /\ promoted' = promoted + IF Promotes(u) THEN 1 ELSE 0
               /\ UNCHANGED <<setting, revived>>
      <3>1. IsFiniteSet(members') /\ revived' \subseteq members'
        BY <1>1, <2>2, FS_AddElement
      <3>2. promoted' = IF sfu' THEN 1 ELSE 0
        <4>1. CASE Promotes(u)
          <5>1. ~sfu
            BY <4>1 DEF Promotes
          <5>2. sfu'
            BY <2>2, <4>1
          <5>3. promoted = 0 /\ promoted' = promoted + 1
            BY <2>2, <4>1, <5>1 DEF CapOK
          <5> QED
            BY <5>2, <5>3
        <4>2. CASE ~Promotes(u)
          <5>1. sfu' = sfu
            BY <1>1, <2>2, <4>2
          <5>2. promoted' = promoted
            BY <2>2, <4>2 DEF CapOK
          <5> QED
            BY <5>1, <5>2 DEF CapOK
        <4> QED
          BY <4>1, <4>2
      <3>3. Cardinality(members') \in Nat
        BY <3>1, FS_CardinalityType
      <3>4. CASE u \in members
        <4>1. members' = members /\ members' \ revived' = S
          BY <2>2, <3>4
        <4>2. Promotes(u) => ~sfu /\ setting.threshold >= 0
          BY DEF Promotes
        <4>3. CASE Promotes(u)
          <5>1. Cardinality(S) <= setting.threshold /\ sfu'
            BY <2>2, <4>2, <4>3 DEF CapOK
          <5>2. Cardinality(members' \ revived') <= setting'.sfuMax
            BY <1>1, <1>2, <2>2, <4>1, <5>1
          <5> QED
            BY <3>1, <3>2, <5>1, <5>2 DEF CapOK, CapHolds, Limit
        <4>4. CASE ~Promotes(u)
          <5>1. sfu' = sfu
            BY <1>1, <2>2, <4>4
          <5> QED
            BY <2>2, <3>1, <3>2, <4>1, <5>1 DEF CapOK, CapHolds, Limit
        <4> QED
          BY <4>3, <4>4
      <3>5. CASE u \notin members
        <4>1. members' \ revived' = S \cup {u} /\ u \notin S
          BY <1>1, <2>2, <3>5
        <4>2. Cardinality(S \cup {u}) = Cardinality(S) + 1
          BY <1>1, <4>1, FS_AddElement
        <4>3. Cardinality(members') = Cardinality(members) + 1
          BY <1>1, <2>2, <3>5, FS_AddElement
        <4>4. Limit \in Nat /\ ~(Cardinality(members) >= Limit)
          BY <1>2, <2>2, <3>5 DEF FullFor, Limit
        <4>5. Cardinality(S) + 1 <= Limit
          BY <1>1, <4>4
        <4>6. CASE sfu
          <5>1. sfu' /\ Limit' = Limit
            BY <2>2, <4>6 DEF Limit
          <5> QED
            BY <3>1, <3>2, <4>1, <4>2, <4>5, <5>1 DEF CapOK, CapHolds
        <4>7. CASE ~sfu /\ Promotes(u)
          <5>1. sfu' /\ Limit' = setting.sfuMax
            BY <2>2, <4>7 DEF Limit
          <5>2. Cardinality(S) <= setting.threshold
            BY <4>7 DEF Promotes, CapOK
          <5>3. Cardinality(S) + 1 <= setting.sfuMax
            BY <1>1, <1>2, <5>2
          <5> QED
            BY <3>1, <3>2, <4>1, <4>2, <5>1, <5>3 DEF CapOK, CapHolds
        <4>8. CASE ~sfu /\ ~Promotes(u)
          <5>1. ~sfu' /\ Limit' = Limit
            BY <1>1, <2>2, <4>8 DEF Limit
          <5>2. setting.threshold >= 0 => Cardinality(members') <= setting.threshold
            BY <1>2, <2>2, <3>3, <4>8 DEF Promotes
          <5>3. setting.threshold >= 0 => Cardinality(S) + 1 <= setting.threshold
            BY <1>1, <1>2, <4>3, <5>2
          <5> QED
            BY <2>2, <3>1, <3>2, <4>1, <4>2, <4>5, <5>1, <5>3 DEF CapOK, CapHolds
        <4> QED
          BY <4>6, <4>7, <4>8
      <3> QED
        BY <3>4, <3>5
    <2> QED
      BY <1>3, <2>1, <2>2 DEF TryJoin, redisVars
  <1>4. ASSUME NEW c \in Conn, SRem(c) PROVE CapOK'
    <2>1. UNCHANGED <<setting, sfu, promoted>>
      BY <1>4 DEF SRem
    <2>2. CASE UNCHANGED <<members, revived>>
      BY <2>1, <2>2 DEF CapOK, CapHolds, Limit
    <2>3. CASE members' = members \ {UserOf[c]} /\ revived' = revived \ {UserOf[c]}
      <3>1. members' \subseteq members /\ members' \ revived' \subseteq S /\ revived' \subseteq members'
        BY <1>1, <2>3
      <3>2. /\ IsFiniteSet(members') /\ Cardinality(members' \ revived') \in Nat
            /\ Cardinality(members' \ revived') <= Cardinality(S)
        BY <1>1, <3>1, FS_Subset, FS_CardinalityType
      <3>3. Limit' = Limit /\ Limit \in Nat
        BY <1>2, <2>1 DEF Limit
      <3>4. Cardinality(members' \ revived') <= Limit
        BY <1>1, <3>2, <3>3
      <3>5. ~sfu' /\ setting'.threshold >= 0 => Cardinality(members' \ revived') <= setting'.threshold
        BY <1>1, <1>2, <2>1, <3>2 DEF CapOK
      <3> QED
        BY <2>1, <3>1, <3>2, <3>3, <3>4, <3>5 DEF CapOK, CapHolds
    <2> QED
      BY <1>4, <2>2, <2>3 DEF SRem
  <1>5. ASSUME NEW c \in Conn, Heartbeat(c) PROVE CapOK'
    <2>1. /\ members' = members \cup {UserOf[c]} /\ revived' = revived \cup {UserOf[c]}
          /\ UserOf[c] \notin members /\ UNCHANGED <<setting, sfu, promoted>>
      BY <1>5 DEF Heartbeat
    <2>2. members' \ revived' = S /\ revived' \subseteq members'
      BY <1>1, <2>1
    <2>3. IsFiniteSet(members')
      BY <1>1, <2>1, FS_AddElement
    <2> QED
      BY <2>1, <2>2, <2>3 DEF CapOK, CapHolds, Limit
  <1>6. ASSUME Expire PROVE CapOK'
    <2>1. members' = {} /\ revived' = {} /\ sfu' = FALSE /\ promoted' = 0 /\ setting' = setting
      BY <1>6 DEF Expire
    <2>2. IsFiniteSet({}) /\ Cardinality({}) = 0 /\ members' \ revived' = {}
      BY <2>1, FS_EmptySet
    <2> QED
      BY <1>2, <2>1, <2>2 DEF CapOK, CapHolds, Limit
  <1>7. CASE UNCHANGED <<setting, members, sfu, promoted, revived>>
    BY <1>7 DEF CapOK, CapHolds, Limit
  <1> QED
    BY <1>3, <1>4, <1>5, <1>6, <1>7, HuddleKeys

-----------------------------------------------------------------------------
(* What a step leaves of the handlers: one of them moves, a node's go, or  *)
(* none does.                                                              *)

Elsewhere(c) ==
    /\ \A d \in Conn \ {c} : pc'[d] = pc[d] /\ got'[d] = got[d] /\ conn'[d] = conn[d]
    /\ \A d \in Conn \ {c} : d \in sub' <=> d \in sub
    /\ \A u \in User \ {UserOf[c]} : said'[u] = said[u] /\ (u \in members' <=> u \in members)
    /\ crossed \subseteq crossed' /\ setting' = setting

LEMMA HuddleMoves ==
    ASSUME HuddleTypeOK, NEW c \in Conn, NEW label, Goto(c, label)
    PROVE  pc'[c] = label /\ \A d \in Conn \ {c} : pc'[d] = pc[d]
  BY DEF Goto, HuddleTypeOK

LEMMA HuddleElsewhere ==
    ASSUME HuddleTypeOK, NEW c \in Conn,
           HandlerStep(c) \/ Join(c) \/ Leave(c) \/ Close(c) \/ Drop(c) \/ Heartbeat(c)
    PROVE  Elsewhere(c)
  <1> USE HuddleMoves, HuddleConns
  <1>1. CASE TryJoin(c)
    <2>1. UNCHANGED <<setting, conn, sub, said>> /\ crossed \subseteq crossed'
      BY <1>1 DEF TryJoin, redisVars
    <2>2. \E label : Goto(c, label)
      BY <1>1 DEF TryJoin
    <2>3. members' = members \/ members' = members \cup {UserOf[c]}
      BY <1>1 DEF TryJoin, redisVars
    <2>4. got' = got \/ \E x : got' = [got EXCEPT ![c] = x]
      BY <1>1 DEF TryJoin
    <2> QED
      BY <2>1, <2>2, <2>3, <2>4 DEF Elsewhere, HuddleTypeOK
  <1>2. CASE Enter(c)
    BY <1>2 DEF Enter, Elsewhere, redisVars, HuddleTypeOK
  <1>3. CASE PublishJoined(c) \/ PublishLeft(c)
    <2>1. UNCHANGED <<redisVars, conn, sub, got>> /\ crossed \subseteq crossed'
      BY <1>3 DEF PublishJoined, PublishLeft, Publish
    <2>2. \E label : Goto(c, label)
      BY <1>3 DEF PublishJoined, PublishLeft
    <2>3. said' = said \/ \E x : said' = [said EXCEPT ![UserOf[c]] = x]
      BY <1>3 DEF PublishJoined, PublishLeft, Publish
    <2> QED
      BY <2>1, <2>2, <2>3 DEF Elsewhere, redisVars, HuddleTypeOK
  <1>4. CASE PublishTransport(c)
    BY <1>4 DEF PublishTransport, Elsewhere, redisVars
  <1>5. CASE Snapshot(c)
    BY <1>5 DEF Snapshot, Elsewhere, redisVars, HuddleTypeOK
  <1>6. CASE CheckLocal(c)
    <2>1. UNCHANGED <<redisVars, conn, sub, got, said>> /\ crossed \subseteq crossed'
      BY <1>6 DEF CheckLocal
    <2>2. \E label : Goto(c, label)
      BY <1>6 DEF CheckLocal
    <2> QED
      BY <2>1, <2>2 DEF Elsewhere, redisVars
  <1>7. CASE SRem(c)
    <2>1. UNCHANGED <<setting, conn, sub, got, said, crossed>>
      BY <1>7 DEF SRem
    <2>2. \E label : Goto(c, label)
      BY <1>7 DEF SRem
    <2>3. members' = members \/ members' = members \ {UserOf[c]}
      BY <1>7 DEF SRem
    <2> QED
      BY <2>1, <2>2, <2>3 DEF Elsewhere
  <1>8. CASE Join(c)
    BY <1>8 DEF Join, Elsewhere, redisVars
  <1>9. CASE Leave(c)
    BY <1>9 DEF Leave, Elsewhere, redisVars
  <1>10. CASE Close(c)
    <2>1. UNCHANGED <<redisVars, got, said, crossed>> /\ sub' = sub \ {c}
      BY <1>10 DEF Close
    <2>2. \E label : Goto(c, label)
      BY <1>10 DEF Close
    <2>3. \E x : conn' = [conn EXCEPT ![c] = x]
      BY <1>10 DEF Close
    <2> QED
      BY <2>1, <2>2, <2>3 DEF Elsewhere, redisVars, HuddleTypeOK
  <1>11. CASE Drop(c)
    BY <1>11 DEF Drop, Elsewhere, redisVars, HuddleTypeOK
  <1>12. CASE Heartbeat(c)
    BY <1>12 DEF Heartbeat, Elsewhere, connVars
  <1> QED
    BY <1>1, <1>2, <1>3, <1>4, <1>5, <1>6, <1>7, <1>8, <1>9, <1>10, <1>11, <1>12
       DEF HandlerStep

-----------------------------------------------------------------------------
(* Members. *)

(* A step of a connection that keeps its member, has none or gives it up. *)
LEMMA HuddleKeeps ==
    ASSUME HuddleTypeOK, MemberOK, NEW c \in Conn, Elsewhere(c),
           \A u \in User \ {UserOf[c]} : u \in ghosts => u \in ghosts',
           members' \subseteq User, sub' \subseteq Conn,
           UserOf[c] \in members' \ ghosts' =>
               \/ Keeps(c)'
               \/ \E d \in sub' : UserOf[d] = UserOf[c]
               \/ ~Keeps(c) /\ UserOf[c] \in members \ ghosts
    PROVE  MemberOK'
  <1>1. SUFFICES ASSUME NEW u \in members' \ ghosts'
                 PROVE  \E d \in Conn : UserOf[d] = u /\ Keeps(d)'
    BY DEF MemberOK
  <1>2. CASE u # UserOf[c]
    <2>1. u \in members \ ghosts
      BY <1>2 DEF Elsewhere
    <2>2. PICK d \in Conn : UserOf[d] = u /\ Keeps(d)
      BY <2>1 DEF MemberOK
    <2>3. d # c
      BY <1>2, <2>2
    <2> QED
      BY <2>2, <2>3 DEF Keeps, Elsewhere
  <1>3. CASE u = UserOf[c] /\ Keeps(c)'
    BY <1>3
  <1>4. CASE u = UserOf[c] /\ \E d \in sub' : UserOf[d] = u
    <2>1. PICK d \in sub' : UserOf[d] = u
      BY <1>4
    <2>2. d \in Conn
      BY <2>1
    <2> QED
      BY <2>1, <2>2 DEF Keeps
  <1>5. CASE u = UserOf[c] /\ ~Keeps(c) /\ u \in members \ ghosts
    <2>1. PICK d \in Conn : UserOf[d] = u /\ Keeps(d)
      BY <1>5 DEF MemberOK
    <2>2. d # c
      BY <1>5, <2>1
    <2> QED
      BY <2>1, <2>2 DEF Keeps, Elsewhere
  <1> QED
    BY <1>2, <1>3, <1>4, <1>5

LEMMA HuddleMembers ==
    ASSUME HuddleTypeOK, HuddleTypeOK', MemberOK, [HuddleNext]_huddleVars
    PROVE  MemberOK'
  <1> USE HuddleConns
  <1>0. members' \subseteq User /\ sub' \subseteq Conn
    BY DEF HuddleTypeOK
  <1>1. ASSUME NEW c \in Conn,
               HandlerStep(c) \/ Join(c) \/ Leave(c) \/ Close(c) \/ Drop(c) \/ Heartbeat(c)
        PROVE  MemberOK'
    <2>1. Elsewhere(c)
      BY <1>1, HuddleElsewhere
    <2>2. CASE TryJoin(c)
      <3>1. ghosts' = ghosts /\ sub' = sub /\ pc[c] = "script"
        BY <2>2 DEF TryJoin
      <3>2. \/ UNCHANGED members
            \/ pc'[c] = "enter"
        BY <2>2, HuddleMoves DEF TryJoin, redisVars
      <3> QED
        BY <1>0, <2>1, <3>1, <3>2, HuddleKeeps DEF Keeps
    <2>3. CASE Enter(c)
      <3>1. /\ members' = members /\ ghosts \subseteq ghosts'
            /\ c \in sub' \/ UserOf[c] \in ghosts'
        BY <2>3 DEF Enter, redisVars
      <3> QED
        BY <1>0, <2>1, <3>1, HuddleKeeps DEF Keeps
    <2>4. CASE PublishJoined(c) \/ PublishTransport(c) \/ Snapshot(c) \/ PublishLeft(c) \/ Join(c)
      <3>1. /\ UNCHANGED <<members, ghosts, sub>>
            /\ pc[c] \notin {"enter", "check", "srem"}
        BY <2>4 DEF PublishJoined, PublishTransport, Snapshot, PublishLeft, Join, redisVars
      <3> QED
        BY <1>0, <2>1, <3>1, HuddleKeeps DEF Keeps
    <2>5. CASE CheckLocal(c)
      <3>1. UNCHANGED <<members, ghosts, sub>>
        BY <2>5 DEF CheckLocal, redisVars
      <3>2. pc'[c] = "srem" \/ \E d \in sub : UserOf[d] = UserOf[c]
        BY <2>5, HuddleMoves DEF CheckLocal
      <3> QED
        BY <1>0, <2>1, <3>1, <3>2, HuddleKeeps DEF Keeps
    <2>6. CASE SRem(c)
      <3>1. /\ UserOf[c] \notin members' \ ghosts'
            /\ \A u \in User \ {UserOf[c]} : u \in ghosts => u \in ghosts'
        BY <2>6 DEF SRem
      <3> QED
        BY <1>0, <2>1, <3>1, HuddleKeeps
    <2>7. CASE Leave(c) \/ Close(c)
      <3>1. UNCHANGED <<members, ghosts>> /\ pc[c] = "idle"
        BY <2>7 DEF Leave, Close, redisVars
      <3>2. c \in sub => pc'[c] = "check"
        BY <2>7, HuddleMoves DEF Leave, Close
      <3> QED
        BY <1>0, <2>1, <3>1, <3>2, HuddleKeeps DEF Keeps
    <2>8. CASE Drop(c)
      <3>1. /\ UNCHANGED <<members, pc>> /\ ghosts \subseteq ghosts'
            /\ c \in sub => UserOf[c] \in ghosts'
        BY <2>8 DEF Drop, redisVars
      <3> QED
        BY <1>0, <2>1, <3>1, HuddleKeeps DEF Keeps
    <2>9. CASE Heartbeat(c)
      <3>1. c \in sub' /\ ghosts' = ghosts
        BY <2>9 DEF Heartbeat, connVars
      <3> QED
        BY <1>0, <2>1, <3>1, HuddleKeeps DEF Keeps
    <2> QED
      BY <1>1, <2>2, <2>3, <2>4, <2>5, <2>6, <2>7, <2>8, <2>9 DEF HandlerStep
  <1>2. ASSUME NEW n \in Node, NodeCrash(n) PROVE MemberOK'
    <2> DEFINE here == {c \in Conn : NodeOf[c] = n}
    <2>1. /\ members' = members /\ ghosts \subseteq ghosts' /\ sub' = sub \ here
          /\ pc' = [c \in Conn |-> IF c \in here THEN "idle" ELSE pc[c]]
          /\ \A c \in here : Keeps(c) => UserOf[c] \in ghosts'
      BY <1>2 DEF NodeCrash, redisVars, Keeps
    <2>2. \A c \in Conn \ here : Keeps(c) => Keeps(c)'
      BY <2>1 DEF Keeps
    <2> HIDE DEF here
    <2> QED
      BY <2>1, <2>2 DEF MemberOK
  <1>3. ASSUME NEW n \in Node, DeliverTransport(n) PROVE MemberOK'
    BY <1>3 DEF DeliverTransport, redisVars, connVars, MemberOK, Keeps
  <1>4. CASE Expire
    BY <1>4 DEF Expire, MemberOK
  <1>5. CASE UNCHANGED huddleVars
    BY <1>5 DEF huddleVars, MemberOK, Keeps
  <1> QED
    BY <1>1, <1>2, <1>3, <1>4, <1>5 DEF HuddleNext

-----------------------------------------------------------------------------
(* The stream. *)

(* Who leaves is not in the call. *)
LEMMA HuddleLeaving ==
    ASSUME HuddleTypeOK, StreamOK, [HuddleNext]_huddleVars
    PROVE  \A c \in Conn : pc'[c] \in Leaving => c \notin sub'
  <1> USE HuddleConns
  <1>1. ASSUME NEW c \in Conn,
               HandlerStep(c) \/ Join(c) \/ Leave(c) \/ Close(c) \/ Drop(c) \/ Heartbeat(c)
        PROVE  \A d \in Conn : pc'[d] \in Leaving => d \notin sub'
    <2>1. \A d \in Conn \ {c} : pc'[d] \in Leaving => d \notin sub'
      BY <1>1, HuddleElsewhere DEF Elsewhere, StreamOK
    <2>2. CASE TryJoin(c) \/ Enter(c) \/ PublishJoined(c) \/ PublishTransport(c) \/ Snapshot(c)
      BY <2>1, <2>2, HuddleMoves
         DEF TryJoin, Enter, PublishJoined, PublishTransport, Snapshot, Leaving
    <2>3. CASE CheckLocal(c) \/ SRem(c) \/ PublishLeft(c)
      <3>1. sub' = sub /\ pc[c] \in Leaving
        BY <2>3 DEF CheckLocal, SRem, PublishLeft, Leaving
      <3> QED
        BY <2>1, <3>1 DEF StreamOK
    <2>4. CASE Join(c) \/ Leave(c) \/ Close(c) \/ Drop(c) \/ Heartbeat(c)
      <3>1. \/ Goto(c, "script")
            \/ sub' = sub \ {c}
            \/ UNCHANGED <<sub, pc>>
        BY <2>4 DEF Join, Leave, Close, Drop, Heartbeat, connVars
      <3> QED
        BY <2>1, <3>1, HuddleMoves DEF StreamOK, Leaving
    <2> QED
      BY <1>1, <2>2, <2>3, <2>4 DEF HandlerStep
  <1>2. ASSUME NEW n \in Node, NodeCrash(n)
        PROVE  \A d \in Conn : pc'[d] \in Leaving => d \notin sub'
    BY <1>2 DEF NodeCrash, StreamOK, Leaving
  <1>3. CASE UNCHANGED connVars
    BY <1>3 DEF connVars, StreamOK
  <1> QED
    BY <1>1, <1>2, <1>3 DEF HuddleNext, DeliverTransport, Expire, huddleVars, connVars

(* A user whose connections a step leaves alone. *)
LEMMA HuddleSame ==
    ASSUME NEW u \in User, SaidOK(u), said'[u] = said[u], u \in members' <=> u \in members,
           \A c \in Own(u) : pc'[c] = pc[c] /\ (c \in sub' <=> c \in sub)
    PROVE  SaidOK(u)'
  BY DEF SaidOK, Own

(* A join, up to the snapshot, of a user with nothing lost or crossed. *)
LEMMA HuddleSaidJoining ==
    ASSUME HuddleTypeOK, StreamOK, NEW c \in Conn, Elsewhere(c),
           NEW u \in User \ crossed', UserOf[c] = u,
           TryJoin(c) \/ Enter(c) \/ PublishJoined(c) \/ PublishTransport(c) \/ Snapshot(c)
           \/ Join(c)
    PROVE  SaidOK(u)'
  <1> USE HuddleConns
  <1>0. /\ u \in User /\ u \notin crossed /\ SaidOK(u) /\ c \in Own(u)
        /\ \A d \in Own(u) : d \in Conn /\ (d # c => pc'[d] = pc[d] /\ (d \in sub' <=> d \in sub))
    BY DEF Elsewhere, StreamOK, Own
  <1>own. Own(u)' = Own(u)
    BY DEF Own
  <1>1. CASE TryJoin(c)
    <2>1. /\ pc[c] = "script" /\ sub' = sub /\ said' = said
          /\ \A d \in Own(u) : pc[d] \notin {"srem", "left"}
      BY <1>0, <1>1 DEF TryJoin, Siblings, Own
    <2>2. faults' = faults
      BY <1>0, <1>1 DEF TryJoin
    <2>3. \/ pc'[c] = "idle" /\ members' = members
          \/ pc'[c] = "enter" /\ u \in members'
      <3>1. faults \in Int
        BY DEF HuddleTypeOK
      <3>2. ~Fault
        BY <2>2, <3>1 DEF Fault
      <3> QED
        BY <1>1, <3>2, HuddleMoves DEF TryJoin, redisVars
    <2> QED
      BY <1>0, <1>own, <2>1, <2>3 DEF SaidOK
  <1>2. CASE Enter(c)
    <2>1. /\ pc[c] = "enter" /\ pc'[c] = "joined" /\ sub' = sub \cup {c}
          /\ UNCHANGED <<said, members>>
      BY <1>0, <1>2, HuddleMoves DEF Enter, redisVars
    <2> QED
      BY <1>0, <1>own, <2>1 DEF SaidOK
  <1>3. CASE PublishJoined(c)
    <2>1. /\ pc[c] = "joined" /\ pc'[c] \in {"transport", "snapshot"}
          /\ UNCHANGED <<sub, members>> /\ said'[u] = "joined"
      BY <1>0, <1>3, HuddleMoves DEF PublishJoined, Publish, redisVars, HuddleTypeOK
    <2> QED
      BY <1>0, <1>own, <2>1 DEF SaidOK
  <1>4. CASE PublishTransport(c) \/ Snapshot(c) \/ Join(c)
    <2>1. /\ pc[c] \in {"transport", "snapshot", "idle"}
          /\ pc'[c] \in {"snapshot", "idle", "script"}
          /\ pc'[c] = "snapshot" => pc[c] = "transport"
          /\ UNCHANGED <<sub, members, said>>
      BY <1>4, HuddleMoves DEF PublishTransport, Snapshot, Join, redisVars
    <2> QED
      BY <1>0, <1>own, <2>1 DEF SaidOK
  <1> QED
    BY <1>1, <1>2, <1>3, <1>4

(* A leave or the end of a connection, likewise. *)
LEMMA HuddleSaidLeaving ==
    ASSUME HuddleTypeOK, StreamOK, NEW c \in Conn, Elsewhere(c),
           NEW u \in User \ crossed', UserOf[c] = u,
           Leave(c) \/ Close(c) \/ Drop(c) \/ CheckLocal(c) \/ SRem(c) \/ PublishLeft(c)
           \/ Heartbeat(c)
    PROVE  SaidOK(u)'
  <1> USE HuddleConns
  <1>0. /\ u \in User /\ u \notin crossed /\ SaidOK(u) /\ c \in Own(u)
        /\ \A d \in Own(u) : d \in Conn /\ (d # c => pc'[d] = pc[d] /\ (d \in sub' <=> d \in sub))
    BY DEF Elsewhere, StreamOK, Own
  <1>own. Own(u)' = Own(u)
    BY DEF Own
  <1>1. CASE Leave(c) \/ Close(c)
    <2>1. /\ pc[c] = "idle" /\ pc'[c] \in {"check", "idle"} /\ (c \in sub => pc'[c] = "check")
          /\ sub' = sub \ {c} /\ UNCHANGED <<said, members>>
      BY <1>1, HuddleMoves DEF Leave, Close, redisVars
    <2> QED
      BY <1>0, <1>own, <2>1 DEF SaidOK
  <1>2. CASE Drop(c)
    <2>1. c \notin sub /\ sub' = sub /\ UNCHANGED <<said, members, pc>>
      BY <1>0, <1>2 DEF Drop, redisVars
    <2> QED
      BY <1>0, <2>1, HuddleSame
  <1>3. CASE CheckLocal(c)
    <2>1. /\ pc[c] = "check" /\ UNCHANGED <<said, members, sub>>
          /\ pc'[c] = "srem" \/ (pc'[c] = "idle" /\ \E d \in sub : UserOf[d] = u)
      BY <1>3, HuddleMoves DEF CheckLocal, redisVars
    <2>2. pc'[c] = "srem" => \A d \in Own(u) : d \notin sub /\ pc'[d] # "enter"
      <3>1. ASSUME pc'[c] = "srem", NEW d \in Own(u) PROVE d \notin sub /\ pc'[d] # "enter"
        <4>1. CASE d = c
          BY <2>1, <3>1, <4>1 DEF StreamOK, Leaving
        <4>2. CASE d # c
          <5>1. d \in Siblings(c)
            BY <3>1, <4>2 DEF Siblings, Own
          <5>2. pc[d] # "enter" /\ ~(NodeOf[d] # NodeOf[c] /\ Listening(d))
            BY <1>0, <1>3, <5>1 DEF CheckLocal
          <5>3. ~\E e \in sub : UserOf[e] = u /\ NodeOf[e] = NodeOf[c]
            BY <1>3, <3>1, HuddleMoves DEF CheckLocal
          <5> QED
            BY <1>0, <4>2, <5>1, <5>2, <5>3 DEF Listening, Siblings
        <4> QED
          BY <4>1, <4>2
      <3> QED
        BY <3>1
    <2>3. (\E d \in sub : UserOf[d] = u) => \E d \in Own(u) : d \in sub
      BY DEF Own, HuddleTypeOK
    <2>4. \A d \in Own(u) : d # c => pc[d] = pc'[d]
      BY <1>0
    <2> QED
      BY <1>0, <1>own, <2>1, <2>2, <2>3, <2>4 DEF SaidOK
  <1>4. CASE SRem(c)
    <2>1. /\ pc[c] = "srem" /\ UNCHANGED <<said, sub>>
          /\ \/ pc'[c] = "left"
             \/ pc'[c] = "idle" /\ u \notin members /\ u \notin members'
      BY <1>4, HuddleMoves DEF SRem
    <2> QED
      BY <1>0, <1>own, <2>1 DEF SaidOK
  <1>5. CASE PublishLeft(c)
    <2>1. /\ pc[c] = "left" /\ pc'[c] = "idle" /\ UNCHANGED <<members, sub>> /\ said'[u] = "left"
      BY <1>0, <1>5, HuddleMoves DEF PublishLeft, Publish, redisVars, HuddleTypeOK
    <2> QED
      BY <1>0, <1>own, <2>1 DEF SaidOK
  <1>6. CASE Heartbeat(c)
    BY <1>0, <1>6 DEF Heartbeat, SaidOK
  <1> QED
    BY <1>1, <1>2, <1>3, <1>4, <1>5, <1>6

LEMMA HuddleStream ==
    ASSUME HuddleTypeOK, StreamOK, [HuddleNext]_huddleVars
    PROVE  StreamOK'
  <1> USE HuddleConns
  <1>0. \A c \in Conn : pc'[c] \in Leaving => c \notin sub'
    BY HuddleLeaving
  <1>1. ASSUME NEW c \in Conn,
               HandlerStep(c) \/ Join(c) \/ Leave(c) \/ Close(c) \/ Drop(c) \/ Heartbeat(c),
               NEW u \in User \ crossed'
        PROVE  SaidOK(u)'
    <2>1. Elsewhere(c)
      BY <1>1, HuddleElsewhere
    <2>2. CASE u # UserOf[c]
      <3>1. SaidOK(u) /\ \A d \in Own(u) : d \in Conn \ {c}
        BY <2>1, <2>2 DEF Elsewhere, StreamOK, Own
      <3> QED
        BY <2>1, <2>2, <3>1, HuddleSame DEF Elsewhere
    <2>3. CASE u = UserOf[c]
      BY <1>1, <2>1, <2>3, HuddleSaidJoining, HuddleSaidLeaving DEF HandlerStep
    <2> QED
      BY <2>2, <2>3
  <1>2. ASSUME NEW n \in Node, NodeCrash(n), NEW u \in User \ crossed' PROVE SaidOK(u)'
    <2> DEFINE here == {c \in Conn : NodeOf[c] = n}
    <2>1. /\ UNCHANGED <<said, members>> /\ crossed \subseteq crossed' /\ sub' = sub \ here
          /\ pc' = [c \in Conn |-> IF c \in here THEN "idle" ELSE pc[c]]
          /\ \A c \in here : c \in sub \/ pc[c] # "idle" => UserOf[c] \in crossed'
      BY <1>2 DEF NodeCrash, redisVars
    <2>2. \A c \in Own(u) : c \in Conn /\ (c \in here => c \notin sub /\ pc[c] = "idle")
      BY <1>2, <2>1 DEF Own
    <2> HIDE DEF here
    <2>3. \A c \in Own(u) : pc'[c] = pc[c] /\ (c \in sub' <=> c \in sub)
      BY <2>1, <2>2
    <2>4. SaidOK(u)
      BY <1>2, <2>1 DEF StreamOK
    <2> QED
      BY <2>1, <2>3, <2>4, HuddleSame
  <1>3. ASSUME Expire, NEW u \in User \ crossed' PROVE SaidOK(u)'
    <2>1. /\ sub = {} /\ sub' = {} /\ UNCHANGED <<pc, said, crossed>>
          /\ \A c \in Conn : pc[c] = "idle"
      BY <1>3 DEF Expire, connVars
    <2>2. SaidOK(u) /\ \A c \in Own(u) : c \in Conn
      BY <1>3, <2>1 DEF StreamOK, Own
    <2>3. said[u] # "joined"
      BY <2>1, <2>2 DEF SaidOK
    <2> QED
      BY <2>1, <2>2, <2>3 DEF SaidOK, Own
  <1>4. ASSUME UNCHANGED <<connVars, said, members, crossed>>, NEW u \in User \ crossed'
        PROVE  SaidOK(u)'
    BY <1>4, HuddleSame DEF connVars, StreamOK
  <1> QED
    BY <1>0, <1>1, <1>2, <1>3, <1>4
       DEF HuddleNext, DeliverTransport, huddleVars, connVars, redisVars, StreamOK

-----------------------------------------------------------------------------
(* The transport. *)

(* What a connection other than the one that moves was told, it still has  *)
(* been, and whoever moves the call is still about to say so.              *)
LEMMA HuddleInforms ==
    ASSUME HuddleTypeOK, TransportOK, NEW c \in Conn, Elsewhere(c),
           sfu' => sfu,
           \A d \in Conn \ {c} : d \in knows \cup untold => d \in knows' \cup untold',
           news \subseteq news',
           got[c] = "promoted" /\ pc[c] \in {"enter", "joined", "transport"} =>
               got'[c] = "promoted" /\ pc'[c] \in {"enter", "joined", "transport"},
           sfu /\ Hears(c)' => Hears(c) \/ Informed(c)',
           sfu /\ Hears(c)' /\ Hears(c) =>
               /\ c \in knows \cup untold => c \in knows' \cup untold'
               /\ got[c] \in {"sfu", "promoted"} /\ pc[c] \in Joining => Informed(c)'
    PROVE  TransportOK'
  <1>0. NodeOf' = NodeOf
    BY DEF NodeOf, Elsewhere
  <1>1. Moving => Moving'
    BY DEF Moving, Elsewhere
  <1>2. SUFFICES ASSUME sfu, NEW d \in Conn, Hears(d)' PROVE Informed(d)'
    BY DEF TransportOK
  <1>3. CASE d # c
    <2>1. Hears(d)
      BY <1>2, <1>3 DEF Hears, Elsewhere
    <2>2. Informed(d)
      BY <1>2, <2>1 DEF TransportOK
    <2> QED
      BY <1>0, <1>1, <1>3, <2>2 DEF Informed, Elsewhere
  <1>4. CASE d = c /\ Hears(c)
    <2>1. Informed(c)
      BY <1>2, <1>4 DEF TransportOK
    <2> QED
      BY <1>0, <1>1, <1>2, <1>4, <2>1 DEF Informed
  <1> QED
    BY <1>2, <1>3, <1>4

LEMMA HuddleTransport ==
    ASSUME HuddleTypeOK, TransportOK, [HuddleNext]_huddleVars
    PROVE  TransportOK'
  <1> USE HuddleConns
  <1>1. ASSUME NEW c \in Conn, TryJoin(c) PROVE TransportOK'
    <2>1. Elsewhere(c)
      BY <1>1, HuddleElsewhere DEF HandlerStep
    <2>2. pc[c] = "script" /\ UNCHANGED <<conn, sub, knows, news>> /\ untold \subseteq untold'
      BY <1>1 DEF TryJoin
    <2>3. CASE Promotes(UserOf[c]) /\ Goto(c, "enter")
               /\ got' = [got EXCEPT ![c] = IF Promotes(UserOf[c]) THEN "promoted"
                                            ELSE IF sfu THEN "sfu" ELSE "mesh"]
      <3>1. got'[c] = "promoted" /\ pc'[c] = "enter"
        BY <2>3, HuddleMoves DEF HuddleTypeOK
      <3> QED
        BY <3>1 DEF TransportOK, Informed, Moving
    <2>4. CASE Goto(c, "idle") /\ sfu' = sfu
      <3>1. pc'[c] = "idle"
        BY <2>4, HuddleMoves
      <3> QED
        BY <2>1, <2>2, <2>4, <3>1, HuddleInforms DEF Hears, Joining
    <2>5. CASE ~Promotes(UserOf[c]) /\ Goto(c, "enter") /\ sfu' = (sfu \/ Promotes(UserOf[c]))
               /\ got' = [got EXCEPT ![c] = IF Promotes(UserOf[c]) THEN "promoted"
                                            ELSE IF sfu THEN "sfu" ELSE "mesh"]
      <3>1. pc'[c] = "enter" /\ (sfu => got'[c] = "sfu") /\ (sfu' => sfu)
        BY <2>5, HuddleMoves DEF HuddleTypeOK
      <3>2. sfu => Informed(c)'
        BY <3>1 DEF Informed, Joining
      <3> QED
        BY <2>1, <2>2, <3>1, <3>2, HuddleInforms
    <2>6. CASE Fault /\ Goto(c, "enter") /\ sfu' = sfu
      <3>1. faults \in Int
        BY DEF HuddleTypeOK
      <3>2. faults' # faults
        BY <2>6, <3>1 DEF Fault
      <3>3. c \in untold'
        BY <1>1, <3>2 DEF TryJoin
      <3>4. Informed(c)'
        BY <3>3 DEF Informed
      <3> QED
        BY <2>1, <2>2, <2>6, <3>3, <3>4, HuddleInforms
    <2> QED
      BY <1>1, <2>3, <2>4, <2>5, <2>6 DEF TryJoin, redisVars
  <1>2. ASSUME NEW c \in Conn, Enter(c) \/ PublishJoined(c) PROVE TransportOK'
    <2>1. Elsewhere(c)
      BY <1>2, HuddleElsewhere DEF HandlerStep
    <2>2. /\ pc[c] \in {"enter", "joined"} /\ pc'[c] \in {"joined", "transport", "snapshot"}
          /\ UNCHANGED <<sfu, got, conn, knows, news, untold>>
          /\ got[c] = "promoted" => pc'[c] \in {"joined", "transport"}
      BY <1>2, HuddleMoves DEF Enter, PublishJoined, redisVars, clientVars
    <2>3. c \in sub' => Hears(c)
      BY <1>2 DEF Enter, PublishJoined, Hears
    <2>4. got[c] \in {"sfu", "promoted"} => Informed(c)'
      BY <2>2 DEF Informed, Joining
    <2> QED
      BY <2>1, <2>2, <2>3, <2>4, HuddleInforms DEF Hears
  <1>3. ASSUME NEW c \in Conn, PublishTransport(c) PROVE TransportOK'
    <2>1. news' = Node \/ untold' = Conn
      BY <1>3 DEF PublishTransport
    <2>2. setting' = setting
      BY <1>3 DEF PublishTransport, redisVars
    <2>3. \A d \in Conn : Informed(d)'
      BY <2>1, <2>2 DEF Informed, NodeOf
    <2> QED
      BY <2>3 DEF TransportOK
  <1>4. ASSUME NEW c \in Conn, Snapshot(c) PROVE TransportOK'
    <2>1. Elsewhere(c)
      BY <1>4, HuddleElsewhere DEF HandlerStep
    <2>2. /\ pc[c] = "snapshot" /\ pc'[c] = "idle" /\ knows \subseteq knows'
          /\ UNCHANGED <<sfu, sub, conn, news, untold>>
      BY <1>4, HuddleMoves DEF Snapshot, redisVars
    <2>3. c \in sub /\ got[c] # "mesh" => c \in knows'
      BY <1>4 DEF Snapshot, Listening, HuddleTypeOK
    <2>4. c \in sub /\ got[c] # "mesh" => Informed(c)'
      BY <2>3 DEF Informed
    <2> QED
      BY <2>1, <2>2, <2>4, HuddleInforms DEF Hears
  <1>5. ASSUME NEW c \in Conn, CheckLocal(c) \/ SRem(c) \/ PublishLeft(c) \/ Join(c)
        PROVE  TransportOK'
    <2>1. Elsewhere(c)
      BY <1>5, HuddleElsewhere DEF HandlerStep
    <2>2. /\ pc[c] \in {"check", "srem", "left", "idle"}
          /\ pc'[c] \in {"idle", "srem", "left", "script"}
          /\ UNCHANGED <<sfu, sub, conn, got, knows, news, untold>>
      BY <1>5, HuddleMoves DEF CheckLocal, SRem, PublishLeft, Join, redisVars, clientVars
    <2> QED
      BY <2>1, <2>2, HuddleInforms DEF Hears, Joining
  <1>6. ASSUME NEW c \in Conn, Leave(c) \/ Close(c) \/ Drop(c) PROVE TransportOK'
    <2>1. Elsewhere(c)
      BY <1>6, HuddleElsewhere
    <2>2. /\ sub' = sub \ {c} /\ knows' = knows \ {c} /\ untold' = untold \ {c}
          /\ UNCHANGED <<sfu, got, news>>
      BY <1>6 DEF Leave, Close, Drop, Forget, redisVars
    <2>3. ~Hears(c)'
      <3>1. CASE Leave(c) \/ Close(c)
        BY <2>2, <3>1, HuddleMoves DEF Leave, Close, Hears
      <3>2. CASE Drop(c)
        BY <2>2, <3>2 DEF Drop, Hears, HuddleTypeOK
      <3> QED
        BY <1>6, <3>1, <3>2
    <2>4. got[c] = "promoted" /\ pc[c] \in {"enter", "joined", "transport"} => pc'[c] = pc[c]
      BY <1>6 DEF Leave, Close, Drop
    <2> QED
      BY <2>1, <2>2, <2>3, <2>4, HuddleInforms
  <1>7. ASSUME NEW n \in Node, DeliverTransport(n) PROVE TransportOK'
    <2>1. /\ UNCHANGED <<setting, sfu, conn, sub, pc, got>> /\ news' = news \ {n}
          /\ knows \subseteq knows' /\ untold \subseteq untold'
      BY <1>7 DEF DeliverTransport, redisVars, connVars
    <2>2. \A c \in Conn : NodeOf[c] = n /\ Hears(c) => c \in knows' \cup untold'
      BY <1>7 DEF DeliverTransport, Hears
    <2> QED
      BY <2>1, <2>2 DEF TransportOK, Informed, Moving, NodeOf, Hears
  <1>8. ASSUME NEW n \in Node, NodeCrash(n) PROVE TransportOK'
    <2> DEFINE here == {c \in Conn : NodeOf[c] = n}
    <2>1. /\ UNCHANGED <<setting, sfu>> /\ sub' = sub \ here
          /\ news' = news \ {n} /\ knows' = knows \ here
          /\ conn' = [c \in Conn |-> IF c \in here THEN "open" ELSE conn[c]]
          /\ pc' = [c \in Conn |-> IF c \in here THEN "idle" ELSE pc[c]]
          /\ got' = [c \in Conn |-> IF c \in here THEN "none" ELSE got[c]]
          /\ untold' = IF \E c \in here : got[c] = "promoted" THEN Conn ELSE untold \ here
      BY <1>8 DEF NodeCrash, redisVars
    <2>2. SUFFICES ASSUME sfu, NEW c \in Conn, Hears(c)' PROVE Informed(c)'
      BY <2>1 DEF TransportOK
    <2>3. c \notin here
      BY <2>1, <2>2 DEF Hears
    <2>4. Hears(c) /\ pc'[c] = pc[c] /\ got'[c] = got[c]
      BY <2>1, <2>2, <2>3 DEF Hears
    <2>5. CASE \E d \in here : got[d] = "promoted"
      BY <2>1, <2>5 DEF Informed
    <2>6. CASE ~\E d \in here : got[d] = "promoted"
      <3>1. Moving => Moving'
        <4>1. ASSUME NEW d \in Conn, got[d] = "promoted",
                     pc[d] \in {"enter", "joined", "transport"}
              PROVE  Moving'
          <5>1. d \notin here
            BY <2>6, <4>1
          <5>2. got'[d] = got[d] /\ pc'[d] = pc[d]
            BY <2>1, <4>1, <5>1
          <5> QED
            BY <4>1, <5>2 DEF Moving
        <4> QED
          BY <4>1 DEF Moving
      <3>2. c \in knows \cup untold => c \in knows' \cup untold'
        BY <2>1, <2>3, <2>6
      <3>3. NodeOf[c] \in news => NodeOf'[c] \in news'
        BY <2>1, <2>3 DEF NodeOf
      <3>4. Informed(c)
        BY <2>2, <2>4 DEF TransportOK
      <3> QED
        BY <2>4, <3>1, <3>2, <3>3, <3>4 DEF Informed
    <2> QED
      BY <2>5, <2>6
  <1>9. CASE Expire
    BY <1>9 DEF Expire, TransportOK
  <1>10. CASE UNCHANGED <<setting, sfu, conn, sub, pc, got, knows, news, untold>>
    BY <1>10 DEF TransportOK, Informed, Moving, NodeOf, Hears
  <1>11. ASSUME NEW c \in Conn, Heartbeat(c) PROVE TransportOK'
    BY <1>10, <1>11 DEF Heartbeat, connVars, clientVars
  <1> QED
    BY <1>1, <1>2, <1>3, <1>4, <1>5, <1>6, <1>7, <1>8, <1>9, <1>10, <1>11
       DEF HuddleNext, HandlerStep, huddleVars

-----------------------------------------------------------------------------
(* For any users, connections and nodes, whatever the order in which they  *)
(* join, leave, drop and die: the huddle keeps within its cap and moves to *)
(* the SFU once, and when the handlers are done the member set, the        *)
(* stream and the clients' transport agree with who is in the call, with   *)
(* the exceptions the properties name.                                     *)
THEOREM DeliverHuddleSafety == HuddleSteps => []HuddleSafety
  <1>1. HuddleInit => HuddleInv
    BY HuddleBegins
  <1>2. HuddleInv /\ [HuddleNext]_huddleVars => HuddleInv'
    <2> SUFFICES ASSUME HuddleInv, [HuddleNext]_huddleVars PROVE HuddleInv'
      OBVIOUS
    <2>1. HuddleTypeOK'
      BY HuddleTypes DEF HuddleInv
    <2>2. CapOK' /\ MemberOK' /\ StreamOK' /\ TransportOK'
      BY <2>1, HuddleCap, HuddleMembers, HuddleStream, HuddleTransport DEF HuddleInv
    <2> QED
      BY <2>1, <2>2 DEF HuddleInv
  <1>3. HuddleInv => HuddleSafety
    <2> SUFFICES ASSUME HuddleInv PROVE HuddleSafety
      OBVIOUS
    <2> USE HuddleConns DEF HuddleInv
    <2>1. HuddleTypeOK /\ CapHolds
      BY DEF CapOK
    <2>2. PromotedOnce
      BY DEF CapOK, PromotedOnce
    <2>3. NoGhostMember
      BY DEF MemberOK, Keeps, NoGhostMember, QuietGateway, OnCall
    <2>4. StreamTellsTheCall
      <3> SUFFICES ASSUME QuietGateway, NEW u \in User \ crossed
                   PROVE  OnCall(u) <=> said[u] = "joined"
        BY DEF StreamTellsTheCall
      <3>1. SaidOK(u) /\ \A c \in Own(u) : c \in Conn /\ pc[c] = "idle"
        BY DEF StreamOK, QuietGateway, Own
      <3>2. OnCall(u) <=> \E c \in Own(u) : c \in sub
        BY DEF OnCall, Own, HuddleTypeOK
      <3> QED
        BY <3>1, <3>2 DEF SaidOK
    <2>5. TransportIsKnown
      BY DEF TransportOK, Hears, Informed, Moving, QuietGateway, TransportIsKnown, Joining,
             HuddleTypeOK
    <2> QED
      BY <2>1, <2>2, <2>3, <2>4, <2>5 DEF HuddleSafety
  <1> QED
    BY <1>1, <1>2, <1>3, PTL DEF HuddleSteps
=============================================================================
