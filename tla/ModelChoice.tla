---------------------------- MODULE ModelChoice ------------------------------
(***************************************************************************)
(* Which model and account a prompt of the playground goes to:             *)
(* use-playground-model-selection.ts, stream-utils.ts, model-selector.tsx. *)
(*                                                                         *)
(* A model of the list is its id, split at the slashes, its provider, the  *)
(* prefix it is routed by, if any, whether it takes pictures, and          *)
(* whether it does anything but make them.  usePlaygroundModelSelection is *)
(* given the models that chat; initializeSelection, when the lists arrive, *)
(* all of them.                                                            *)
(***************************************************************************)
EXTENDS ComboSteps

Special == {"combo", "alias"}
displayProvider(m) == IF m.routePrefix # Blank THEN m.routePrefix ELSE m.provider

getSelectableModelValue(m) == IF m.provider \in Special \/ Len(m.id) = 1 THEN m.id ELSE Tail(m.id)

\* The target that is sent; Blank stands for nothing chosen.
buildPlaygroundModelId(provider, model, account) ==
    IF provider \in Special THEN [path |-> model, account |-> "auto"]
    ELSE [path |-> <<provider>> \o model, account |-> account]

NoChoice == [provider |-> Blank, model |-> <<>>, account |-> "auto"]
Chosen(m, provider) == [provider |-> provider, model |-> getSelectableModelValue(m), account |-> "auto"]

initializeSelection(models) == IF models = <<>> THEN NoChoice ELSE Chosen(models[1], displayProvider(models[1]))

\* The places of a provider's models, and the first of some places.
PlacesOf(models, provider) == {i \in DOMAIN models : displayProvider(models[i]) = provider}
First(S) == CHOOSE i \in S : \A j \in S : i <= j

\* The first model of the provider.
handleProviderChange(models, provider) ==
    LET own == PlacesOf(models, provider)
    IN  IF own = {} THEN [NoChoice EXCEPT !.provider = provider] ELSE Chosen(models[First(own)], provider)

\* The account stays, whatever models it serves.
setSelectedModel(choice, model) == [choice EXCEPT !.model = model]
setSelectedAccount(choice, account) == [choice EXCEPT !.account = account]

availableModels(models, choice) == {models[i] : i \in PlacesOf(models, choice.provider)}

\* model-selector.tsx: the accounts that can be pinned, those that serve the
\* model or what its name is after the first slash.
modelShortId(model) == IF Len(model) > 1 THEN Tail(model) ELSE model
pinnableAccounts(conns, choice) ==
    {c \in conns : /\ c.isActive
                   /\ \/ c.routePrefix # Blank /\ c.routePrefix = choice.provider
                      \/ OfProvider(c, choice.provider)
                   /\ c.models = {} \/ {choice.model, modelShortId(choice.model)} \cap c.models # {}}

\* Only the account of a provider's own models can be pinned.
OffersAccounts(choice) == choice.provider \notin Special /\ choice.model # <<>>

supportsImages(models, choice) ==
    LET it == {i \in PlacesOf(models, choice.provider) : getSelectableModelValue(models[i]) = choice.model}
    IN  choice.provider \in Special \cup {Blank} \/ it = {} \/ models[First(it)].vision

\* chatModels: models that only make pictures are left out.
chatModels(models) ==
    LET kept[k \in 0..Len(models)] == IF k = 0 THEN <<>>
                                      ELSE IF models[k].chats THEN Append(kept[k - 1], models[k]) ELSE kept[k - 1]
    IN  kept[Len(models)]
=============================================================================
