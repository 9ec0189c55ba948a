----------------------------- MODULE ComboSteps ------------------------------
(***************************************************************************)
(* The editor of a combo: routing/combos-tab.tsx opens the stored targets  *)
(* as steps and saves the steps as targets; combo-step-builder.tsx and     *)
(* combo-step-form.tsx edit them.  A target "prefix/model@account" is its  *)
(* path, split at the slashes, and its account.                            *)
(***************************************************************************)
EXTENDS Naturals, Sequences, FiniteSets

NoAccount == "auto"
Blank == ""     \* where a string says nothing

\* routing-format.ts: the short prefixes that stand for three providers.
providerPrefixToProvider(p) ==
    CASE p = "kr" -> "kiro" [] p = "oai" -> "openai"
      [] p \in {"cmc", "cmd", "commandcode"} -> "commandcode" [] OTHER -> p
providerToRoutingPrefix(p) ==
    CASE p = "kiro" -> "kr" [] p = "openai" -> "oai"
      [] p \in {"commandcode", "cmd", "cmc"} -> "cmc" [] OTHER -> p

\* provider-registry.ts: the names a provider goes by.  The server computes a
\* connection's publicPrefix from its provider.
canonicalProviderId(p) ==
    CASE p \in {"cmc", "cmd"} -> "commandcode" [] p = "grok" -> "xai" [] OTHER -> p
publicProviderPrefix(p) ==
    IF canonicalProviderId(p) = "commandcode" THEN "cmc" ELSE canonicalProviderId(p)
providersMatch(a, b) ==
    /\ a # Blank /\ b # Blank
    /\ \/ canonicalProviderId(a) = canonicalProviderId(b)
       \/ publicProviderPrefix(a) = publicProviderPrefix(b)
PublicPrefix(c) == IF c.provider = "commandcode" THEN "cmc" ELSE c.provider
OfProvider(c, p) == providersMatch(c.provider, p) \/ providersMatch(PublicPrefix(c), p)

\* parseRoutingTarget; a target may lack a prefix.
parseRoutingTarget(t) ==
    [provider |-> IF Len(t.path) = 1 THEN Blank ELSE Head(t.path),
     model |-> IF Len(t.path) = 1 THEN t.path ELSE Tail(t.path), account |-> t.account]

parseModelString(t, order) ==
    [provider |-> providerPrefixToProvider(parseRoutingTarget(t).provider), model |-> parseRoutingTarget(t).model,
     account |-> parseRoutingTarget(t).account, order |-> order]
serializeStep(s) == [path |-> <<providerToRoutingPrefix(s.provider)>> \o s.model, account |-> s.account]

openEditDialog(targets) == [i \in DOMAIN targets |-> parseModelString(targets[i], i)]

\* serializedFormSteps: sorted by order, then written as targets.
serializedFormSteps(steps) ==
    LET before(i) == {j \in DOMAIN steps : steps[j].order < steps[i].order \/ (steps[j].order = steps[i].order /\ j < i)}
        nth(k) == CHOOSE i \in DOMAIN steps : Cardinality(before(i)) = k - 1
    IN  [k \in DOMAIN steps |-> serializeStep(steps[nth(k)])]
isDirty(steps, targets) == serializedFormSteps(steps) # targets

-----------------------------------------------------------------------------
Renumbered(steps) == [i \in DOMAIN steps |-> [steps[i] EXCEPT !.order = i]]

\* ComboStepForm: its button, and the accounts it offers for a provider.
canAdd(provider, model, mode, account) == provider # Blank /\ model # <<>> /\ (mode = "auto" \/ account # Blank)
availableAccounts(conns, provider) == {c \in conns : c.isActive /\ OfProvider(c, provider)}

handleAddStep(steps, step) == Append(steps, [step EXCEPT !.order = Len(steps) + 1])

\* A slip in handleDeleteStep: the steps that are left keep their numbers.
DeleteOnly(steps, k) == SubSeq(steps, 1, k - 1) \o SubSeq(steps, k + 1, Len(steps))

handleDeleteStep(steps, k) == Renumbered(SubSeq(steps, 1, k - 1) \o SubSeq(steps, k + 1, Len(steps)))
handleMoveStep(steps, k, direction) ==
    LET t == IF direction = "up" THEN k - 1 ELSE k + 1 IN
    IF t \notin DOMAIN steps THEN steps
    ELSE Renumbered([steps EXCEPT ![k] = steps[t], ![t] = steps[k]])

\* ComboStepList: a pinned account that is gone or off can be let go of.
hasBadPin(step, conns) == step.account # NoAccount /\ ~\E c \in conns : c.id = step.account /\ c.isActive
handleSwitchStepToAuto(steps, k) == [steps EXCEPT ![k].account = NoAccount]

\* The steps after one use of the editor.
Edits(steps, step) ==
    {handleAddStep(steps, step)}
    \cup UNION {{handleDeleteStep(steps, k), handleSwitchStepToAuto(steps, k),
                handleMoveStep(steps, k, "up"), handleMoveStep(steps, k, "down")} : k \in DOMAIN steps}
=============================================================================
