---------------------------- MODULE AwsCredentials ----------------------------
(***************************************************************************)
(* The credentials of each tool call (awsauth.go: awsCredentials): choose    *)
(* the profile, resolve an SSO chain natively, and otherwise retrieve what   *)
(* the SDK resolves, with a helper's streams contained.  The clock moves     *)
(* between the steps: each of them asks again whether the environment's keys *)
(* have expired.  A native retrieval is SsoSession's; here it is its end.    *)
(***************************************************************************)
EXTENDS HelperStreams, CredentialSource, BackendChoice

CONSTANT Inputs    \* the invocations: policy, setup, machine and calls

ASSUME InputsAreInvocations ==
  Inputs \subseteq
    [policy : Policies, setup : Setups, machine : Machines, calls : SUBSET Call]

Nothing == [none |-> TRUE]

VARIABLES
  machine,    \* what the choice of a store depends on: fixed
  calls,      \* the retrievals of this invocation: fixed
  opt,        \* the profile set programmatically, or None
  region,     \* the region option, then the region signed with
  native,     \* the profile resolved natively, or None
  used,       \* the source consulted, or Nothing
  named,      \* the source a failure message names, or None
  store,      \* the store a native retrieval resolved, or Nothing
  remedy      \* the command the message hands back, or Nothing

choices == <<opt, region, native, used, named, store, remedy>>
fixed   == <<setup, machine, calls>>
vars    == <<helperVars, fixed, late, choices>>

Init ==
  /\ StreamsInit
  /\ \E i \in Inputs :
       /\ policy = i.policy /\ setup = i.setup
       /\ machine = i.machine /\ calls = i.calls
  /\ late \in BOOLEAN /\ (late => setup.keys = "dated")
  /\ LET none == [r \in Call |-> None]  nothing == [r \in Call |-> Nothing] IN
       /\ opt = none /\ region = none /\ native = none /\ named = none
       /\ used = nothing /\ store = nothing /\ remedy = nothing

Begins(r) ==
  /\ r \in calls /\ MayCall(r)
  /\ To(r, "choose")
  /\ UNCHANGED <<policy, streams, helper, need, got, swapped, expired, sdk, told,
                 fixed, late, choices>>

\* The options of the SDK's configuration.
Choose(r) ==
  /\ pc[r] = "choose"
  /\ opt' = [opt EXCEPT ![r] = sharedProfileFor.profile]
  /\ region' = [region EXCEPT ![r] = regionOption]
  /\ To(r, "chain")
  /\ UNCHANGED <<policy, streams, helper, need, got, swapped, expired, sdk, told,
                 fixed, late, native, used, named, store, remedy>>

\* authFailure: the source is worked out when the error is wrapped.
Names(r) == named' = [named EXCEPT ![r] = describeCredentialSource]

\* The SSO chain, from the profile asked for once more.  The refusal of an MFA
\* code names no source; missing settings are reported after the SDK's own load.
Chain(r) ==
  /\ pc[r] = "chain"
  /\ native' = [native EXCEPT ![r] =
       IF ssoChain(ssoProfileFor) = "native" THEN ssoProfileFor ELSE None]
  /\ To(r, CASE ssoChain(ssoProfileFor) = "mfa"        -> "refused"
             [] ssoChain(ssoProfileFor) = "incomplete" -> "incomplete"
             [] OTHER                                  -> "load")
  /\ UNCHANGED <<policy, streams, helper, need, got, swapped, expired, sdk, told,
                 fixed, late, opt, region, used, named, store, remedy>>

\* LoadDefaultConfig, then bmcp's SSO or the SDK's chain.
Load(r) ==
  /\ pc[r] \in {"load", "incomplete"}
  /\ IF pc[r] = "incomplete" \/ SDKLoadFails(opt[r])
       THEN To(r, "refused") /\ Names(r) /\ UNCHANGED <<region, used, helper>>
       ELSE LET source == IF native[r] # None THEN [who |-> native[r], how |-> "native"]
                          ELSE SDKSource(opt[r])
            IN /\ region' = [region EXCEPT ![r] = SDKRegion(opt[r], @)]
               /\ used' = [used EXCEPT ![r] = source]
               /\ helper' = IF source.how = "process" THEN helper \cup {r} ELSE helper
               /\ To(r, IF native[r] # None THEN "gate" ELSE "sdk")
               /\ UNCHANGED named
  /\ UNCHANGED <<policy, streams, need, got, swapped, expired, sdk, told, fixed,
                 late, opt, native, store, remedy>>

\* Someone may be asked: the gate of a browser login and of store prompts alike.
MayAsk(fits) ==
  fits /\ ~policy.nonInteractive /\ ~policy.machine /\ policy.typed

\* ssoCredentials: a store no login repairs and a login under way elsewhere are
\* refused; a locked store and a failed retrieval name the command to run, a
\* failed login the source.
Native(r) ==
  /\ pc[r] = "gate"
  /\ \E fits \in BOOLEAN :
       LET b == resolveBackend(machine, MayAsk(fits)) IN
         /\ store' = [store EXCEPT ![r] = b]
         /\ \/ b.use = "ok" /\ To(r, "ok") /\ UNCHANGED <<named, remedy>>
            \/ /\ b.use # "refused" /\ To(r, "failed")
               /\ remedy' = [remedy EXCEPT ![r] =
                    [profile |-> native[r], flag |-> RemedyFlag(machine, b.name)]]
               /\ named' = [named EXCEPT ![r] =
                    IF b.use = "locked" THEN native[r] ELSE describeCredentialSource]
            \/ /\ b.use = "ok" /\ MayAsk(fits) /\ To(r, "failed")
               /\ named' = [named EXCEPT ![r] = describeCredentialSource]
               /\ UNCHANGED remedy
            \/ b.use # "locked" /\ To(r, "refused") /\ UNCHANGED <<named, remedy>>
  /\ UNCHANGED <<policy, streams, helper, need, got, swapped, expired, sdk, told,
                 fixed, late, opt, region, native, used>>

\* The SDK's retrieval.  Keys of the environment are there or not, any other
\* source may fail; a refusal for want of a sink, a failure and a retrieval given
\* up are all reported with the source.
Refuses(r) == OpenSinks(r) /\ IF pc'[r] = "refused" THEN Names(r) ELSE UNCHANGED named
Ends(r)    == RestoreIn(r) /\ IF got[r] = "ok" THEN UNCHANGED named ELSE Names(r)
Retrieving(r) ==
  /\ \/ Begin(r) \/ SwapIn(r) \/ SwapErr(r) \/ Retrieve(r)
     \/ Return(r) \/ Expire(r) \/ RestoreErr(r)
     \/ GoReadErr(r) \/ GoReadIn(r) \/ GoExec(r)
     \/ GoEnd(r) /\ (used[r].how = "environment" /\ used[r].who = "environment keys"
                     => go'[r] = "ok")
  /\ UNCHANGED named
SDKStep(r) ==
  /\ Retrieving(r) \/ Refuses(r) \/ Ends(r)
  /\ UNCHANGED <<fixed, late, opt, region, native, used, store, remedy>>

KeysExpire ==
  /\ setup.keys = "dated" /\ ~late
  /\ late' = TRUE
  /\ UNCHANGED <<helperVars, fixed, choices>>

AllEnded ==
  /\ \A r \in calls : pc[r] # "idle" /\ ~Active(r) /\ go[r] \in {"none", "ok", "failed"}
  /\ UNCHANGED vars

Next ==
  \/ \E r \in Call :
       Begins(r) \/ Choose(r) \/ Chain(r) \/ Load(r) \/ Native(r) \/ SDKStep(r)
  \/ KeysExpire
  \/ AllEnded

Spec == Init /\ [][Next]_vars

-----------------------------------------------------------------------------
(* Properties *)

(* Whose credentials a call gets: the profile named for this invocation, always;
   otherwise never a profile while the environment's keys live or it carries a
   web identity, which a configured profile may not step over (#58, #66).
   Declining a profile does not cost the region it carries. *)
IdentityHeld ==
  \A r \in Call : used[r] # Nothing =>
    /\ IF setup.named \cap {"--profile", "BMCP_PROFILE"} # {}
         THEN used[r].who = cfgProfile
         ELSE used[r].how # "environment"
                => ~setup.web /\ (setup.keys = "none" \/ envCredentialsExpired)
    /\ setup.region = "none" /\ cfgProfile # None
         /\ Shape(cfgProfile).readable /\ Shape(cfgProfile).region
         => region[r] = cfgProfile

(* bmcp and the SDK agree on what an SSO profile is: what bmcp resolves natively
   ends at an SSO leaf in the SDK's own switch, and what it leaves to the SDK
   never does, because the SDK would read the AWS CLI's plaintext cache and
   none of bmcp's stores (decisions 3 and 5). *)
NativeIsSDK ==
  \A r \in Call : used[r] # Nothing =>
    IF native[r] # None THEN SDKDispatch(native[r]) = "sso"
    ELSE used[r].how # "sso"

\* What an attempt consulted; one that ended before it consulted anything was to
\* use the configured profile, or the SDK's default.
Source(r) ==
  IF used[r] # Nothing THEN used[r].who
  ELSE IF cfgProfile = None THEN "default" ELSE cfgProfile

\* The exception, against the comment at awsauth.go:811: the environment's keys
\* were consulted, the retrieval was given up before they answered and they
\* expired before the message was made, which then names the profile they
\* outranked.
Overtaken(r) ==
  /\ pc[r] = "abandoned" /\ envCredentialsExpired
  /\ used[r].who = "environment keys" /\ named[r] = cfgProfile

(* The message of an attempt that failed, was given up or was refused a sink or
   its configuration tells the truth although it is worked out after the fact.
   It names the source that was consulted, even when the keys of the environment
   expired in between, but for the one exception of Overtaken; for a helper
   exactly the streams it was denied; and the login it asks for reaches the
   store this call read. *)
ReportsTrue ==
  \A r \in Call :
    /\ pc[r] \in {"failed", "abandoned"} \/ (pc[r] = "refused" /\ r \in helper)
         => named[r] # None
    /\ named[r] # None => named[r] = Source(r) \/ Overtaken(r)
    /\ told[r] # NoMessage => told[r] = {s \in Stream : cmd[r][s] # Real}
    /\ remedy[r] # Nothing =>
         /\ remedy[r].profile = used[r].who
         /\ LET login == [machine EXCEPT !.flag = remedy[r].flag]
            IN  resolveBackend(login, TRUE).name = store[r].name
=============================================================================
