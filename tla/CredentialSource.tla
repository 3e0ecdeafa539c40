--------------------------- MODULE CredentialSource ---------------------------
(***************************************************************************)
(* Where the credentials of an invocation come from (awsauth.go, config.go): *)
(* its environment and profiles, the profile bmcp hands the AWS SDK, the one *)
(* it resolves natively through AWS SSO, and the source a message names.     *)
(* The SDK's own choice is external and modelled as bmcp relies on it.       *)
(*                                                                         *)
(* A profile is named by the place it was read from, or is "default".  It is *)
(* a chain of nodes, its own first, linked by source_profile: the credential *)
(* settings of each, and whether its SSO settings are complete.              *)
(***************************************************************************)
EXTENDS Naturals, Sequences

VARIABLES
  setup,    \* environment, profiles and settings: fixed for an invocation
  late      \* the dated keys of the environment have expired

None == "none"
\* Highest precedence first: config.go's resolveProfile below the flag.
Places == <<"--profile", "BMCP_PROFILE", "AWS_PROFILE", "AWS_DEFAULT_PROFILE",
            "config.toml">>
PlaceNames == {Places[i] : i \in 1 .. 5}

Kinds == {"keys", "source", "web", "process"}
Nodes == [types : SUBSET Kinds, sso : {"none", "partial", "full"}]
Shapes ==
  [readable : BOOLEAN, nodes : Seq(Nodes) \ {<<>>}, mfa : BOOLEAN, region : BOOLEAN]
Setups ==
  [keys : {"none", "lasting", "dated"}, web : BOOLEAN, named : SUBSET PlaceNames,
   region : {"given", "env", "none"}, shape : Shapes, dflt : Shapes]

-----------------------------------------------------------------------------
(* The configured profile and the credentials of the environment *)

cfgProfile ==
  IF setup.named = {} THEN None
  ELSE Places[CHOOSE i \in 1 .. 5 :
                /\ Places[i] \in setup.named
                /\ \A j \in 1 .. i - 1 : Places[j] \notin setup.named]

namedForThisInvocation == cfgProfile \in {"--profile", "BMCP_PROFILE"}

envCredentialSource ==
  IF setup.keys # "none" THEN "environment keys"
  ELSE IF setup.web THEN "environment web identity" ELSE None
envCredentialsExpired == setup.keys = "dated" /\ late

\* Mutant: expired keys are stepped over with the web identity beneath them.
Demoted_anyway == envCredentialsExpired
Demoted == envCredentialsExpired /\ ~setup.web

\* The profile for the SDK, or what outranks it.
sharedProfileFor ==
  IF cfgProfile = None THEN [profile |-> None, outrankedBy |-> None]
  ELSE IF namedForThisInvocation \/ envCredentialSource = None \/ Demoted
    THEN [profile |-> cfgProfile, outrankedBy |-> None]
  ELSE [profile |-> None, outrankedBy |-> envCredentialSource]

\* Mutant: the configured profile is named, whether or not it was outranked.
describeCredentialSource_configured ==
  IF cfgProfile # None THEN cfgProfile
  ELSE IF envCredentialSource # None THEN envCredentialSource ELSE "default"

\* Who a message says the credentials were to come from.
describeCredentialSource ==
  LET s == sharedProfileFor IN
    IF s.profile # None THEN s.profile
    ELSE IF s.outrankedBy # None THEN s.outrankedBy
    ELSE IF envCredentialSource # None THEN envCredentialSource
    ELSE "default"

-----------------------------------------------------------------------------
(* Profiles *)

Shape(p) == IF p = "default" THEN setup.dflt ELSE setup.shape

\* ssoLeafConfig: the last node of the chain, the only one dispatched on.
ssoLeafConfig(p) == Shape(p).nodes[Len(Shape(p).nodes)]

\* Keys, credential_source and a web identity outrank SSO in the SDK's switch,
\* and credential_process does not.
\* Mutant: any SSO setting makes an SSO profile.
leafUsesSSO_any(n) == n.sso # "none"
leafUsesSSO(n) == n.types \subseteq {"process"} /\ n.sso # "none"

profileUsesSSO(p) == Shape(p).readable /\ leafUsesSSO(ssoLeafConfig(p))

\* The profile bmcp may resolve natively: the SDK's "default" when nobody names
\* one and the environment has no credentials.
ssoProfileFor ==
  LET s == sharedProfileFor IN
    IF /\ s.profile = None /\ s.outrankedBy = None
       /\ envCredentialSource = None /\ profileUsesSSO("default")
    THEN "default" ELSE s.profile

\* resolveSSOChain and mfaRefusal: "native", an SSO leaf with settings missing,
\* one that asks for an MFA code, or the SDK's.
ssoChain(p) ==
  IF p = None \/ ~profileUsesSSO(p) THEN "sdk"
  ELSE IF ssoLeafConfig(p).sso = "partial" THEN "incomplete"
  ELSE IF Shape(p).mfa THEN "mfa" ELSE "native"

\* ambientProfileRegion: a declined profile still supplies its region, beneath
\* an explicit one and the environment's.
regionOption ==
  IF setup.region = "given" THEN "given"
  ELSE IF /\ sharedProfileFor.outrankedBy # None /\ setup.region = "none"
          /\ Shape(cfgProfile).readable /\ Shape(cfgProfile).region
    THEN cfgProfile
  ELSE None

-----------------------------------------------------------------------------
(* External: resolveCredentialChain and resolveCredsFromProfile of the SDK.
   A missing default profile is no error; it leaves the container and instance
   roles beneath every profile. *)

SDKLeaf(p) == LET n == Shape(p).nodes IN n[Len(n)]
SDKDispatch(p) ==
  LET n == SDKLeaf(p) IN
    IF ~Shape(p).readable          THEN "fallback"
    ELSE IF "keys" \in n.types     THEN "keys"
    ELSE IF "source" \in n.types   THEN "source"
    ELSE IF "web" \in n.types      THEN "web"
    ELSE IF n.sso # "none"         THEN "sso"
    ELSE IF "process" \in n.types  THEN "process"
    ELSE "fallback"

\* opt: the profile set programmatically, or None.
SDKSource(opt) ==
  IF opt = None /\ envCredentialSource # None
    THEN [who |-> envCredentialSource, how |-> "environment"]
  ELSE LET p == IF opt = None THEN "default" ELSE opt
       IN  [who |-> p, how |-> SDKDispatch(p)]

\* The region: the option, the environment's, or that of the profile in use.
\* The SDK reads AWS_PROFILE and its alias by itself, and nothing of bmcp's.
SDKProfile(opt) ==
  IF opt # None THEN opt
  ELSE IF setup.named \cap {"AWS_PROFILE", "AWS_DEFAULT_PROFILE"} # {}
    THEN IF "AWS_PROFILE" \in setup.named THEN "AWS_PROFILE" ELSE "AWS_DEFAULT_PROFILE"
  ELSE "default"
SDKRegion(opt, option) ==
  IF option # None THEN option
  ELSE IF setup.region = "env" THEN "env"
  ELSE LET p == SDKProfile(opt) IN
         IF Shape(p).readable /\ Shape(p).region THEN p ELSE None

SDKLoadFails(opt) ==
  LET s == SDKSource(opt) IN
    /\ s.how # "environment"
    /\ \/ ~Shape(s.who).readable /\ s.who # "default"
       \/ Shape(s.who).readable /\ Shape(s.who).mfa
       \/ s.how = "sso" /\ SDKLeaf(s.who).sso = "partial"
=============================================================================
