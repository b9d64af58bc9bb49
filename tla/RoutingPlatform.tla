--------------------------- MODULE RoutingPlatform ---------------------------
(***************************************************************************)
(* The part of macOS that application routing is built on: the registered  *)
(* System Extension, the NetworkExtension session that runs its provider,  *)
(* and the transparent-proxy manager saved in the network preferences.     *)
(* None of it is code of the repository.  It is modelled from what         *)
(* native/macos_app_routing.mm calls, waits for and says of it.            *)
(***************************************************************************)
EXTENDS Naturals

CONSTANTS
  Configs,      \* application-rule sets the desktop may submit
  NeedsProxy,   \* those with an enabled PROXY rule
  NoPolicy,     \* "no policy"; a saved manager always carries one
  Leftovers     \* what an older version may have left in the App Group container

\* The flags of the code.  They are two named values, as in Objective-C, and
\* not BOOLEAN because the SMT encoding of the prover is at home with values.
YES == "YES"
NO == "NO"
BOOL == {YES, NO}
Bool(test) == IF test THEN YES ELSE NO

\* What is sent to the provider: the rules and whether the core's SOCKS
\* listener answered.  The rest of the wire configuration is constant.
Policies == [config : Configs, proxy : BOOL]

ASSUME PlatformAssumption ==
  /\ NeedsProxy \subseteq Configs
  /\ NoPolicy \notin Policies
  /\ Leftovers \subseteq Policies \cup {NoPolicy}

VARIABLES
  ext,       \* registration: absent, awaiting approval, enabled, or revoked
  current,   \* the registered extension is the build bundled with this app
  accepted,  \* the delegate agreed to replace the registered build
  conn,      \* NEVPNStatus of the session (Invalid is "disconnected")
  stale,     \* the session still belongs to a provider that was replaced
  loaded,    \* policy enforced by the provider of the session
  mail,      \* provider message queued by an attempt that was given up
  stored,    \* providerConfiguration in the saved manager (NoPolicy: none)
  enabled,   \* manager.enabled in the saved manager
  shared,    \* policy envelope left in the App Group container
  calm       \* the platform has stopped failing (used for liveness only)

extVars  == <<ext, current, accepted>>
sessVars == <<conn, stale, loaded>>
prefVars == <<stored, enabled>>
sysVars  == <<extVars, sessVars, mail, prefVars, shared, calm>>

MaybePolicy == Policies \cup {NoPolicy}

PlatformTypeOK ==
  /\ ext \in {"absent", "awaiting", "enabled", "revoked"}
  /\ current \in BOOL /\ accepted \in BOOL
  /\ conn \in {"disconnected", "connecting", "connected",
               "reasserting", "disconnecting"}
  /\ stale \in BOOL
  /\ loaded \in MaybePolicy /\ mail \in MaybePolicy
  /\ stored \in MaybePolicy /\ shared \in MaybePolicy
  /\ enabled \in BOOL /\ calm \in BOOL

\* A first launch: nothing is registered and no manager is saved, but an
\* older version may have left an envelope in the App Group container.
PlatformInit ==
  /\ ext = "absent" /\ current = NO /\ accepted = NO
  /\ conn = "disconnected" /\ stale = NO /\ loaded = NoPolicy
  /\ mail = NoPolicy
  /\ stored = NoPolicy /\ enabled = NO
  /\ shared \in Leftovers
  /\ calm = NO

\* A failure of the platform: a call that times out or returns an error, a
\* provider that dies, an app that is killed.
Fault == calm = NO

\* The provider of the session answers application messages.
Responsive == conn = "connected" /\ stale = NO

\* Activation takes effect.  Replacing a provider while its session is up
\* leaves NetworkExtension reporting the old tunnel (mm 141-143, 541-542).
Install ==
  /\ ext' = "enabled" /\ current' = YES /\ accepted' = NO
  /\ stale' = Bool(stale = YES \/ (accepted = YES /\ conn # "disconnected"))
  /\ loaded' = IF stale' = YES THEN NoPolicy ELSE loaded
  /\ UNCHANGED conn

\* The session is over, whoever ended it.
SessionEnds == conn' = "disconnected" /\ stale' = NO /\ loaded' = NoPolicy

\* stopVPNTunnel: asynchronous, and without effect on a session that is down.
StopTunnel ==
  /\ conn' = IF conn = "disconnected" THEN conn ELSE "disconnecting"
  /\ UNCHANGED <<stale, loaded>>

\* A started provider loads its policy: a left-over App Group envelope
\* overrides the providerConfiguration of the saved manager (mm 572-574).
TunnelUp ==
  /\ conn = "connecting"
  /\ conn' = "connected"
  /\ loaded' = IF shared # NoPolicy THEN shared ELSE stored
  /\ UNCHANGED <<extVars, stale, mail, prefVars, shared, calm>>

\* The session loses and regains its network; the provider keeps running.
Reassert ==
  /\ Fault
  /\ conn = "connected"
  /\ conn' = "reasserting"
  /\ UNCHANGED <<extVars, stale, loaded, mail, prefVars, shared, calm>>

Reasserted ==
  /\ conn = "reasserting"
  /\ conn' = "connected"
  /\ UNCHANGED <<extVars, stale, loaded, mail, prefVars, shared, calm>>

\* A message that outlived the attempt that sent it reaches whatever provider
\* is there by now, or nobody.
MailArrives ==
  /\ mail # NoPolicy
  /\ mail' = NoPolicy
  /\ \/ Responsive /\ loaded' = mail
     \/ ~Responsive /\ UNCHANGED loaded
  /\ UNCHANGED <<extVars, conn, stale, prefVars, shared, calm>>

==============================================================================
