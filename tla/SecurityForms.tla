--------------------------- MODULE SecurityForms ----------------------------
(***************************************************************************)
(* The security page (src/ui/src/app/security/page.tsx) with its three     *)
(* tabs: JWT settings (components/security/JWTSettings.tsx), API keys      *)
(* (APIKeyManager.tsx) and IP filters (IPFilterList.tsx). Only the tab     *)
(* that is open is mounted; JWT settings lose their draft when another one *)
(* is opened. What a click saves is a body: an object with the section jwt *)
(* or the section security as a whole, made of the copy the page shows.    *)
(*                                                                         *)
(* The dialogs that add a key or an address hold nothing but what is typed *)
(* until it is added; those that confirm a deletion remember what to       *)
(* delete while time passes, and are modelled. An API key with its name,   *)
(* permissions and limit is one value. The number NaN, which JSON.stringify*)
(* turns into null, is 0: both are falsy where the form is filled again.   *)
(*                                                                         *)
(* A definition that nothing uses, just before the one it varies, is a     *)
(* faulty variant: README.md says which property rejects it.               *)
(***************************************************************************)
EXTENDS DashboardQuery

CONSTANTS
  Texts,     \* typed for a secret, a key file, the issuer or the audience
  Expiries,  \* numbers typed that the form's minima and maxima let through; 0 for NaN
  KeyIds,    \* typed as ids of API keys; "" when none is typed
  NewKeys,   \* API keys that the name, the options and chance can make
  IPs,       \* typed as addresses, trimmed; "" for a blank one
  ValidIPs   \* those that look like an address or a CIDR range

---------------------------------------------------------------------------
(* JWT settings.                                                           *)

NoText == ""

JWTDefaults ==
  [algorithm |-> "HS256", secret |-> NoText, issuer |-> NoText, audience |-> NoText,
   access_token_expiry |-> 3600, refresh_token_expiry |-> 604800,
   public_key_file |-> NoText, private_key_file |-> NoText]

\* The falsy value of each field.
JWTBlank ==
  [JWTDefaults EXCEPT !.algorithm = NoText, !.access_token_expiry = 0,
                      !.refresh_token_expiry = 0]

\* config.k || default for every field.
JWTFormOf(config) ==
  [k \in DOMAIN JWTDefaults |->
     IF Get(config, k, JWTBlank[k]) = JWTBlank[k] THEN JWTDefaults[k] ELSE config[k]]

\* The component mounts, with the effect that fills it in.
JWTMounted(config) ==
  [formData |-> IF config = Undefined THEN JWTDefaults ELSE JWTFormOf(config),
   hasChanges |-> FALSE]

\* The effect when the copy has a new jwt section.
JWTSynced(j, config) == [j EXCEPT !.formData = JWTFormOf(config)]

HandleChange(f, field, value) == Put(f, field, value)

Algorithm(f) == {HandleChange(f, "algorithm", a) : a \in {"HS256", "RS256"}}

SecretKey(f) ==
  {HandleChange(f, "secret", t) : t \in IF f.algorithm = "HS256" THEN Texts ELSE {}}

KeyFiles(f) ==
  {HandleChange(f, field, t) : field \in {"private_key_file", "public_key_file"},
                               t \in IF f.algorithm = "RS256" THEN Texts ELSE {}}

Issuer(f) == {HandleChange(f, "issuer", t) : t \in Texts}

Audience(f) == {HandleChange(f, "audience", t) : t \in Texts}

TokenExpiry(f) ==
  {HandleChange(f, field, n) :
     field \in {"access_token_expiry", "refresh_token_expiry"}, n \in Expiries}

JWTEdits(f) ==
  Algorithm(f) \cup SecretKey(f) \cup KeyFiles(f) \cup Issuer(f)
    \cup Audience(f) \cup TokenExpiry(f)

JWTChanged(j, f) == [formData |-> f, hasChanges |-> TRUE]

\* onSave(formData), whatever comes of it.
JWTSubmitted(j) == [j EXCEPT !.hasChanges = FALSE]

\* Faulty: the fields without the section they are of.
HandleJWTUpdateBare(updates) == updates

HandleJWTUpdate(updates) == [jwt |-> updates]

---------------------------------------------------------------------------
(* API keys. s is securityConfig, or nothing.                              *)

KeysOf(s) == Get(s, "api_keys", Empty)

HandleAPIKeyAdd(s, id, key) == [security |-> Put(s, "api_keys", Put(KeysOf(s), id, key))]

HandleAPIKeyDelete(s, id) == [security |-> Put(s, "api_keys", Without(KeysOf(s), id))]

\* The add dialog: an id is given; it is not compared with those that exist.
CanAddKey(id) == id # NoText

\* The buttons of the table, one per key shown.
KeyTable(s) == {[kind |-> "api_keys", target |-> id] : id \in DOMAIN KeysOf(s)}

---------------------------------------------------------------------------
(* IP filters.                                                             *)

IPKinds == {"ip_whitelist", "ip_blacklist"}

Listed(s, kind) == Get(s, kind, {})

\* handleIPFilterUpdate with both lists, of which one is new.
HandleIPFilterUpdate(s, kind, list) ==
  [security |-> Put(Over(s, [k \in IPKinds |-> Listed(s, k)]), kind, list)]

\* handleAddIP: what is typed is no blank, no duplicate and looks like an
\* address.
CanAddIP(s, kind, ip) == ip # NoText /\ ip \in ValidIPs /\ ip \notin Listed(s, kind)

AddIP(s, kind, ip) == HandleIPFilterUpdate(s, kind, Listed(s, kind) \cup {ip})

IPTables(s) ==
  UNION {{[kind |-> kind, target |-> ip] : ip \in Listed(s, kind)} : kind \in IPKinds}

RemoveIP(s, kind, ip) == HandleIPFilterUpdate(s, kind, Listed(s, kind) \ {ip})

---------------------------------------------------------------------------
(* The page.                                                               *)

Tabs == {"jwt", "apikeys", "ipfilter"}

\* data is the copy: [jwt, security], or Undefined when there is none.
JWTConfigOf(data) == IF data = Undefined THEN Undefined ELSE data.jwt

SecurityConfigOf(data) == IF data = Undefined THEN Empty ELSE data.security

IsSecurityPage(p) ==
  /\ p \in [tab: Tabs, jwt: {p.jwt}, dialog: {p.dialog}]
  /\ IF p.tab = "jwt" THEN p.jwt \in [formData: {p.jwt.formData}, hasChanges: BOOLEAN]
     ELSE p.jwt = Undefined

\* The content mounts: when loading is over, with the first tab open.
SecurityMounted(data) ==
  [tab |-> "jwt", jwt |-> JWTMounted(JWTConfigOf(data)), dialog |-> Undefined]

\* Only the open tab is mounted.
TabChosen(tab, data) ==
  [tab |-> tab, dialog |-> Undefined,
   jwt |-> IF tab = "jwt" THEN JWTMounted(JWTConfigOf(data)) ELSE Undefined]

\* handleDeleteClick: the buttons of the open tab.
DeleteButtons(p, data) ==
  CASE p.tab = "jwt" -> {}
    [] p.tab = "apikeys" -> KeyTable(SecurityConfigOf(data))
    [] p.tab = "ipfilter" -> IPTables(SecurityConfigOf(data))

\* handleDeleteConfirm: the body, made of the copy of now.
ConfirmedDeletion(d, data) ==
  IF d.kind = "api_keys"
  THEN HandleAPIKeyDelete(SecurityConfigOf(data), d.target)
  ELSE RemoveIP(SecurityConfigOf(data), d.kind, d.target)
=============================================================================
