---------------------------- MODULE ChannelConfig ----------------------------
(***************************************************************************)
(* The configuration of a notification channel: reading and writing it     *)
(* (internal/notify/channel_config_typed.go), replacing it by an           *)
(* administrator, and the MTProto login that adds a session to it          *)
(* (internal/store/mtlogin, internal/store/alert/mtproto.go and the HTTP   *)
(* handlers of both).                                                      *)
(*                                                                         *)
(* A JSON object is a function from its keys to what a value can be: a     *)
(* text, "" or blanks " ", "null", "wrong" for another type and "long" for *)
(* a text over its limit or with control characters.  Numbers, lists and   *)
(* flags that a schema requires are texts too.  Telegram is external: a    *)
(* step of a login fails, asks for a password or yields a session.         *)
(***************************************************************************)
EXTENDS Integers

CONSTANTS
    Logins,         \* login ids
    Requests,       \* HTTP requests in progress
    Initials,       \* the configurations a channel may be created with
    Replacements,   \* what administrators save: records of a type and an object
    Owner,          \* the texts of the sessions Telegram issues, with the account of each
    MaxRevision     \* bound on the channel's revision

-----------------------------------------------------------------------------
(* Decoding.  Results are sets: empty for an error. *)

Schema ==
    [bot |-> [bot_token |-> "rawNonEmpty", chat_id |-> "required"],
     mtproto |-> [api_id |-> "required", api_hash |-> "rawNonEmpty", phone |-> "required", chat_id |-> "required",
                  session |-> "rawOptional", username |-> "optional"],
     email |-> [server |-> "required", username |-> "allowEmpty", password |-> "rawRequired"],
     webhook |-> [url |-> "required", secret |-> "rawOptional"]]
SecretFields == {"bot_token", "api_hash", "session", "password", "secret"}
TypeOf(variant) == IF variant \in {"bot", "mtproto"} THEN "telegram" ELSE variant

\* The readers of a field: raw ones keep blanks, the others trim them.
ReadField(kind, fields, key) ==
    IF key \notin DOMAIN fields THEN (IF kind \in {"optional", "rawOptional"} THEN {""} ELSE {})
    ELSE CASE fields[key] \in {"null", "wrong", "long"} -> {}
           [] fields[key] = "" -> IF kind \in {"required", "rawNonEmpty"} THEN {} ELSE {""}
           [] fields[key] = " " -> IF kind = "required" THEN {}
                                   ELSE IF kind \in {"optional", "allowEmpty"} THEN {""} ELSE {" "}
           [] OTHER -> {fields[key]}
ReadTelegramMode(fields) ==
    IF "mode" \notin DOMAIN fields THEN {"bot"} ELSE {fields["mode"]} \cap {"bot", "mtproto"}
Languages == {"", "system", "zh", "en"}
ReadLanguage(fields) ==
    IF "language" \notin DOMAIN fields THEN {""} ELSE {fields["language"]} \cap (Languages \ {""})
KnownFields(variant) ==
    DOMAIN Schema[variant] \cup {"language"} \cup (IF TypeOf(variant) = "telegram" THEN {"mode"} ELSE {})

DecodeVariant(variant, fields) ==
    LET read(k) == ReadField(Schema[variant][k], fields, k)
        valid == DOMAIN fields \subseteq KnownFields(variant) /\ \A k \in DOMAIN Schema[variant] : read(k) # {}
    IN  IF ~valid THEN {}
        ELSE {[variant |-> variant, language |-> l,
               values |-> [k \in DOMAIN Schema[variant] |-> CHOOSE v \in read(k) : TRUE]] : l \in ReadLanguage(fields)}
DecodeConfig(typ, fields) ==
    UNION {DecodeVariant(v, fields) : v \in IF typ = "telegram" THEN ReadTelegramMode(fields) ELSE {typ}}

\* marshalConfig; some empty texts are left out.
OmitEmpty(variant) == {"session", "secret"} \cup (IF variant = "mtproto" THEN {"username"} ELSE {})
Encoded(c, keys, language) ==
    LET values == {k \in keys : c.values[k] = "" => k \notin OmitEmpty(c.variant)}
        mode == IF TypeOf(c.variant) = "telegram" THEN {"mode"} ELSE {}
    IN  [k \in values \cup mode \cup (IF language = "" THEN {} ELSE {"language"}) |->
           CASE k = "mode" -> c.variant [] k = "language" -> language [] OTHER -> c.values[k]]
MarshalConfig(c) == Encoded(c, DOMAIN c.values, c.language)

\* SanitizeConfig: what an administrator sees.
ShownLanguage(c) == IF c.language = "" THEN "system" ELSE c.language
SanitizeConfig(c) == Encoded(c, DOMAIN c.values \ SecretFields, ShownLanguage(c))

NormalizeConfig(typ, fields) == DecodeConfig(typ, fields)

\* What the readers return, so what a configuration holds.
ReadBack(kind, value) ==
    /\ value \notin {"null", "wrong", "long"}
    /\ kind = "required" => value \notin {"", " "}
    /\ kind = "rawNonEmpty" => value # ""
    /\ kind \in {"optional", "allowEmpty"} => value # " "
Canonical(c) ==
    /\ c = [variant |-> c.variant, language |-> c.language, values |-> c.values]
    /\ c.variant \in DOMAIN Schema /\ c.language \in Languages
    /\ c.values = [k \in DOMAIN Schema[c.variant] |-> c.values[k]]
    /\ \A k \in DOMAIN Schema[c.variant] : ReadBack(Schema[c.variant][k], c.values[k])

\* A session is a text within its limit; it comes from Telegram, and not from an administrator.
ASSUME OwnerAssumption == DOMAIN Owner \cap {"", "null", "wrong", "long"} = {}
ASSUME InitialsAssumption ==
    \A c \in Initials : Canonical(c) /\ (c.variant = "mtproto" => c.values.session \notin DOMAIN Owner)
ASSUME ReplacementsAssumption ==
    \A in \in Replacements :
      in.typ \in {"telegram", "email", "webhook"} /\ ("session" \in DOMAIN in.fields => in.fields.session \notin DOMAIN Owner)

-----------------------------------------------------------------------------
(* Replacing a configuration. *)

With(fields, key, value) == [k \in DOMAIN fields \cup {key} |-> IF k = key THEN value ELSE fields[k]]

\* Fault: only a field that is not there counts as empty.
InheritIfMissing(fields, key, value) ==
    IF value # "" /\ key \notin DOMAIN fields THEN With(fields, key, value) ELSE fields
InheritStringIfEmpty(fields, key, value) ==
    IF value # "" /\ (key \notin DOMAIN fields \/ fields[key] = "") THEN With(fields, key, value) ELSE fields
InheritLanguageIfMissing(fields, c) ==
    IF "language" \notin DOMAIN fields /\ c.language # "" THEN With(fields, "language", c.language) ELSE fields

\* Fault: a login is known by its API id and hash alone.
SameApplication(a, b) == \A k \in {"api_id", "api_hash"} : a.values[k] = b.values[k]
SameMTProtoLogin(a, b) == \A k \in {"api_id", "api_hash", "phone"} : a.values[k] = b.values[k]

KeepIfEmpty(next, prev, key) ==
    IF next.values[key] = "" THEN [next EXCEPT !.values[key] = prev.values[key]] ELSE next
NormalizeTelegramForUpdate(fields, prev) ==
    UNION {CASE mode = "bot" /\ prev.variant = "bot" ->
                  NormalizeConfig("telegram", InheritStringIfEmpty(fields, "bot_token", prev.values.bot_token))
             [] mode = "mtproto" /\ prev.variant = "mtproto" ->
                  {IF SameMTProtoLogin(prev, n) THEN KeepIfEmpty(KeepIfEmpty(n, prev, "session"), prev, "username") ELSE n :
                     n \in DecodeConfig("telegram", InheritStringIfEmpty(fields, "api_hash", prev.values.api_hash))}
             [] OTHER -> NormalizeConfig("telegram", fields) :
             mode \in ReadTelegramMode(fields)}
NormalizeConfigForUpdate(typ, fields, prev) ==
    LET f == InheritLanguageIfMissing(fields, prev) IN
    IF typ # TypeOf(prev.variant) THEN NormalizeConfig(typ, fields)
    ELSE CASE typ = "telegram" -> NormalizeTelegramForUpdate(f, prev)
           [] typ = "email" -> NormalizeConfig(typ, InheritStringIfEmpty(f, "password", prev.values.password))
           [] typ = "webhook" -> NormalizeConfig(typ, InheritStringIfEmpty(f, "secret", prev.values.secret))

-----------------------------------------------------------------------------
(* The channel, the logins and the requests. *)

VARIABLES
    channel,        \* the channel's row: its type, its sealed configuration and its revision
    login,          \* the login states kept in memory
    req             \* the requests in progress
channelVars == <<channel, login, req>>

NoLogin == [kind |-> "none"]
IdleRequest == [pc |-> "idle"]

\* Seal binds the configuration to the channel's type; Open fails under another one.
Seal(typ, c) == [typ |-> typ, config |-> c]
OpenChannel(r) == IF r.sealed.typ = r.typ THEN {r.sealed.config} ELSE {}

\* The account a session belongs to: the API application and the phone it was logged in with.
AccountOf(values) == [api_id |-> values.api_id, api_hash |-> values.api_hash, phone |-> values.phone]

ChannelInit ==
    /\ \E c \in Initials : channel = [typ |-> TypeOf(c.variant), sealed |-> Seal(TypeOf(c.variant), c), revision |-> 1]
    /\ login = [l \in Logins |-> NoLogin]
    /\ req = [r \in Requests |-> IdleRequest]

RequestEnds(r) == req' = [req EXCEPT ![r] = IdleRequest]
RequestAt(r, pc) == req[r].pc = pc

\* MTProtoConfig, and the code that Telegram is asked to send.
RequestCode(r, l) ==
    /\ RequestAt(r, "idle") /\ login[l] = NoLogin
    /\ \E c \in OpenChannel(channel) :
         /\ c.variant = "mtproto"
         /\ req' = [req EXCEPT ![r] = [pc |-> "starting", login |-> l, revision |-> channel.revision, auth |-> c.values]]
    /\ UNCHANGED <<channel, login>>
CodeSent(r) ==
    /\ RequestAt(r, "starting")
    /\ \/ login' = [login EXCEPT ![req[r].login] = [kind |-> "login", revision |-> req[r].revision, auth |-> req[r].auth,
                                                    signedIn |-> FALSE]]
       \/ UNCHANGED login
    /\ RequestEnds(r) /\ UNCHANGED channel

\* verifyHandler and passwordHandler: the login's state, then Telegram's answer.
Submit(r, l) ==
    /\ RequestAt(r, "idle") /\ login[l] # NoLogin
    /\ \E kind \in {"code", "password"} :
         req' = [req EXCEPT ![r] = [pc |-> "verifying", login |-> l, revision |-> login[l].revision, auth |-> login[l].auth,
                                    kind |-> kind, signedIn |-> login[l].signedIn]]
    /\ UNCHANGED <<channel, login>>
Refused(r) == RequestAt(r, "verifying") /\ RequestEnds(r) /\ UNCHANGED <<channel, login>>
PasswordRequired(r) ==
    /\ RequestAt(r, "verifying") /\ req[r].kind = "code"
    /\ login' = [login EXCEPT ![req[r].login] = [kind |-> "login", revision |-> req[r].revision, auth |-> req[r].auth,
                                                 signedIn |-> TRUE]]
    /\ RequestEnds(r) /\ UNCHANGED channel
Verified(r) ==
    /\ RequestAt(r, "verifying") /\ (req[r].kind = "password" => req[r].signedIn)
    /\ \E s \in DOMAIN Owner :
         /\ Owner[s] = AccountOf(req[r].auth)
         /\ req' = [req EXCEPT ![r] = [pc |-> "loading", login |-> @.login, revision |-> @.revision, session |-> s]]
    /\ UNCHANGED <<channel, login>>

\* UpdateMTProtoSession: the channel is read and compared with the revision of the login,
\* and compared again where the session is written.
LoadChannel(r) ==
    /\ RequestAt(r, "loading")
    /\ \/ /\ channel.revision = req[r].revision
          /\ \E c \in OpenChannel(channel) :
               /\ c.variant = "mtproto"
               /\ req' = [req EXCEPT ![r] = [pc |-> "saving", login |-> @.login, revision |-> @.revision,
                                             config |-> [c EXCEPT !.values.session = req[r].session]]]
       \/ channel.revision # req[r].revision /\ RequestEnds(r)
    /\ UNCHANGED <<channel, login>>
\* Fault: the revision is not compared again.
SaveSessionBlindly(r) ==
    /\ RequestAt(r, "saving") /\ channel.revision < MaxRevision
    /\ channel' = [channel EXCEPT !.sealed = Seal(channel.typ, req[r].config), !.revision = @ + 1]
    /\ login' = [login EXCEPT ![req[r].login] = NoLogin]
    /\ RequestEnds(r)
SaveSession(r) ==
    /\ RequestAt(r, "saving") /\ channel.revision < MaxRevision
    /\ IF channel.revision = req[r].revision
       THEN /\ channel' = [channel EXCEPT !.sealed = Seal(channel.typ, req[r].config), !.revision = @ + 1]
            /\ login' = [login EXCEPT ![req[r].login] = NoLogin]
       ELSE UNCHANGED <<channel, login>>
    /\ RequestEnds(r)

\* replaceHandler: the new configuration is computed from the one read, and saved under its revision.
BeginReplace(r) ==
    /\ RequestAt(r, "idle")
    /\ \E in \in Replacements, old \in OpenChannel(channel) : \E new \in NormalizeConfigForUpdate(in.typ, in.fields, old) :
         req' = [req EXCEPT ![r] = [pc |-> "replacing", revision |-> channel.revision, typ |-> in.typ, config |-> new]]
    /\ UNCHANGED <<channel, login>>
ReplaceChannel(r) ==
    /\ RequestAt(r, "replacing") /\ channel.revision < MaxRevision
    /\ channel' = IF channel.revision = req[r].revision
                  THEN [typ |-> req[r].typ, sealed |-> Seal(req[r].typ, req[r].config), revision |-> channel.revision + 1]
                  ELSE channel
    /\ RequestEnds(r) /\ UNCHANGED login

\* SetChannelEnabled counts as a revision; a login state lives ten minutes.
SetChannelEnabled ==
    /\ channel.revision < MaxRevision
    /\ channel' = [channel EXCEPT !.revision = @ + 1]
    /\ UNCHANGED <<login, req>>
LoginExpires(l) ==
    /\ login[l] # NoLogin
    /\ login' = [login EXCEPT ![l] = NoLogin]
    /\ UNCHANGED <<channel, req>>

ChannelNext ==
    \/ \E r \in Requests :
         \/ \E l \in Logins : RequestCode(r, l) \/ Submit(r, l)
         \/ CodeSent(r) \/ Refused(r) \/ PasswordRequired(r) \/ Verified(r) \/ LoadChannel(r) \/ SaveSession(r)
         \/ BeginReplace(r) \/ ReplaceChannel(r)
    \/ \E l \in Logins : LoginExpires(l)
    \/ SetChannelEnabled
ChannelSpec == ChannelInit /\ [][ChannelNext]_channelVars

-----------------------------------------------------------------------------
(* Properties. *)

\* A session that Telegram issued is stored with the account it was issued to.
SessionIsOwn(c) ==
    c.variant = "mtproto" /\ c.values.session \in DOMAIN Owner => Owner[c.values.session] = AccountOf(c.values)

\* A stored configuration opens under the channel's type and decodes to itself, and the session
\* in it belongs to the API application and phone it is stored with, however logins and
\* replacements interleave (channel_config_typed.go, sameMTProtoLogin; config_cipher.go).
StoredConfigIsSound ==
    \E c \in OpenChannel(channel) : DecodeConfig(channel.typ, MarshalConfig(c)) = {c} /\ SessionIsOwn(c)

\* Finishing a login changes the session and nothing else, of the revision that started it
\* (docs/api.md, MTProto login; mtproto.go, UpdateMTProtoSession).
LoginChangesOnlySession ==
    [][\A r \in Requests :
         SaveSession(r) /\ channel' # channel =>
           channel'.typ = channel.typ
             /\ [channel'.sealed.config EXCEPT !.values.session = ""]
                  = [channel.sealed.config EXCEPT !.values.session = ""]]_channelVars

\* What an administrator sees of the stored configuration, saved again with empty secrets,
\* leaves it as it is, secrets and session included; an unset language becomes the system's.
\* What is saved over it with another kind takes nothing from it but a language it does not set
\* (channel_config_typed.go, SanitizeConfig, NormalizeConfigForUpdate).
Form(c) == [k \in DOMAIN SanitizeConfig(c) \cup (SecretFields \cap DOMAIN c.values) |->
              IF k \in SecretFields THEN "" ELSE SanitizeConfig(c)[k]]
KindsOf(in) == IF in.typ = "telegram" THEN ReadTelegramMode(in.fields) ELSE {in.typ}
SecretsAreKept ==
    \A c \in OpenChannel(channel) :
      /\ NormalizeConfigForUpdate(channel.typ, Form(c), c) = {[c EXCEPT !.language = ShownLanguage(c)]}
      /\ \A in \in Replacements : c.variant \notin KindsOf(in) =>
           NormalizeConfigForUpdate(in.typ, in.fields, c)
             = {[n EXCEPT !.language = IF @ = "" /\ in.typ = channel.typ THEN c.language ELSE @] :
                  n \in NormalizeConfig(in.typ, in.fields)}

\* However a replacement or a login changed the configuration, what is stored then can be
\* shown and saved again without losing a secret, and without giving one to another kind of
\* channel (SecretsAreKept; notify_channels.go, replaceHandler and UpdateMTProtoSession).
EditsKeepSecrets == [][channel'.sealed # channel.sealed => SecretsAreKept']_channelVars

-----------------------------------------------------------------------------
(* The inductive invariant. *)

\* Every change of the channel counts, and a request that is about to save a session holds the
\* configuration of its revision with nothing but the session changed.
WithoutSession(c) == [c EXCEPT !.values.session = ""]
SavesOnlySession ==
    /\ DOMAIN channel = {"typ", "sealed", "revision"} /\ channel.revision \in Nat /\ DOMAIN req = Requests
    /\ \A r \in Requests : req[r].pc = "saving" =>
         /\ req[r].revision \in Nat /\ req[r].revision <= channel.revision
         /\ req[r].revision = channel.revision => WithoutSession(req[r].config) = WithoutSession(channel.sealed.config)

\* Every configuration in use is one that the readers return, with a session of its own
\* account; a login, and a request of one, that the channel has not outrun is of the account
\* the channel has.
Sound(c) == Canonical(c) /\ SessionIsOwn(c)
KnowsAccount(ch, revision, account) ==
    /\ revision \in Nat /\ revision <= ch.revision
    /\ revision = ch.revision =>
         ch.sealed.config.variant = "mtproto" /\ AccountOf(ch.sealed.config.values) = account
RequestKnows(ch, q) ==
    /\ q.pc \in {"starting", "verifying"} => KnowsAccount(ch, q.revision, AccountOf(q.auth))
    /\ q.pc = "loading" => q.session \in DOMAIN Owner /\ KnowsAccount(ch, q.revision, Owner[q.session])
    /\ q.pc = "saving" => /\ Sound(q.config) /\ q.config.variant = "mtproto"
                          /\ KnowsAccount(ch, q.revision, AccountOf(q.config.values))
    /\ q.pc = "replacing" => Sound(q.config) /\ q.typ = TypeOf(q.config.variant)
LoginKnows(ch, s) == s # NoLogin => KnowsAccount(ch, s.revision, AccountOf(s.auth))
ChannelSound(ch) ==
    /\ ch = [typ |-> TypeOf(ch.sealed.config.variant), sealed |-> Seal(ch.typ, ch.sealed.config), revision |-> ch.revision]
    /\ ch.revision \in Nat /\ Sound(ch.sealed.config)
ConfigInv ==
    /\ ChannelSound(channel) /\ DOMAIN req = Requests /\ DOMAIN login = Logins
    /\ \A r \in Requests : RequestKnows(channel, req[r])
    /\ \A l \in Logins : LoginKnows(channel, login[l])

=============================================================================
