--------------------------- MODULE LegacySettings ---------------------------
(***************************************************************************)
(* The settings slices of the legacy migration                             *)
(* (internal/legacymigration, internal/store/legacy_..._migration.go).     *)
(* Each has a reader, which turns the old key/value rows into a value or   *)
(* refuses them, and an import that demands the target fields untouched.   *)
(* Source[s].settings[d] describes the rows of domain d in snapshot s:     *)
(*   set     some of its keys have a value          valid  all of them do  *)
(*   on      the main switch of the domain                 parse           *)
(* and for some domains one more fact, named where it is used.             *)
(***************************************************************************)
EXTENDS LegacyImport

Raw(s, d) == Source[s].settings[d]

(* Keys that are absent keep the default of the domain. *)
Value(s, d) == IF Raw(s, d).set THEN [Default EXCEPT !.from = s, !.on = Raw(s, d).on] ELSE Default

(* What the ledger's target checksum is compared with before a rerun is confirmed. *)
Unedited(k, d) == db.ledger[k] # Nothing => db.settings[d] = db.ledger[k].target

Untouched(d) == db.settings[d] = Default

(* An UPDATE of app_settings raises its revision; the other tables have their own. *)
Write(d, v) == [db EXCEPT !.settings[d] = v,
                          !.revision = IF d \in AppDomain THEN @ + 1 ELSE @]

ImportSettings(c, k, d, ready, intact, v) == Import(c, k, ready, intact, Write(d, v), v)

(***************************************************************************)
(* Currency.                                                               *)
(***************************************************************************)
NormalizeLegacyCurrencySettings(raw) == raw.valid

ReadCurrencySettingsSnapshot(s) ==
    [ok |-> NormalizeLegacyCurrencySettings(Raw(s, "currency")), value |-> Value(s, "currency")]

LookupLegacyCurrencySettingsImport == Unedited("currency", "currency")

runLegacyCurrencySettingsMigrationCommand(c, s, p) ==
    Command(c, "currency", s, p, ReadCurrencySettingsSnapshot(s).ok, LookupLegacyCurrencySettingsImport)

ImportLegacyCurrencySettings(c) ==
    ImportSettings(c, "currency", "currency", Untouched("currency"), LookupLegacyCurrencySettingsImport,
                   ReadCurrencySettingsSnapshot(cmd[c].source).value)

(***************************************************************************)
(* Public origin.                                                          *)
(***************************************************************************)
NormalizeLegacyPublicOriginSettings(raw) == raw.valid

ReadPublicOriginSettingsSnapshot(s) ==
    [ok |-> NormalizeLegacyPublicOriginSettings(Raw(s, "public origin")),
     value |-> Value(s, "public origin")]

LookupLegacyPublicOriginSettingsImport == Unedited("public-origin", "public origin")

runLegacyPublicOriginSettingsMigrationCommand(c, s, p) ==
    Command(c, "public-origin", s, p, ReadPublicOriginSettingsSnapshot(s).ok,
            LookupLegacyPublicOriginSettingsImport)

ImportLegacyPublicOriginSettings(c) ==
    ImportSettings(c, "public-origin", "public origin", Untouched("public origin"),
                   LookupLegacyPublicOriginSettingsImport,
                   ReadPublicOriginSettingsSnapshot(cmd[c].source).value)

(***************************************************************************)
(* Commission policy: the old panel's default distribution differs from    *)
(* the new one's, so even a snapshot without the keys is imported as its   *)
(* own value.  The three levels together may not exceed 100 (`levels`).    *)
(***************************************************************************)
DefaultLegacyCommissionPolicySettings == [Default EXCEPT !.from = "old default"]

NormalizeLegacyCommissionPolicySettings(raw) == raw.valid /\ raw.levels <= 100

ReadCommissionPolicySettingsSnapshot(s) ==
    [ok |-> NormalizeLegacyCommissionPolicySettings(Raw(s, "commission policy")),
     value |-> IF Raw(s, "commission policy").set THEN Value(s, "commission policy")
               ELSE DefaultLegacyCommissionPolicySettings]

LookupLegacyCommissionPolicySettingsImport == Unedited("commission-policy", "commission policy")

runLegacyCommissionPolicySettingsMigrationCommand(c, s, p) ==
    Command(c, "commission-policy", s, p, ReadCommissionPolicySettingsSnapshot(s).ok,
            LookupLegacyCommissionPolicySettingsImport)

ImportLegacyCommissionPolicySettings(c) ==
    ImportSettings(c, "commission-policy", "commission policy", Untouched("commission policy"),
                   LookupLegacyCommissionPolicySettingsImport,
                   ReadCommissionPolicySettingsSnapshot(cmd[c].source).value)

(***************************************************************************)
(* Configuration compatibility: withdrawal rules live in app_settings and  *)
(* the layout styles in theme_settings, whose revision the import raises   *)
(* too.                                                                    *)
(***************************************************************************)
NormalizeLegacyConfigurationCompatibilitySettings(raw) == raw.valid

ReadConfigurationCompatibilitySettingsSnapshot(s) ==
    [ok |-> NormalizeLegacyConfigurationCompatibilitySettings(Raw(s, "compatibility")),
     value |-> Value(s, "compatibility")]

LookupLegacyConfigurationCompatibilitySettingsImport == Unedited("configuration-compat", "compatibility")

runLegacyConfigurationCompatibilitySettingsMigrationCommand(c, s, p) ==
    Command(c, "configuration-compat", s, p, ReadConfigurationCompatibilitySettingsSnapshot(s).ok,
            LookupLegacyConfigurationCompatibilitySettingsImport)

ImportLegacyConfigurationCompatibilitySettings(c) ==
    LET v == ReadConfigurationCompatibilitySettingsSnapshot(cmd[c].source).value IN
    Import(c, "configuration-compat", Untouched("compatibility"),
           LookupLegacyConfigurationCompatibilitySettingsImport,
           [Write("compatibility", v) EXCEPT !.themeRevision = @ + 1], v)

(***************************************************************************)
(* Mail: SMTP is on when the old panel had a host (`on`).  Without one,    *)
(* left-over fields (`stray`) are refused, with one, a cleartext           *)
(* connection or a user name without password are (`secure`).  SMTP that   *)
(* is off cannot be imported over a policy that needs mail.                *)
(***************************************************************************)
NormalizeLegacyMailSettings(raw) == IF raw.on THEN raw.valid /\ raw.secure ELSE ~raw.stray

ReadMailSettingsSnapshot(s) ==
    [ok |-> NormalizeLegacyMailSettings(Raw(s, "mail")), value |-> Value(s, "mail")]

ensureSMTPCanBeDisabled == ~db.settings["site policy"].on

LookupLegacyMailSettingsImport == Unedited("mail-settings", "mail")

runLegacyMailSettingsMigrationCommand(c, s, p) ==
    Command(c, "mail-settings", s, p, ReadMailSettingsSnapshot(s).ok, LookupLegacyMailSettingsImport)

\* Mutant: a policy that needs mail keeps SMTP from being imported at all.
ImportLegacyMailSettingsBlocked(c) ==
    LET v == ReadMailSettingsSnapshot(cmd[c].source).value IN
    ImportSettings(c, "mail-settings", "mail", Untouched("mail") /\ ensureSMTPCanBeDisabled,
                   LookupLegacyMailSettingsImport, v)

ImportLegacyMailSettings(c) ==
    LET v == ReadMailSettingsSnapshot(cmd[c].source).value IN
    ImportSettings(c, "mail-settings", "mail",
                   Untouched("mail") /\ (v.on \/ ensureSMTPCanBeDisabled),
                   LookupLegacyMailSettingsImport, v)

(***************************************************************************)
(* Mail templates: one row per known name, revision 1 while untouched.     *)
(* `distinct`: no name occurs twice.                                       *)
(***************************************************************************)
ValidateLegacyMailTemplatesData(raw) == raw.valid /\ raw.distinct

ReadMailTemplatesSnapshot(s) ==
    [ok |-> ValidateLegacyMailTemplatesData(Raw(s, "mail templates")),
     value |-> Value(s, "mail templates")]

runLegacyMailTemplatesMigrationCommand(c, s, p) ==
    Command(c, "mail-templates", s, p, ReadMailTemplatesSnapshot(s).ok, TRUE)

ImportLegacyMailTemplates(c) ==
    ImportSettings(c, "mail-templates", "mail templates", Untouched("mail templates"), TRUE,
                   ReadMailTemplatesSnapshot(cmd[c].source).value)

(***************************************************************************)
(* Client application downloads.                                           *)
(***************************************************************************)
NormalizeLegacyClientAppSettings(raw) == raw.valid

ReadClientAppSettingsSnapshot(s) ==
    [ok |-> NormalizeLegacyClientAppSettings(Raw(s, "client app")), value |-> Value(s, "client app")]

runLegacyClientAppSettingsMigrationCommand(c, s, p) ==
    Command(c, "client-app", s, p, ReadClientAppSettingsSnapshot(s).ok, TRUE)

(* The row's revision becomes 2 even when every field stays empty. *)
ImportLegacyClientAppSettings(c) ==
    ImportSettings(c, "client-app", "client app", Untouched("client app"), TRUE,
                   [Value(cmd[c].source, "client app") EXCEPT !.from = cmd[c].source])

(***************************************************************************)
(* Node agent: a node token needs 16 to 256 printable characters           *)
(* (`token`).  The settings row may not exist yet.                         *)
(***************************************************************************)
ValidateLegacyNodeAgentSettingsData(raw) == raw.valid /\ raw.token

ReadNodeAgentSettingsSnapshot(s) ==
    [ok |-> ValidateLegacyNodeAgentSettingsData(Raw(s, "node agent")), value |-> Value(s, "node agent")]

runLegacyNodeAgentSettingsMigrationCommand(c, s, p) ==
    Command(c, "node-agent", s, p, ReadNodeAgentSettingsSnapshot(s).ok, TRUE)

ImportLegacyNodeAgentSettings(c) ==
    ImportSettings(c, "node-agent", "node agent", Untouched("node agent"), TRUE,
                   ReadNodeAgentSettingsSnapshot(cmd[c].source).value)

(***************************************************************************)
(* Registration trial: a plan that the target does not have disables it.   *)
(***************************************************************************)
ValidateLegacyRegistrationTrialSettingsData(raw) == raw.valid

ReadRegistrationTrialSettingsSnapshot(s) ==
    [ok |-> ValidateLegacyRegistrationTrialSettingsData(Raw(s, "trial")),
     value |-> IF Raw(s, "trial").on THEN [Value(s, "trial") EXCEPT !.plan = Raw(s, "trial").plan]
               ELSE Default]

EffectiveTrial(v) == IF v.on /\ ~\E p \in db.rows["plans"] : p.id = v.plan THEN Default ELSE v

runLegacyRegistrationTrialSettingsMigrationCommand(c, s, p) ==
    Command(c, "registration-trial", s, p, ReadRegistrationTrialSettingsSnapshot(s).ok, TRUE)

ImportLegacyRegistrationTrialSettings(c) ==
    ImportSettings(c, "registration-trial", "trial", Untouched("trial"), TRUE,
                   EffectiveTrial(ReadRegistrationTrialSettingsSnapshot(cmd[c].source).value))

(***************************************************************************)
(* Safe access: the administrator path must be in the snapshot or be given *)
(* on the command line, never both (`path`), and safe mode needs the site  *)
(* URL that the content slice imports.                                     *)
(***************************************************************************)
ReadSafeAccessSettingsSnapshot(s) ==
    [ok |-> Raw(s, "safe access").valid /\ Raw(s, "safe access").path,
     value |-> Value(s, "safe access")]

LookupLegacySafeAccessSettingsImport == Unedited("safe-access", "safe access")

runLegacySafeAccessSettingsMigrationCommand(c, s, p) ==
    Command(c, "safe-access", s, p, ReadSafeAccessSettingsSnapshot(s).ok,
            LookupLegacySafeAccessSettingsImport)

ImportLegacySafeAccessSettings(c) ==
    LET v == ReadSafeAccessSettingsSnapshot(cmd[c].source).value IN
    ImportSettings(c, "safe-access", "safe access",
                   Untouched("safe access") /\ (v.on => db.settings["identity"].on),
                   LookupLegacySafeAccessSettingsImport, v)

(***************************************************************************)
(* Site policy; `on` is e-mail verification.  A CAPTCHA that is enabled    *)
(* needs its keys (`captcha`) and an e-mail whitelist its suffixes (part   *)
(* of `valid`).  Whether mail can be sent is not asked.                    *)
(***************************************************************************)
NormalizeLegacySitePolicySettings(raw) == raw.valid /\ raw.captcha

ReadSitePolicySettingsSnapshot(s) ==
    [ok |-> NormalizeLegacySitePolicySettings(Raw(s, "site policy")), value |-> Value(s, "site policy")]

LookupLegacySitePolicySettingsImport == Unedited("site-policy", "site policy")

runLegacySitePolicySettingsMigrationCommand(c, s, p) ==
    Command(c, "site-policy", s, p, ReadSitePolicySettingsSnapshot(s).ok,
            LookupLegacySitePolicySettingsImport)

ImportLegacySitePolicySettings(c) ==
    ImportSettings(c, "site-policy", "site policy", Untouched("site policy"),
                   LookupLegacySitePolicySettingsImport,
                   ReadSitePolicySettingsSnapshot(cmd[c].source).value)

(***************************************************************************)
(* Subscription policy.                                                    *)
(***************************************************************************)
NormalizeLegacySubscriptionPolicySettings(raw) == raw.valid

ReadSubscriptionPolicySettingsSnapshot(s) ==
    [ok |-> NormalizeLegacySubscriptionPolicySettings(Raw(s, "subscription policy")),
     value |-> Value(s, "subscription policy")]

LookupLegacySubscriptionPolicySettingsImport == Unedited("subscription-policy", "subscription policy")

runLegacySubscriptionPolicySettingsMigrationCommand(c, s, p) ==
    Command(c, "subscription-policy", s, p, ReadSubscriptionPolicySettingsSnapshot(s).ok,
            LookupLegacySubscriptionPolicySettingsImport)

ImportLegacySubscriptionPolicySettings(c) ==
    ImportSettings(c, "subscription-policy", "subscription policy", Untouched("subscription policy"),
                   LookupLegacySubscriptionPolicySettingsImport,
                   ReadSubscriptionPolicySettingsSnapshot(cmd[c].source).value)

(***************************************************************************)
(* Subscription configuration: path, information lines and templates.  An  *)
(* old snapshot without the template table has no overrides; with it, the  *)
(* set of names must be complete (`complete`).                             *)
(***************************************************************************)
readLegacySubscriptionTemplates(raw) == raw.complete

ReadSubscriptionConfigSnapshot(s) ==
    [ok |-> Raw(s, "subscription config").valid
            /\ readLegacySubscriptionTemplates(Raw(s, "subscription config")),
     value |-> Value(s, "subscription config")]

runLegacySubscriptionConfigMigrationCommand(c, s, p) ==
    Command(c, "subscription-config", s, p, ReadSubscriptionConfigSnapshot(s).ok, TRUE)

(* Its row goes to revision 2 whatever the values. *)
ImportLegacySubscriptionConfig(c) ==
    ImportSettings(c, "subscription-config", "subscription config", Untouched("subscription config"),
                   TRUE, [Value(cmd[c].source, "subscription config") EXCEPT !.from = cmd[c].source])

(***************************************************************************)
(* Telegram: an enabled bot needs its token (`token`).                     *)
(***************************************************************************)
ValidateLegacyTelegramSettingsSource(raw) == raw.valid /\ (raw.on => raw.token)

ReadTelegramSettingsSnapshot(s) ==
    [ok |-> ValidateLegacyTelegramSettingsSource(Raw(s, "telegram")), value |-> Value(s, "telegram")]

runLegacyTelegramSettingsMigrationCommand(c, s, p) ==
    Command(c, "telegram", s, p, ReadTelegramSettingsSnapshot(s).ok, TRUE)

ImportLegacyTelegramSettings(c) ==
    ImportSettings(c, "telegram", "telegram", Untouched("telegram"), TRUE,
                   ReadTelegramSettingsSnapshot(cmd[c].source).value)

(***************************************************************************)
(* Theme: custom HTML or a background (`script`) and contradicting keys    *)
(* (`agree`) are refused.  The import wants theme_settings.revision = 1,   *)
(* which the compatibility slice raises.                                   *)
(***************************************************************************)
NormalizeLegacyThemeSettings(raw) == raw.valid /\ ~raw.script

ReadThemeSettingsSnapshot(s) ==
    [ok |-> Raw(s, "theme").agree /\ NormalizeLegacyThemeSettings(Raw(s, "theme")),
     value |-> [Value(s, "theme") EXCEPT !.from = s]]

LookupLegacyThemeSettingsImport == Unedited("theme", "theme")

runLegacyThemeSettingsMigrationCommand(c, s, p) ==
    Command(c, "theme", s, p, ReadThemeSettingsSnapshot(s).ok, LookupLegacyThemeSettingsImport)

ImportLegacyThemeSettings(c) ==
    ImportSettings(c, "theme", "theme", Untouched("theme") /\ db.themeRevision = 1,
                   LookupLegacyThemeSettingsImport, ReadThemeSettingsSnapshot(cmd[c].source).value)

(***************************************************************************)
(* Trusted plugins: exactly the seven known identities (`complete`), a     *)
(* payment plugin without configuration (part of `valid`).  A rerun goes   *)
(* through the import again with the recorded archive; a second operator   *)
(* who brought another one is refused there.                               *)
(***************************************************************************)
ValidateLegacyTrustedPluginsData(raw) == raw.valid /\ raw.complete

ReadTrustedPluginsSnapshot(s) ==
    [ok |-> ValidateLegacyTrustedPluginsData(Raw(s, "trusted plugins")),
     value |-> [Value(s, "trusted plugins") EXCEPT !.from = s]]

runLegacyTrustedPluginsMigrationCommand(c, s, p) ==
    Command(c, "trusted-plugins", s, p, ReadTrustedPluginsSnapshot(s).ok,
            Unedited("trusted-plugins", "trusted plugins"))

ImportLegacyTrustedPlugins(c) ==
    ImportSettings(c, "trusted-plugins", "trusted plugins", Untouched("trusted plugins"),
                   /\ Unedited("trusted-plugins", "trusted plugins")
                   /\ db.ledger["trusted-plugins"] # Nothing =>
                         cmd[c].path = db.ledger["trusted-plugins"].path,
                   ReadTrustedPluginsSnapshot(cmd[c].source).value)
=============================================================================
