--------------------------- MODULE Configuration ---------------------------
(***************************************************************************)
(* What the server makes of its environment (src/config): Config::from_env *)
(* as a function of the variables that are set.  A text is what is told    *)
(* apart of a variable's value: the kind of thing it parses as, and its    *)
(* number, its length or which one it is.  Any error refuses the whole     *)
(* configuration; which of several errors is named is wording.             *)
(***************************************************************************)
EXTENDS Integers, Sequences, FiniteSets

Kind == {"unset", "blank", "number", "bool", "word", "tls", "address", "url", "secret"}

Text(kind, n) == [kind |-> kind, n |-> n]

Unset == Text("unset", 0)

Value(env, x) == IF x \in DOMAIN env THEN env[x] ELSE Unset

\* Seeded fault: any variable that is there counts, however blank.
Present(env, x) == x \in DOMAIN env

\* non_empty: blank counts as unset.
NonEmpty(env, x) == Value(env, x).kind \notin {"unset", "blank"}

\* required
Required(env, x) == NonEmpty(env, x)

\* The length of a text.  Generated secrets have 43 characters, and a word as many as it says.
Length(text) == IF text.kind = "secret" THEN 43 ELSE IF text.kind = "word" THEN text.n ELSE 8

\* T::from_str for the types of settings that can fail; a String takes any text.
Parses(text, type) == CASE type = "signed"   -> text.kind = "number"
                        [] type = "unsigned" -> text.kind = "number" /\ text.n >= 0
                        [] type = "port"     -> text.kind = "number" /\ text.n \in 0..65535
                        [] OTHER             -> text.kind = type

\* optional: the default for an unset variable, an error for one that does not parse.
Optional(env, x, type) == NonEmpty(env, x) => Parses(Value(env, x), type)

Setting(env, x, default) == IF NonEmpty(env, x) THEN Value(env, x).n ELSE default

-----------------------------------------------------------------------------
(* The checks of from_env *)

JwtSecret(env) == Required(env, "JWT_SECRET") /\ Length(Value(env, "JWT_SECRET")) >= 32

MaxConcurrentHashes(env) ==
    /\ Optional(env, "MAX_CONCURRENT_HASHES", "unsigned")
    /\ Setting(env, "MAX_CONCURRENT_HASHES", 8) # 0

\* The mail settings are read only when mail is sent.
Smtp(env) ==
    /\ Optional(env, "MAIL_ENABLED", "bool")
    /\ Setting(env, "MAIL_ENABLED", 0) = 1 =>
          /\ Required(env, "SMTP_HOST") /\ Required(env, "MAIL_FROM")
          /\ Optional(env, "SMTP_PORT", "port") /\ Optional(env, "SMTP_TLS", "tls")

Together(env, x, y) == NonEmpty(env, x) <=> NonEmpty(env, y)

BootstrapAdmin(env) == Together(env, "ADMIN_EMAIL", "ADMIN_PASSWORD")

Storage(env) == NonEmpty(env, "S3_BUCKET") => Optional(env, "S3_FORCE_PATH_STYLE", "bool")

\* MediaConfig::from_env: no upload may be larger than a request.
Media(env) ==
    /\ Optional(env, "MAX_REQUEST_BODY_BYTES", "unsigned")
    /\ Optional(env, "MEDIA_MAX_UPLOAD_BYTES", "unsigned")
    /\ Setting(env, "MEDIA_MAX_UPLOAD_BYTES", 8 * 1024 * 1024)
          <= Setting(env, "MAX_REQUEST_BODY_BYTES", 10 * 1024 * 1024)

OAuth(env) == /\ Together(env, "GOOGLE_CLIENT_ID", "GOOGLE_CLIENT_SECRET")
              /\ Together(env, "GITHUB_CLIENT_ID", "GITHUB_CLIENT_SECRET")

\* The relying party is derived from FRONTEND_URL, which has to be one.
Webauthn(env) == Optional(env, "FRONTEND_URL", "url")

QrLogin(env) ==
    /\ Optional(env, "QR_LOGIN_TTL_SECS", "signed")
    /\ Setting(env, "QR_LOGIN_TTL_SECS", 120) \in 30..900
    /\ Optional(env, "QR_POLL_RATE_LIMIT_PER_MINUTE", "unsigned")

Metrics(env) == Optional(env, "METRICS_BIND_ADDR", "address")

\* The rest, which must parse and is not checked further.
Account(env) ==
    /\ \A x \in {"PASSWORD_RESET_TTL_MINUTES", "EMAIL_VERIFICATION_TTL_HOURS",
                 "EMAIL_CHANGE_TTL_MINUTES", "MAX_FAILED_LOGIN_ATTEMPTS",
                 "ACCOUNT_LOCKOUT_MINUTES"} : Optional(env, x, "signed")
    /\ Optional(env, "RATE_LIMIT_PER_MINUTE", "unsigned")
    /\ \A x \in {"REQUIRE_VERIFIED_EMAIL", "TRUST_PROXY_HEADERS", "CHECK_PASSWORD_BREACHES"} :
          Optional(env, x, "bool")

\* Config::from_env is Ok.
Accepts(env) ==
    /\ JwtSecret(env) /\ MaxConcurrentHashes(env) /\ Smtp(env) /\ BootstrapAdmin(env)
    /\ Optional(env, "BIND_ADDR", "address") /\ Webauthn(env)
    /\ Required(env, "DATABASE_URL")
    /\ Optional(env, "DATABASE_MAX_CONNECTIONS", "unsigned")
    /\ Optional(env, "JWT_TTL_SECS", "signed")
    /\ Account(env) /\ Storage(env) /\ Media(env) /\ OAuth(env) /\ QrLogin(env) /\ Metrics(env)

\* The configuration that is accepted: every variable that is not left to its default.
Loaded(env) == [x \in {y \in DOMAIN env : NonEmpty(env, y)} |-> env[x]]

\* metrics::render: a scrape with the right token, or any scrape when no token is set.
Render(env, presented) ==
    NonEmpty(env, "METRICS_TOKEN") => presented = Value(env, "METRICS_TOKEN")

=============================================================================
