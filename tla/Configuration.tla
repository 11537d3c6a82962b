--------------------------- MODULE Configuration ----------------------------
(***************************************************************************)
(* What internal/config makes of a config file and an environment: Load    *)
(* with expandEnv, StringList, applyDefaults and validate, and the one     *)
(* committed file that is all references, config/production.yml.           *)
(*                                                                         *)
(* A text is a sequence of tokens: words, and the three characters that    *)
(* decide, a blank, a quote and a comma.  A file gives each key a style,   *)
(* how YAML quotes its scalar, and a template, pieces that are literal or  *)
(* refer to the environment.  Expansion is textual and comes before YAML.  *)
(* Keys nothing depends on here (logging, pool size, TLS) are left out,    *)
(* and Sections are the matter of Rendering.                               *)
(***************************************************************************)
EXTENDS Integers, Selections, SequencesExt

CONSTANTS
  Numeral  \* the words YAML reads as an integer: word -> integer

Blank == " "
Quote == "\""
Comma == ","
Empty == <<>>

ASSUME NumeralAssumption ==
  \A word \in DOMAIN Numeral : Numeral[word] \in Int /\ word \notin {Blank, Quote, Comma}

Texts == {"AppName", "Environment", "RedisHost", "LiAt", "JSessionID", "UserAgent"}
Numbers == {"ServerPort", "RedisPort", "RequestTimeout", "CacheTTL", "DailyScrapeBudget"}

-----------------------------------------------------------------------------
(* The standard library.                                                   *)

\* strings.Trim: text without the tokens at its ends that are in cutset.
Trim(text, cutset) ==
  LET kept == {i \in DOMAIN text : text[i] \notin cutset}
  IN IF kept = {} THEN Empty ELSE SubSeq(text, Min(kept), Max(kept))

TrimSpace(text) == Trim(text, {Blank})

\* strings.Split at commas: one item more than there are commas.
Split(text) ==
  LET cuts == {0, Len(text) + 1} \cup {i \in DOMAIN text : text[i] = Comma}
      cut == Keep([i \in cuts |-> i], cuts)
  IN [k \in 1 .. Len(cut) - 1 |-> SubSeq(text, cut[k] + 1, cut[k + 1] - 1)]

-----------------------------------------------------------------------------
(* expandEnv.                                                              *)

Literal(text) == [var |-> "", fallback |-> text]
Var(name, fallback) == [var |-> name, fallback |-> fallback]

\* A variable that is unset or empty gives way to the fallback, "" when the
\* reference has none.
Resolve(piece, env) ==
  IF piece.var \in DOMAIN env /\ env[piece.var] # Empty
  THEN env[piece.var] ELSE piece.fallback

ExpandEnv(template, env) ==
  FlattenSeq([i \in DOMAIN template |-> Resolve(template[i], env)])

-----------------------------------------------------------------------------
(* YAML, as far as a scalar that holds an expanded text goes.              *)

\* external: a quote ends a double-quoted scalar, and nothing may follow it; a
\* plain one starts with neither a quote, which would quote it, nor a comma.
WellFormed(style, text) ==
  LET bare == TrimSpace(text)
      quotes == {i \in DOMAIN bare : bare[i] = Quote}
  IN CASE style = "double" -> Quote \notin Range(text)
       [] style = "single" -> TRUE
       [] style = "plain" ->
            bare # Empty => /\ Head(bare) # Comma
                            /\ Head(bare) = Quote => quotes = {1, Len(bare)} /\ Len(bare) > 1

Scalar(style, text) ==
  IF style # "plain" THEN text
  ELSE LET bare == TrimSpace(text)
       IN IF bare # Empty /\ Head(bare) = Quote THEN SubSeq(bare, 2, Len(bare) - 1) ELSE bare

\* Only a plain scalar is a number; an empty one is null and leaves the field 0.
IsNumber(style, text) ==
  /\ style = "plain"
  /\ \/ TrimSpace(text) = Empty
     \/ Len(TrimSpace(text)) = 1 /\ TrimSpace(text)[1] \in DOMAIN Numeral

Number(text) == IF TrimSpace(text) = Empty THEN 0 ELSE Numeral[TrimSpace(text)[1]]

-----------------------------------------------------------------------------
(* StringList.                                                             *)

\* Faulty variant of TrimAndCompact: the blank after a comma stays.
CompactOnly(items) == Keep(items, {i \in DOMAIN items : TrimSpace(items[i]) # Empty})

TrimAndCompact(items) ==
  LET trimmed == [i \in DOMAIN items |-> TrimSpace(items[i])]
  IN Keep(trimmed, {i \in DOMAIN items : trimmed[i] # Empty})

\* A sequence has its items, a scalar is split at commas, a mapping is an error.
OriginsAreRead(node, env) ==
  /\ node.kind \in {"list", "scalar"}
  /\ \A i \in DOMAIN node.items : WellFormed(node.style, ExpandEnv(node.items[i], env))

StringList(node, env) ==
  LET item(i) == Scalar(node.style, ExpandEnv(node.items[i], env))
  IN TrimAndCompact(IF node.kind = "scalar" THEN Split(item(1))
                    ELSE [i \in DOMAIN node.items |-> item(i)])

-----------------------------------------------------------------------------
(* applyDefaults, validate and Load.                                       *)

DefaultText == [Environment |-> <<"local">>, UserAgent |-> <<"a browser">>]
DefaultNumber ==
  [ServerPort |-> 4201, RedisPort |-> 6379, RequestTimeout |-> 20, CacheTTL |-> 360]

\* Faulty variant of ApplyDefaults: the cookies stay as they were pasted.
ApplyDefaultsVerbatim(cfg) ==
  [ cfg EXCEPT
    !.text = [k \in Texts |-> IF k \in DOMAIN DefaultText /\ @[k] = Empty
                              THEN DefaultText[k] ELSE @[k]],
    !.number = [k \in Numbers |-> IF k \in DOMAIN DefaultNumber /\ @[k] = 0
                                  THEN DefaultNumber[k] ELSE @[k]] ]

\* The zero value of a field that has a default means the default; the cookies
\* lose the blanks around them, and JSESSIONID its quotes.
ApplyDefaults(cfg) ==
  [ cfg EXCEPT
    !.text = [k \in Texts |->
                CASE k \in DOMAIN DefaultText /\ @[k] = Empty -> DefaultText[k]
                  [] k = "JSessionID" -> Trim(TrimSpace(@[k]), {Quote})
                  [] k = "LiAt" -> TrimSpace(@[k])
                  [] OTHER -> @[k]],
    !.number = [k \in Numbers |-> IF k \in DOMAIN DefaultNumber /\ @[k] = 0
                                  THEN DefaultNumber[k] ELSE @[k]] ]

\* Environment.IsValid
Environments == {<<"local">>, <<"stg">>, <<"uat">>, <<"prd">>}

Valid(cfg) ==
  /\ TrimSpace(cfg.text["AppName"]) # Empty
  /\ TrimSpace(cfg.text["RedisHost"]) # Empty
  /\ cfg.text["Environment"] \in Environments

\* What Load returns with an error.
Refused == [origins |-> Empty]

Parses(file, value, env) ==
  /\ \A k \in Texts : WellFormed(file.style[k], value[k])
  /\ \A k \in Numbers : IsNumber(file.style[k], value[k])
  /\ OriginsAreRead(file.origins, env)

Load(file, env) ==
  LET value == [k \in Texts \cup Numbers |-> ExpandEnv(file.template[k], env)]
      cfg == ApplyDefaults(
               [ text    |-> [k \in Texts |-> Scalar(file.style[k], value[k])],
                 number  |-> [k \in Numbers |-> Number(value[k])],
                 origins |-> StringList(file.origins, env) ])
  IN IF Parses(file, value, env) /\ Valid(cfg) THEN cfg ELSE Refused

\* LinkedInConfig.Configured: without both cookies there is no LinkedIn client.
Configured(cfg) ==
  TrimSpace(cfg.text["LiAt"]) # Empty /\ TrimSpace(cfg.text["JSessionID"]) # Empty

-----------------------------------------------------------------------------
(* config/production.yml.                                                  *)

ProductionFile ==
  [ style |->
      [k \in Texts \cup Numbers |-> IF k \in Numbers THEN "plain" ELSE "double"],
    template |->
      [ ServerPort        |-> <<Var("PORT", <<"4201">>)>>,
        AppName           |-> <<Literal(<<"tross-scraper">>)>>,
        Environment       |-> <<Var("APP_ENV", <<"prd">>)>>,
        RedisHost         |-> <<Var("REDIS_HOST", Empty)>>,
        RedisPort         |-> <<Var("REDIS_PORT", <<"6379">>)>>,
        LiAt              |-> <<Var("LINKEDIN_LI_AT", Empty)>>,
        JSessionID        |-> <<Var("LINKEDIN_JSESSIONID", Empty)>>,
        RequestTimeout    |-> <<Var("LINKEDIN_TIMEOUT_SECONDS", <<"20">>)>>,
        CacheTTL          |-> <<Var("LINKEDIN_CACHE_TTL_MINUTES", <<"360">>)>>,
        DailyScrapeBudget |-> <<Var("LINKEDIN_DAILY_BUDGET", <<"200">>)>>,
        UserAgent         |-> Empty ],
    origins |->
      [ kind |-> "scalar", style |-> "double",
        items |-> << <<Var("CORS_ALLOWED_ORIGINS", Empty)>> >> ] ]
=============================================================================
