---------------------------- MODULE MCMiddlewares ---------------------------
(* Model checking Middlewares: what is deployed, and what callers send.     *)
EXTENDS Middlewares, TLC

CONSTANTS r1, r2

TwoRequests == {r1, r2}

NumeralTable ==
  [w \in {"4201", "6379", "20", "360", "200", "5", "0", "-1"} |->
     CASE w = "4201" -> 4201 [] w = "6379" -> 6379 [] w = "20" -> 20 [] w = "360" -> 360
       [] w = "200" -> 200 [] w = "5" -> 5 [] w = "0" -> 0 [] w = "-1" -> -1]

\* An operator's own file, in another style, with the origins as a list: a quoted
\* one, a blank one, and two of them in one item, which are not told apart.
OwnFile(style) ==
  [ ProductionFile EXCEPT
    !.style = [k \in DOMAIN @ |-> IF k \in Numbers THEN "plain" ELSE style],
    !.origins = [ kind |-> "list", style |-> style,
                  items |-> << <<Literal(<<"\"", "app", "\"">>)>>, <<Literal(<<" ">>)>>,
                             <<Literal(<<"admin", ",", "*">>)>> >> ] ]

\* What every deployment sets, and what one may set otherwise.
Base ==
  [ v \in {"REDIS_HOST", "LINKEDIN_LI_AT", "LINKEDIN_JSESSIONID"} |->
      CASE v = "REDIS_HOST" -> <<"redis">>
        [] v = "LINKEDIN_LI_AT" -> <<"AQED">>
        [] v = "LINKEDIN_JSESSIONID" -> <<"ajax">> ]

Set(name, text) == (name :> text) @@ Base

\* Lists of origins: none, two, none in a list, any, any among others, and a quoted one.
OriginTexts ==
  { <<>>, <<"app", ",", " ", "admin">>, <<" ", ",", ",">>, <<"*">>,
    <<"admin", ",", "*">>,
    <<"\"", "app", "\"">> }

\* What two variables that have nothing to do with each other may say at once.
Variants ==
  {Set("CORS_ALLOWED_ORIGINS", t) : t \in OriginTexts}
    \cup {Set("REDIS_HOST", <<" ">>), Set("APP_ENV", <<"qa">>)}
    \cup {("APP_ENV" :> <<"uat">>) @@ Set("LINKEDIN_DAILY_BUDGET", <<"-1", " ">>)}
    \cup {("LINKEDIN_LI_AT" :> <<" ">>) @@ Set("LINKEDIN_DAILY_BUDGET", <<" ">>)}
    \cup {Set("LINKEDIN_DAILY_BUDGET", <<"lots">>)}

\* JSESSIONID as it may be pasted.
Pasted ==
  [ double |-> {<<" ", "ajax">>, <<"\"", "ajax", "\"">>},
    single |-> {<<"\"", "\"">>, <<" ", "\"", "ajax", "\"">>},
    plain  |-> {<<"\"", "ajax", "\"">>, <<"ajax", "\"">>, <<"\"", "ajax">>} ]

Deployments ==
  {[file |-> ProductionFile, env |-> e] : e \in Variants}
    \cup UNION { {[ file |-> IF style = "double" THEN ProductionFile ELSE OwnFile(style),
                    env |-> Set("LINKEDIN_JSESSIONID", t) ] : t \in Pasted[style]} :
                 style \in DOMAIN Pasted }

Call(method, origin, route, key) ==
  [method |-> method, origin |-> origin, route |-> route, key |-> key]

\* Keys are met alone, with a blank around them, missing, and on two routes.
CallerCalls ==
  { Call("POST", <<"app">>, "profile", <<"k">>),
    Call("POST", <<"admin">>, "profile", <<" ", "k">>),
    Call("POST", <<"other">>, "export", <<"k">>),
    Call("POST", <<>>, "profile", <<>>),
    Call("OPTIONS", <<"app">>, "profile", <<>>),
    Call("OPTIONS", <<"other">>, "profile", <<>>) }

Symmetric == Permutations(Requests)
=============================================================================
