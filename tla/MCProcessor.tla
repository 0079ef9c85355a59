----------------------------- MODULE MCProcessor -----------------------------
(* TLC instance of Processor: the three channels the service knows, files  *)
(* with and without a token, an agent and timeouts, and answers with       *)
(* something before and after their core.                                  *)
EXTENDS Processor

CONSTANTS wecom, mail, unipro

MCSettingOf ==
  [c \in Channels |-> CASE c = wecom -> "wecomURL" [] c = mail -> "smtpHost" [] OTHER -> "uniproURL"]

MCFiles ==
  {[given |-> {"llmTimeout", "agentTimeout"} \cup t \cup s,
    num |-> [n \in Numbers |-> 0], texts |-> t \cup s, agent |-> a] :
     t \in {{"executorURL"}, {"esAddr", "llmURL", "llmModel"}},
     s \in SUBSET {"smtpHost", "uniproURL"}, a \in BOOLEAN}

MCEnvs == {{"wecomURL"}, {"token"}, {"token", "wecomURL"}}

Before == {<<>>, <<"text">>, <<"open", "think">>, <<"obj", "think">>,
           <<"fence", "obj", "fence", "think">>, <<"mark">>, <<"odd", "mark">>}
Core   == {<<>>, <<"obj">>, <<"odd">>, <<"list">>, <<"fence", "obj", "fence">>,
           <<"open", "obj">>, <<"open", "text", "close", "obj">>}
After  == {<<>>, <<"text">>, <<"close">>, <<"fence">>, <<"think">>}

MCAnswers == {b \o c \o f : b \in Before, c \in Core, f \in After}
=============================================================================
