------------------------------ MODULE FeishuSend ------------------------------
(***************************************************************************)
(* The sending side of channels/feishu/feishu_bot.c: feishu_send_message   *)
(* cuts a text into parts and sends them one by one, each with the tenant  *)
(* token, which is fetched when there is none or it is about to expire.    *)
(* The outbound dispatcher and the console send at the same time, and      *)
(* set_feishu_creds on the console changes the application in between.     *)
(***************************************************************************)
EXTENDS Integers, Sequences

CONSTANTS FsSender,    \* the dispatcher and the console
          FsApp,       \* applications
          NoApp,       \* no token
          TextParts,   \* lengths of texts, in parts of ESPAGENT_FEISHU_MAX_MSG_LEN
          MaxTexts,    \* bound: texts sent
          MaxCreds     \* bound: changes of the application

ASSUME FsSendAssumption ==
    /\ NoApp \notin FsApp /\ TextParts \subseteq Nat \ {0}
    /\ MaxTexts \in Nat /\ MaxCreds \in Nat

VARIABLES
    app,       \* s_app_id, s_app_secret
    token,     \* s_tenant_token: the application it was given to, or NoApp
    changing,  \* set_credentials has the new application and still the old token
    sender,    \* per sender, where it stands
    texts,     \* history: texts begun
    parts,     \* history: per text, the parts Feishu has taken, in order
    creds      \* changes so far

fsSendVars == <<app, token, changing, sender, texts, parts, creds>>

FreeSender == [pc |-> "free"]

FsSendInit ==
    /\ app \in FsApp /\ token = NoApp /\ changing = FALSE
    /\ sender = [s \in FsSender |-> FreeSender]
    /\ texts = 0
    /\ parts = [t \in 1 .. MaxTexts |-> <<>>]
    /\ creds = 0

Sending(s, to) == sender' = [sender EXCEPT ![s] = to]

SendBegins(s, n) ==
    /\ sender[s] = FreeSender /\ texts < MaxTexts
    /\ texts' = texts + 1
    /\ Sending(s, [pc |-> "call", text |-> texts', next |-> 1, len |-> n])
    /\ UNCHANGED <<app, token, changing, parts, creds>>

\* On to the next part, whatever became of this one; after the last the sender is free.
Onward(s) ==
    IF sender[s].next < sender[s].len
    THEN [pc |-> "call", text |-> sender[s].text, next |-> sender[s].next + 1,
          len |-> sender[s].len]
    ELSE FreeSender

\* feishu_get_tenant_token: with a token that has not expired, on to the request.
HasToken(s) ==
    /\ sender[s].pc = "call" /\ token # NoApp
    /\ Sending(s, [sender[s] EXCEPT !.pc = "post"])
    /\ UNCHANGED <<app, token, changing, texts, parts, creds>>

\* Without one, a request with the application as it is now.
AsksToken(s) ==
    /\ sender[s].pc = "call" /\ token = NoApp
    /\ Sending(s, [pc |-> "fetch", text |-> sender[s].text, next |-> sender[s].next,
               len |-> sender[s].len, app |-> app])
    /\ UNCHANGED <<app, token, changing, texts, parts, creds>>

GetsToken(s) ==
    /\ sender[s].pc = "fetch"
    /\ \/ /\ token' = sender[s].app
          /\ Sending(s, [pc |-> "post", text |-> sender[s].text, next |-> sender[s].next,
                     len |-> sender[s].len])
       \/ UNCHANGED token /\ Sending(s, Onward(s))
    /\ UNCHANGED <<app, changing, texts, parts, creds>>

\* Mutant: a part that was not answered is sent again.
PartSentAgain(s) ==
    /\ sender[s].pc = "post"
    /\ parts' = [parts EXCEPT ![sender[s].text] = Append(@, sender[s].next)]
    /\ Sending(s, Onward(s)) \/ Sending(s, [sender[s] EXCEPT !.pc = "call"])
    /\ UNCHANGED <<app, token, changing, texts, creds>>

\* The request of feishu_api_call: Feishu takes the part or not, and what it answers
\* makes no difference to the parts that follow.
PartSent(s) ==
    /\ sender[s].pc = "post"
    /\ parts' \in {parts, [parts EXCEPT ![sender[s].text] = Append(@, sender[s].next)]}
    /\ Sending(s, Onward(s))
    /\ UNCHANGED <<app, token, changing, texts, creds>>

\* Two hours at most, less ten minutes.
TokenExpires ==
    /\ token # NoApp
    /\ token' = NoApp
    /\ UNCHANGED <<app, changing, sender, texts, parts, creds>>

\* feishu_set_credentials: first the application ...
AppSet(a) ==
    /\ ~changing /\ creds < MaxCreds
    /\ app' = a /\ changing' = TRUE /\ creds' = creds + 1
    /\ UNCHANGED <<token, sender, texts, parts>>

\* ... then the token of the old one is dropped.
TokenDropped ==
    /\ changing
    /\ token' = NoApp /\ changing' = FALSE
    /\ UNCHANGED <<app, sender, texts, parts, creds>>

FsSendStep == \E s \in FsSender : HasToken(s) \/ AsksToken(s) \/ GetsToken(s) \/ PartSent(s)

FsSendNext ==
    \/ \E s \in FsSender, n \in TextParts : SendBegins(s, n)
    \/ FsSendStep
    \/ TokenExpires \/ TokenDropped
    \/ \E a \in FsApp : AppSet(a)

FsSendSpec == FsSendInit /\ [][FsSendNext]_fsSendVars

-----------------------------------------------------------------------------
(* Properties. *)

\* Of every text the parts arrive in order and none of them twice; only whole parts are
\* missing.
PartsInOrder ==
    \A t \in 1 .. MaxTexts : \A i, j \in 1 .. Len(parts[t]) : i < j => parts[t][i] < parts[t][j]
=============================================================================
