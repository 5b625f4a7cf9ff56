------------------------------- MODULE MCText -------------------------------
(* The algorithms on texts and addresses, in one instance. A behaviour has  *)
(* one job: it reads the data of one message, follows the signatures of one, *)
(* or resolves one recipient.                                               *)
EXTENDS DotReader, DKIM, MCAliases

CONSTANT Jobs

VARIABLE job

textVars == <<job, dotVars, dkimVars, aliasesVars>>

RSA == [domain |-> <<"org">>, selector |-> "s1", type |-> "rsa", key |-> "k1"]
Ed == [domain |-> <<"org">>, selector |-> "s2", type |-> "ed25519", key |-> "k2"]
MCSigners == <<RSA, Ed>>

Tags(sel, h, more) ==
    <<<<"v", <<"1">>>>, <<"a", <<"rsa", "sha256">>>>, <<"d", <<"net">>>>,
      <<"s", <<sel>>>>, <<"h", h>>>> \o more

\* A list server that signs with the simple form and a field more than there
\* is, one that signs the first word of the body, one whose key does not allow
\* subdomains, and one that does not sign From.
MCOthers ==
    {[selector |-> "o1", key |-> "k3", good |-> TRUE,
      tags |-> Tags("o1", <<"to", "from", "to", "dkim-signature">>,
                    <<<<"i", <<"list", "sub", "net">>>>>>)],
     [selector |-> "o2", key |-> "k3", good |-> TRUE,
      tags |-> Tags("o2", <<"from">>, <<<<"c", <<"simple", "relaxed">>>>, <<"l", <<"1">>>>>>)],
     [selector |-> "o3", key |-> "k4", good |-> FALSE,
      tags |-> Tags("o3", <<"from">>, <<<<"i", <<"list", "sub", "net">>>>>>)],
     [selector |-> "o4", key |-> "k3", good |-> FALSE,
      tags |-> Tags("o4", <<"to">>, <<>>)]}

Record(v, h, k, p, t) == [v |-> v, h |-> h, k |-> k, p |-> p, t |-> t]
PlainRecord(p) == Record("", <<>>, "", p, <<>>)
MCZone ==
    [s1 |-> <<Record("SPF", <<>>, "", "k1", <<>>), Record("DKIM1", <<"sha1", "sha256">>, "rsa", "k1", <<>>)>>,
     s2 |-> <<PlainRecord("k2"), Record("DKIM1", <<>>, "ed25519", "k2", <<"y">>)>>,
     o1 |-> <<PlainRecord("k3")>>, o2 |-> <<PlainRecord("k3")>>,
     o3 |-> <<Record("", <<>>, "", "k4", <<"s">>)>>, o4 |-> <<PlainRecord("k3")>>]

Bodies == {<<>>, <<"x", "/">>, <<"x", "_", "_", "x", "/", "/">>}
Heads == {<<Field("from", "a"), Field("to", "b")>>,
          <<Field("received", "r"), Field("to", "b"), Field("from", "a"), Field("to", "b")>>,
          <<Field("reply-to", "c"), Field("from", "a")>>}
MCMessages == [headers : Heads, body : Bodies]

\* Two fields of one name that are not the same.
Repeated == {[headers |-> <<Field("to", "b"), Field("to", "c"), Field("from", "a")>>,
              body |-> <<"x", "/">>]}

MCToSign == <<"from", "reply-to", "to">>
MCExtra == <<"from", "to">>

TextInit ==
    /\ job \in Jobs /\ DotInit /\ DKIMInit /\ AliasesInit
    /\ job # "dkim" => msg = CHOOSE m \in Messages : TRUE
    /\ job # "aliases" => files = Plain

TextNext ==
    /\ UNCHANGED job
    /\ \/ job = "data" /\ DotNext /\ UNCHANGED <<dkimVars, aliasesVars>>
       \/ job = "dkim" /\ DKIMNext /\ UNCHANGED <<dotVars, aliasesVars>>
       \/ job = "aliases" /\ AliasesNext /\ UNCHANGED <<dotVars, dkimVars>>

TextSpec == TextInit /\ [][TextNext]_textVars
============================================================================
