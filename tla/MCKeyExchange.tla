--------------------------- MODULE MCKeyExchange ---------------------------
EXTENDS KeyExchange, TLC

K(fam, n) == [fam |-> fam, n |-> n]

MCKeys == {K("rsa", 1), K("ecdsa", 1), K("ecdsa", 3), K("ecdsa", 4),
           K("mldsa", 1), K("ed25519", 1), K("composite", 1)}
MCTpmKey == K("ecdsa", 3)
MCStoreKeys == {K("ecdsa", 4)}

MCServerLists ==
    [kex |-> <<"x25519-mlkem", "ecdh-mlkem", "x25519", "ecdh", "gex", "dh">>,
     encC2S |-> <<"gcm", "ctr">>, encS2C |-> <<"gcm", "ctr">>,
     macC2S |-> <<"sha2", "sha1">>, macS2C |-> <<"sha2", "sha1">>,
     ext |-> FALSE, follows |-> FALSE]

HostIds == <<Id("ecdsa", TRUE, 0), Id("mldsa", TRUE, 0), Id("mldsa", FALSE, 0),
             Id("composite", FALSE, 0), Id("ecdsa", FALSE, 0), Id("ed25519", FALSE, 0),
             Id("rsa", FALSE, 512), Id("rsa", FALSE, 256)>>

MCCanned == HostIds \o <<Id("ossh-ecdsa", FALSE, 0), Id("ossh-ed25519", FALSE, 0),
                         Id("ossh-rsa", FALSE, 0)>>
MCAccepted == <<Id("ecdsa", FALSE, 0), Id("rsa", FALSE, 256), Id("ossh-rsa", FALSE, 0),
                Id("ed25519", FALSE, 0)>>

Lists(kex, key, enc, encBack, mac, ext, follows) ==
    [kex |-> kex, key |-> key, encC2S |-> enc, encS2C |-> encBack, macC2S |-> mac,
     macS2C |-> <<"sha1">>, ext |-> ext, follows |-> follows]

Offer(init, gex, known, ca) == [init |-> init, gex |-> gex, known |-> known, ca |-> ca]

Gex(a, b, c) == [min |-> a, preferred |-> b, max |-> c]

Numbers == {<<2, 1>>, <<0, 2>>, <<0, 1>>}

(* Every method with every shape of number.                                *)
MethodScenarios ==
    {[offer |-> Offer(Lists(<<kex>>, HostIds, <<"gcm">>, <<"gcm">>, <<"sha2">>, FALSE, FALSE),
                      Gex(1, 3, 8), Keys, TRUE),
      number |-> n, alter |-> "none", user |-> Id("rsa", FALSE, 1)]
       : kex \in Range(MCServerLists.kex), n \in Numbers}

(* Other lists, guesses, alterations and user keys, for one number.        *)
ListScenarios ==
    {[offer |-> o, number |-> <<2, 1>>, alter |-> a, user |-> Id("ecdsa", FALSE, 0)]
       : a \in {"none", "init", "group", "e", "f"},
         o \in {Offer(Lists(<<"unknown", "gex", "dh">>, Reverse(HostIds), <<"ctr">>, <<"gcm">>,
                            <<"none", "sha1">>, TRUE, TRUE), Gex(1, 1, 4), Keys, TRUE),
                Offer(Lists(<<"x25519-mlkem", "dh">>, HostIds, <<"gcm">>, <<"ctr">>, <<"x">>,
                            TRUE, TRUE), Gex(2, 2, 2), Keys, FALSE),
                Offer(Lists(<<"gex", "ecdh">>, Tail(HostIds), <<"ctr">>, <<"ctr">>, <<"sha2">>,
                            FALSE, FALSE), Gex(5, 6, 7), Keys, TRUE),
                Offer(Lists(<<"gex", "ecdh">>, HostIds, <<"ctr">>, <<"ctr">>, <<"x">>,
                            TRUE, FALSE), Gex(2, 3, 4), {K("ecdsa", 1)}, TRUE)}}

UserScenarios ==
    {[offer |-> Offer(Lists(<<"dh">>, HostIds, <<"gcm">>, <<"gcm">>, <<"sha2">>, TRUE, FALSE),
                      Gex(2, 2, 2), Keys, TRUE),
      number |-> <<2, 1>>, alter |-> "none", user |-> u]
       : u \in {Id("rsa", FALSE, 1), Id("rsa", TRUE, 1)} \union
               {MCCanned[i] : i \in {j \in DOMAIN MCCanned : MCCanned[j].fam # "rsa"}}}

MCScenarios == MethodScenarios \union ListScenarios \union UserScenarios
=============================================================================
