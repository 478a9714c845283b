------------------------------ MODULE MCWorker ------------------------------
(* Constants of Worker for TLC. *)
EXTENDS Worker

\* The sizes a first box may have, one of them the signature of an icon.
BoxSizes == {<<0, 0, 0, 32>>, <<0, 0, 1, 0>>}

\* A file of every type, its free bytes being a size, and one of no known type.
File(s, size) ==
    [type |-> s.type,
     bytes |-> [i \in DOMAIN s.bytes |->
        IF s.bytes[i] = Wild THEN size[IF i > 4 THEN i - 4 ELSE i] ELSE s.bytes[i]]]

MCFiles ==
    {File(s, size) : s \in ToSet(Signatures), size \in BoxSizes}
        \cup {[type |-> Null, bytes |-> <<255, 216>>]}

LocalUrl(path, static, recursive) ==
    [form |-> "local", pathname |-> path, search |-> "", static |-> static, recursive |-> recursive]

RemoteUrl(host, protocol) ==
    [form |-> "absolute", hostname |-> host, pathname |-> "/a", search |-> "", port |-> "",
     protocol |-> protocol, static |-> FALSE, recursive |-> FALSE]

Network == [form |-> "network"]

MCLocalPatterns == {[pathname |-> {"/a"}, search |-> Null]}
MCRemotePatterns ==
    {[protocol |-> "https", port |-> Null, hostname |-> {"example"}, search |-> Null, pathname |-> {"/a"}]}

ImageInput(urls, widths, accept) ==
    [to |-> "image", host |-> "x", older |-> FALSE, accept |-> accept, method |-> "GET",
     query |-> [url |-> urls, w |-> widths, q |-> <<75>>]]

CdnInput(url) == [to |-> "cdn", host |-> "x", older |-> FALSE, url |-> url, method |-> "GET"]

AppInput(path, method, host, older) ==
    [to |-> "app", host |-> host, older |-> older, path |-> path, method |-> method]

MCInputs ==
    {ImageInput(<<url>>, <<64>>, accept) :
        url \in {LocalUrl("/a", FALSE, FALSE), RemoteUrl("example", "https")},
        accept \in {{}, {"webp"}, {"avif"}, {"avif", "webp"}}}
    \cup {ImageInput(<<LocalUrl("/m", TRUE, FALSE)>>, <<64>>, {}),
          ImageInput(<<LocalUrl("/a", FALSE, TRUE)>>, <<64>>, {}),
          ImageInput(<<RemoteUrl("example", "http")>>, <<64>>, {}),
          ImageInput(<<>>, <<64>>, {}),
          ImageInput(<<LocalUrl("/a", FALSE, FALSE)>>, <<65>>, {})}
    \cup {CdnInput(LocalUrl("/a", FALSE, FALSE)), CdnInput(RemoteUrl("example", "https")), CdnInput(Network)}
    \cup {AppInput(path, method, "y", FALSE) :
            path \in {<<"a">>, <<"a", "b">>, <<"b", "a", "b">>}, method \in {"GET", "HEAD", "POST"}}
    \cup {AppInput(<<"a">>, "GET", "x", TRUE)}

ARule(positive, pattern) == [positive |-> positive, pattern |-> pattern]
Rules == {ARule(TRUE, <<"a", "*">>), ARule(TRUE, <<"*", "b">>),
          ARule(FALSE, <<"a", "*", "b">>), ARule(FALSE, <<"b", "*">>), ARule(FALSE, <<"*", "*">>)}

Anywhere(all) == [list |-> FALSE, all |-> all, rules |-> <<>>]
Listed(rules) == [list |-> TRUE, all |-> FALSE, rules |-> rules]

MCConfigs ==
    {[assets |-> TRUE, images |-> images, allowSVG |-> svg, runFirst |-> Anywhere(FALSE)] :
        images \in BOOLEAN, svg \in BOOLEAN}
    \cup {[assets |-> assets, images |-> FALSE, allowSVG |-> FALSE, runFirst |-> Anywhere(TRUE)] :
        assets \in BOOLEAN}
    \cup {[assets |-> TRUE, images |-> FALSE, allowSVG |-> FALSE, runFirst |-> Listed(rules)] :
        rules \in Rules \X Rules}

MCFormats == <<"avif", "webp">>
=============================================================================
