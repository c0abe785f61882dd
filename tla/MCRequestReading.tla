-------------------------- MODULE MCRequestReading --------------------------
(* Requests from three sides: every claim about the source over a chain of up *)
(* to three trusted proxies, every combination of a request's signals, and    *)
(* Cookie headers of up to three segments with short values.                  *)
EXTENDS RequestReading

CONSTANTS browser, stranger, edge, inner

MCAddress == {browser, stranger, edge, inner}
MCTrusted == {edge, inner}

Silent == [origin |-> None, referer |-> None, site |-> None]
Plain == [page |-> "no_browser", target |-> "https_site", signals |-> Silent,
          cookies |-> None, public |-> "https_site", hops |-> 0]
Sent(request) == [request |-> request, sender |-> browser, xff |-> <<>>, proto |-> <<>>]

Claims == {[request |-> [Plain EXCEPT !.hops = hops], sender |-> sender, xff |-> claim, proto |-> scheme] :
              hops \in 0..3, sender \in {browser, edge},
              claim \in BoundedSeq({stranger, inner, "no_ip", "blank"}, 2),
              scheme \in {<<>>, <<"https">>, <<"other">>, <<"https", "https">>}}

Signalled == {[Plain EXCEPT !.page = page, !.target = target, !.public = public, !.signals = s, !.hops = hops] :
                 page \in Site \cup {"foreign", "no_browser"}, target \in Site,
                 public \in PublicOrigins, s \in Signals, hops \in 0..1}

Pages == {r \in Signalled : r.page # "no_browser" => BrowserSends(r.signals, r.page, r.target)}

Segment(name, value) == [name |-> name, value |-> value]
Others == {Segment("another", <<"octet">>), Segment("none", <<>>), Segment("none", <<"octet">>)}
Values == BoundedSeq(Character, 2) \cup {<<"dquote", c, "dquote">> : c \in Character}
Segments == {Segment("session", v) : v \in Values} \cup Others
Few == {Segment("session", v) : v \in BoundedSeq(Character, 1)} \cup Others
Headers == {<<p>> : p \in Segments} \cup {<<p, q>> : p, q \in Segments} \cup {<<p, q, r>> : p, q, r \in Few}

MCStarts == Claims \cup {Sent(r) : r \in Pages \cup {[Plain EXCEPT !.cookies = h] : h \in Headers}}
=============================================================================
