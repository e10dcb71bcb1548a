------------------------------ MODULE MCProgram -----------------------------
(* The program on a few command lines, one handler and three sockets. *)
EXTENDS Program

Numerals == {"22", "2222", "1080", "9050", "free"}

SSHTypes == {"dnstt_ssh", "sayedns_ssh", "other_ssh", "other_ssh_ssh"}

Stems == [type \in SSHTypes |->
            CASE type = "dnstt_ssh" -> "dnstt"
              [] type = "sayedns_ssh" -> "sayedns"
              [] type = "other_ssh" -> "other"
              [] type = "other_ssh_ssh" -> "other_ssh"]

Fields(type, n) ==
    SubSeq(<<"16", type, "n", "p.org", "r", "0", "5000", "bbr", "9050", "10.0.0.1", "0",
             "key", "", "", "", "user", "word", "2222">>, 1, n)

URI(text, type, n) == [scheme |-> TRUE, text |-> text, fields |-> Fields(type, n)]

Plain == URI("padded", "dnstt", 12)

Standard ==
    [mode |-> "standard", file |-> "none", raw |-> FALSE, doh |-> FALSE, nearby |-> TRUE,
     scanDomain |-> "", domain |-> "", pubkey |-> "", type |-> "dnstt",
     profile |-> "none", uri |-> Plain, noScan |-> FALSE,
     interval |-> "positive", workers |-> "positive",
     autoSelect |-> FALSE, cover |-> FALSE, tcp |-> FALSE, listenOK |-> TRUE,
     tunnelListen |-> [ok |-> TRUE, host |-> "0.0.0.0", port |-> "1080"]]

Tunnel == [Standard EXCEPT !.mode = "tunnel", !.profile = "uri", !.listenOK = FALSE]

Compat == [Standard EXCEPT !.mode = "scan", !.scanDomain = "s.org"]

\* Served in full.
Served ==
    {[Standard EXCEPT !.tcp = TRUE, !.nearby = FALSE, !.file = "list"],
     [Tunnel EXCEPT !.listenOK = TRUE, !.file = "list"]}

\* Given an address that is not usable, so that only startup is of interest.
OnlyStarted ==
    {[Standard EXCEPT !.cover = TRUE, !.autoSelect = TRUE, !.listenOK = FALSE],
     [Tunnel EXCEPT !.noScan = TRUE, !.uri = URI("unpadded", "dnstt_ssh", 18),
                    !.profile = "file"],
     [Tunnel EXCEPT !.noScan = TRUE, !.uri = URI("padded", "other_ssh_ssh", 12)],
     [Tunnel EXCEPT !.noScan = TRUE, !.uri = URI("padded", "sayedns", 17),
                    !.tunnelListen = [ok |-> TRUE, host |-> "", port |-> "1080"]],
     [Tunnel EXCEPT !.noScan = TRUE, !.tunnelListen = [ok |-> FALSE, host |-> "", port |-> ""],
                    !.scanDomain = "s.org", !.raw = TRUE],
     [Tunnel EXCEPT !.noScan = TRUE, !.domain = "t.org", !.doh = TRUE],
     [Tunnel EXCEPT !.noScan = TRUE, !.profile = "none", !.domain = "t.org", !.pubkey = "hex",
                    !.type = "noizdns"],
     [Tunnel EXCEPT !.workers = "zero"]}

\* Given a number on which the scanner panics.
Panicking ==
    {[Tunnel EXCEPT !.listenOK = TRUE, !.interval = "notPositive"],
     [Tunnel EXCEPT !.listenOK = TRUE, !.workers = "negative", !.file = "bad"]}

NotStarted ==
    {[Standard EXCEPT !.nearby = FALSE, !.file = "bad"],
     [Tunnel EXCEPT !.profile = "unreadable"],
     [Tunnel EXCEPT !.profile = "fileWithout"],
     [Tunnel EXCEPT !.uri = URI("padded", "dnstt", 11)],
     [Tunnel EXCEPT !.uri = URI("garbled", "dnstt", 12)],
     [Tunnel EXCEPT !.profile = "none", !.pubkey = "hex"],
     [Tunnel EXCEPT !.profile = "none", !.domain = "t.org"],
     [Tunnel EXCEPT !.interval = "bad"],
     Compat,
     [Compat EXCEPT !.doh = TRUE, !.scanDomain = ""]}

CommandLines ==
    Served \cup Panicking \cup OnlyStarted \cup NotStarted \cup
    {[Compat EXCEPT !.raw = TRUE], [Compat EXCEPT !.doh = TRUE]}

Good == [basic |-> "ok", ns |-> "ok", glue |-> "ok", txt |-> "ok", dpi |-> "ok", latency |-> 2,
         random |-> <<"timeout", "nxdomain">>, edns |-> <<"ok", "ok", "ok">>,
         nx |-> <<"nxdomain", "nxdomain", "nxdomain">>]

Networks ==
    {Good,
     [Good EXCEPT !.latency = 1],
     [Good EXCEPT !.ns = "refused", !.edns = <<"formerr", "ok", "ok">>],
     [Good EXCEPT !.nx = <<"ok", "stub", "ok">>, !.txt = "error", !.latency = 1],
     [Good EXCEPT !.basic = "timeout"],
     [Good EXCEPT !.basic = "stub"]}
=============================================================================
