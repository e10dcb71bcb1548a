------------------------------- MODULE Profile ------------------------------
(***************************************************************************)
(* slipnet:// profiles: ParseSlipNetURI of config.go, with which           *)
(* runTunnelMode learns the domain, the key and the ssh account, and       *)
(* buildSlipnetArgs of tunnel.go, which writes the profile that the        *)
(* slipnet process gets, by patching the user's or from the flags.  Each   *)
(* of the two decodes the URI by itself.                                   *)
(*                                                                         *)
(* A URI is its scheme, how its base64 text is spelled, and the list of    *)
(* fields the text stands for.  Numbers stay numerals: Numeral is the set  *)
(* of those that Atoi takes for a positive number.  The types of tunnel    *)
(* that end in "_ssh" are the domain of Stem.                              *)
(***************************************************************************)
EXTENDS Naturals, Sequences

CONSTANTS
    Numeral,   \* the numerals that stand for a positive number
    Stem       \* a type that ends in "_ssh" |-> the type without this ending

\* The two types of the documentation are among them; any other text that ends so
\* may be, one that still ends so without the ending too.
ASSUME ProfileAssumption ==
    /\ {"dnstt_ssh", "sayedns_ssh"} \subseteq DOMAIN Stem
    /\ Stem["dnstt_ssh"] = "dnstt" /\ Stem["sayedns_ssh"] = "sayedns"
    /\ {"", "dnstt", "sayedns", "noizdns"} \cap DOMAIN Stem = {}

\* A profile as it may be given, readable or not.
ProfileURI ==
    [scheme : BOOLEAN, text : {"padded", "unpadded", "garbled"}, fields : Seq(STRING)]

\* Fields are counted from 1 here, from 0 in the code.
TypeField == 2
DomainField == 4
PortField == 9
HostField == 10
KeyField == 12
UserField == 16
PasswordField == 17
SSHPortField == 18

HasSSHSuffix(type) == type \in DOMAIN Stem

\* strings.TrimSuffix(type, "_ssh") takes off one ending.
TrimSSH(type) == IF HasSSHSuffix(type) THEN Stem[type] ELSE type

DisplayTunnelType(type) ==
    CASE type \in {"sayedns", "sayedns_ssh"} -> "noizdns"
      [] type \in {"dnstt", "dnstt_ssh"} -> "dnstt"
      [] OTHER -> type

\* Padding that is missing is added; anything else that is not base64 is an error.
Decodes(uri) == uri.scheme /\ uri.text \in {"padded", "unpadded"}

Encode(fields) == [scheme |-> TRUE, text |-> "padded", fields |-> fields]

-----------------------------------------------------------------------------
(* ParseSlipNetURI.                                                        *)

Accepts(uri) == Decodes(uri) /\ Len(uri.fields) >= 12

\* An optional field, or its default when it is absent or empty.
Optional(fields, i, default) ==
    IF Len(fields) >= i /\ fields[i] # "" THEN fields[i] ELSE default

OptionalNumber(fields, i, default) ==
    IF Len(fields) >= i /\ fields[i] \in Numeral THEN fields[i] ELSE default

ParseSlipNetURI(uri) ==
    LET fields == uri.fields
    IN  [type        |-> fields[TypeField],
         domain      |-> fields[DomainField],
         port        |-> OptionalNumber(fields, PortField, "1080"),
         host        |-> Optional(fields, HostField, "127.0.0.1"),
         publicKey   |-> fields[KeyField],
         sshUsername |-> Optional(fields, UserField, ""),
         sshPassword |-> Optional(fields, PasswordField, ""),
         sshPort     |-> OptionalNumber(fields, SSHPortField, "22")]

IsSSH(profile) == HasSSHSuffix(profile.type)

-----------------------------------------------------------------------------
(* buildSlipnetArgs.  A listen address is [ok, host, port]; it is not ok   *)
(* when net.SplitHostPort refuses it.                                      *)

\* Mutant of PatchProfile: the port of the profile is left as it is.
PatchHostOnly(uri, listen) ==
    IF ~Decodes(uri) \/ Len(uri.fields) < 10 THEN uri
    ELSE Encode([uri.fields EXCEPT
                    ![TypeField] = TrimSSH(@),
                    ![HostField] = IF listen.ok /\ listen.host # "" THEN listen.host ELSE @])

\* A URI that cannot be decoded, or is too short, is passed on as it is.
PatchProfile(uri, listen) ==
    IF ~Decodes(uri) \/ Len(uri.fields) < 10 THEN uri
    ELSE Encode([uri.fields EXCEPT
                    ![TypeField] = TrimSSH(@),
                    ![HostField] = IF listen.ok /\ listen.host # "" THEN listen.host ELSE @,
                    ![PortField] = IF listen.ok /\ listen.port # "" THEN listen.port ELSE @])

\* The type of a profile that is made from the flags.
GeneratedType(type) ==
    CASE type = "noizdns" -> "sayedns"
      [] type = "" -> "dnstt"
      [] OTHER -> type

\* The fields that are the same in every generated profile are left out.
GenerateProfileURI(config, listen) ==
    Encode([i \in 1 .. 23 |->
        CASE i = TypeField   -> GeneratedType(config.tunnelType)
          [] i = DomainField -> config.domain
          [] i = PortField   -> "1080"
          [] i = HostField   -> IF listen.ok /\ listen.host # "" THEN listen.host ELSE "0.0.0.0"
          [] i = KeyField    -> config.publicKey
          [] OTHER           -> ""])

\* The --port option and the profile, which is the last argument.
BuildSlipnetArgs(config, listen) ==
    [port    |-> IF listen.ok THEN listen.port ELSE "",
     profile |-> IF config.profile # <<>> THEN PatchProfile(config.profile[1], listen)
                 ELSE GenerateProfileURI(config, listen)]

=============================================================================
