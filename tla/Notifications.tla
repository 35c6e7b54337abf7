--------------------------- MODULE Notifications ---------------------------
(***************************************************************************)
(* internal/notifier: the subscriber that turns an event of the bus into a *)
(* message, the composite notifier with its providers tried in order, and  *)
(* the template manager.  The locale of a message is the one RequestLogin  *)
(* stored in the event (internal/i18n).  Events are handled concurrently,  *)
(* each by a goroutine of the bus.                                         *)
(***************************************************************************)
EXTENDS Integers, Sequences, FiniteSets

CONSTANTS
    Notice,         \* calls of the notifier, of the subscriber or direct
    EmailProviders, \* CompositeConfig.EmailProviders, in order
    SMSProviders,
    Sandboxed,      \* SendGrid providers in sandbox mode: validated, not sent
    DefaultLocale,  \* of the configuration
    Languages,      \* accept-language headers of gRPC callers: "" for none
    Unparsable,     \* those in which ParseAcceptLanguage finds no language
    Written,        \* names of templates the application adds and asks for
    MaxAdds         \* bound on the templates added

ASSUME LocaleAssumption == DefaultLocale \in {"en", "es"}
ASSUME UnparsableAssumption == Unparsable \intersect {"", "en", "es"} = {}
ASSUME DistinctAssumption ==
    \A s \in {EmailProviders, SMSProviders} : \A i, j \in DOMAIN s : s[i] = s[j] => i = j
ASSUME ProvidersAssumption ==
    \A s \in {EmailProviders, SMSProviders} : s \in Seq({s[i] : i \in DOMAIN s})
ASSUME WrittenAssumption == "none" \notin Written

VARIABLES
    notices,     \* per notice: the call under way, or what it returned
    delivered,   \* per notice: the providers that delivered the message
    refusals,    \* per notice: the providers that returned an error
    templates,   \* per kind: the template set
    latest,      \* history, per kind and name: how its last Add ended
    adds         \* counts the calls of Add

noticeVars == <<notices, delivered, refusals, templates, latest, adds>>

-----------------------------------------------------------------------------
(* Locales: an empty one is not set.                                       *)

Supported == {"en", "es"}
NormalizeLocale(locale) == IF locale \in Supported THEN locale ELSE "en"

\* The first language of a header; an error of the parser, or a header without
\* any language, gives the default.
ParseAcceptLanguage(header, default) ==
    IF header \in Unparsable THEN default ELSE NormalizeLocale(header)

\* The context's locale, then the accept-language metadata, then the default.
DetectLocale(context, header, default) ==
    IF context # "" THEN NormalizeLocale(context)
    ELSE IF header # "" THEN NormalizeLocale(ParseAcceptLanguage(header, default))
    ELSE IF default = "" THEN "en" ELSE NormalizeLocale(default)

-----------------------------------------------------------------------------
(* Templates.  Both kinds are sets of html/template: a set parses until    *)
(* something of it was executed, and keeps the name of a template that did *)
(* not parse, empty.  The manager holds the set by its first template.     *)

Kind == {"html", "text"}
DefaultTemplates ==
    [html |-> <<"magic_code_email", "welcome_email", "email_change_verification">>,
     text |-> <<"magic_code_email", "magic_code_sms", "welcome_email",
                "email_change_verification", "phone_change_sms">>]

Names(s) == {s[i] : i \in DOMAIN s}
Name == (UNION {Names(DefaultTemplates[k]) : k \in Kind}) \union Written

TemplateSet(s) ==
    [first |-> IF s = <<>> THEN "none" ELSE Head(s), executed |-> FALSE, parsed |-> Names(s)]

NoticeInit ==
    /\ notices = [n \in Notice |-> [phase |-> "new"]]
    /\ delivered = [n \in Notice |-> {}]
    /\ refusals = [n \in Notice |-> {}]
    /\ templates = [k \in Kind |-> TemplateSet(<<>>)]
    /\ latest = [k \in Kind |-> [x \in Name |-> "none"]]
    /\ adds = 0

\* NewTemplateManager, or NewTemplateManagerWithFS with a pattern for one kind.
Load(files) ==
    /\ templates = [k \in Kind |-> TemplateSet(<<>>)] /\ adds = 0
    /\ templates' = [k \in Kind |-> TemplateSet(files[k])]
    /\ latest' = [k \in Kind |-> [x \in Name |-> IF x \in Names(files[k]) THEN "parsed" ELSE "none"]]
    /\ UNCHANGED <<notices, delivered, refusals, adds>>

\* Add to a manager without templates of this kind: nothing is kept on failure.
AddFirst(k, x, wellFormed) ==
    /\ templates[k].first = "none"
    /\ templates' = IF wellFormed THEN [templates EXCEPT ![k] = TemplateSet(<<x>>)] ELSE templates
    /\ latest' = [latest EXCEPT ![k][x] = IF wellFormed THEN "parsed" ELSE "failed"]

\* Mutant: every template starts a set of its own.
AddMore_FreshSet(k, x, wellFormed) ==
    /\ templates[k].first \notin {"none", x}
    /\ templates' = IF wellFormed THEN [templates EXCEPT ![k] = TemplateSet(<<x>>)] ELSE templates
    /\ latest' = [latest EXCEPT ![k][x] = IF wellFormed THEN "parsed" ELSE "failed"]

\* New(name) empties what had that name, then Parse fails on bad content, and on
\* any content after the first execution.
AddMore(k, x, wellFormed) ==
    /\ templates[k].first \notin {"none", x}
    /\ LET parses == wellFormed /\ ~templates[k].executed
       IN  /\ templates' = [templates EXCEPT ![k].parsed = (@ \ {x}) \union {y \in {x} : parses}]
           /\ latest' = [latest EXCEPT ![k][x] = IF parses THEN "parsed" ELSE "failed"]

\* New with the name of the first template empties the very value by which the
\* manager holds the set: it now holds a new one, and the others are out of reach.
AddAgain(k, x) ==
    /\ templates[k].first = x
    /\ templates' = [templates EXCEPT ![k] = [first |-> "replaced", executed |-> FALSE, parsed |-> {}]]
    /\ latest' = [latest EXCEPT ![k] = [y \in Name |-> "orphaned"]]

\* AddHTMLTemplate and AddTextTemplate.
Add(k, x) ==
    /\ adds < MaxAdds /\ adds' = adds + 1
    /\ \/ \E wellFormed \in BOOLEAN : AddFirst(k, x, wellFormed) \/ AddMore(k, x, wellFormed)
       \/ AddAgain(k, x)
    /\ UNCHANGED <<notices, delivered, refusals>>

\* RenderHTML and RenderText of a template that is not there return an error.
Renders(k, x) == x \in templates[k].parsed

\* ExecuteTemplate ends the parsing, also when it fails.
Execute(k) ==
    templates' = [templates EXCEPT ![k].executed = @ \/ templates[k].first # "none"]

-----------------------------------------------------------------------------
(* The subscriber and the composite notifier.                              *)

Providers(channel) == IF channel = "email" THEN EmailProviders ELSE SMSProviders

\* SendEmail or SendSMS begins: without providers it succeeds and sends nothing.
Begin(n, channel, asked, language) ==
    notices' = [notices EXCEPT ![n] =
        [phase |-> IF Providers(channel) = <<>> THEN "sent" ELSE "sending", channel |-> channel,
         asked |-> asked, language |-> language, next |-> IF Providers(channel) = <<>> THEN 0 ELSE 1]]

End(n, phase) == notices' = [notices EXCEPT ![n] = [phase |-> phase]]

\* The locale in the event of RequestLogin: what the interceptor of the server
\* detected for the call, from the metadata the caller sent.
RequestLocale(header) == DetectLocale("", header, DefaultLocale)

\* The message is in the locale of the payload; if an event has none, in the
\* default one, for the context of a bus handler has no locale and no metadata.
MessageLocale(locale) ==
    IF locale # "" THEN NormalizeLocale(locale) ELSE DetectLocale("", "", DefaultLocale)

\* handleMagicCodeRequested: e-mail comes before phone, no contact is no error.
HandleMagicCodeRequested(n, contacts, asked, locale) ==
    /\ notices[n].phase = "new"
    /\ \/ "email" \in contacts /\ Begin(n, "email", asked, MessageLocale(locale))
       \/ contacts = {"phone"} /\ Begin(n, "sms", asked, MessageLocale(locale))
       \/ contacts = {} /\ End(n, "ignored")
    /\ UNCHANGED <<delivered, refusals, templates, latest, adds>>

\* A payload that is no map, such as the map[string]string of the docs.
RefusePayload(n) ==
    /\ notices[n].phase = "new"
    /\ End(n, "refused")
    /\ UNCHANGED <<delivered, refusals, templates, latest, adds>>

\* SendTemplatedEmail and SendTemplatedSMS: render, then send.
SendTemplated(n, channel, x) ==
    LET k == IF channel = "email" THEN "html" ELSE "text"
    IN  /\ notices[n].phase = "new"
        /\ Execute(k)
        /\ IF Renders(k, x) THEN Begin(n, channel, "", DefaultLocale) ELSE End(n, "refused")
        /\ UNCHANGED <<delivered, refusals, latest, adds>>

Provider(n) == Providers(notices[n].channel)[notices[n].next]

Deliver(n) ==
    delivered' = IF Provider(n) \in Sandboxed THEN delivered
                 ELSE [delivered EXCEPT ![n] = @ \union {Provider(n)}]

\* The provider accepts the message.
Accept(n) ==
    /\ notices[n].phase = "sending"
    /\ Deliver(n)
    /\ notices' = [notices EXCEPT ![n].phase = "sent"]
    /\ UNCHANGED <<refusals, templates, latest, adds>>

\* Mutant: the loop ends with the provider before the last.
Fail_TooEarly(n) ==
    /\ notices[n].phase = "sending"
    /\ Deliver(n) \/ UNCHANGED delivered
    /\ refusals' = [refusals EXCEPT ![n] = @ \union {Provider(n)}]
    /\ LET m == notices[n]
       IN  notices' = [notices EXCEPT ![n] =
              IF m.next + 1 < Len(Providers(m.channel))
              THEN [m EXCEPT !.next = @ + 1] ELSE [m EXCEPT !.phase = "failed"]]
    /\ UNCHANGED <<templates, latest, adds>>

\* It returns an error, be it that the answer was lost and not the message.  The
\* next one is tried; after the last one its error is returned.
Fail(n) ==
    /\ notices[n].phase = "sending"
    /\ Deliver(n) \/ UNCHANGED delivered
    /\ refusals' = [refusals EXCEPT ![n] = @ \union {Provider(n)}]
    /\ LET m == notices[n]
       IN  notices' = [notices EXCEPT ![n] =
              IF m.next < Len(Providers(m.channel))
              THEN [m EXCEPT !.next = @ + 1] ELSE [m EXCEPT !.phase = "failed"]]
    /\ UNCHANGED <<templates, latest, adds>>

NoticeNext ==
    \/ Load(DefaultTemplates) \/ Load([html |-> <<"welcome_email">>, text |-> <<>>])
    \/ \E k \in Kind, x \in Written : Add(k, x)
    \/ \E n \in Notice :
          \/ \E contacts \in SUBSET {"email", "phone"} :
                \/ HandleMagicCodeRequested(n, contacts, "", "")
                \/ \E header \in Languages : HandleMagicCodeRequested(n, contacts, header, RequestLocale(header))
          \/ RefusePayload(n)
          \/ \E channel \in {"email", "sms"}, x \in Written : SendTemplated(n, channel, x)
          \/ Accept(n) \/ Fail(n)

NoticeSpec == NoticeInit /\ [][NoticeNext]_noticeVars

-----------------------------------------------------------------------------
(* Properties.                                                             *)

\* A notice that succeeded was delivered by the last provider it tried, and by no
\* other that had not returned an error; one that failed had an error from every
\* provider: failover neither stops early nor sends on after a success.  Success
\* without a message is possible with a sandbox, or without any provider, only.
FailoverIsExact ==
    \A n \in Notice :
        /\ notices[n].phase = "sent" /\ notices[n].next > 0 =>
              /\ Provider(n) \in delivered[n] \union Sandboxed
              /\ delivered[n] \subseteq {Provider(n)} \union refusals[n]
              /\ refusals[n] = {Providers(notices[n].channel)[i] : i \in 1..(notices[n].next - 1)}
        /\ notices[n].phase = "failed" =>
              refusals[n] = Names(Providers(notices[n].channel))
        /\ notices[n].phase \in {"new", "refused", "ignored"} => delivered[n] = {}

\* Every message is in the language its recipient asked for, if there are texts in
\* it, although it is written by a goroutine that has nothing of the request's
\* context but what travelled in the event.  Who asked for none, or for nothing
\* that can be parsed, is written to in the default language, who asked for one
\* without texts in English.
LanguageIsKept ==
    \A n \in Notice : notices[n].phase \in {"sending", "sent", "failed"} =>
        notices[n].language =
            IF notices[n].asked \in Supported THEN notices[n].asked
            ELSE IF notices[n].asked \in {""} \union Unparsable THEN DefaultLocale ELSE "en"

\* Messages arrive as asked for: see FailoverIsExact and LanguageIsKept.
MessagesArriveAsAsked == FailoverIsExact /\ LanguageIsKept

\* A template whose last Add succeeded can be rendered, whatever was added, refused
\* or rendered since.  Adding the first template of a set again is excepted: it
\* loses the whole set.
AddedRenders ==
    \A k \in Kind, x \in Name : latest[k][x] = "parsed" => Renders(k, x)
=============================================================================
