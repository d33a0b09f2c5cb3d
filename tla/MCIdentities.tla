------------------------------ MODULE MCIdentities ------------------------------
(* One slot and two sessions.  A session asks for nothing, for a kind of     *)
(* machine, or for an id; it brings a pin and a corpus or neither; it brings *)
(* launch plugins that set the window, the language or the data dir, and    *)
(* onStart hooks that correct the window, the version or the User-Agent.    *)
EXTENDS Identities

CONSTANT s0

MCSlots == <<s0>>

MCStreams == {[i \in 1..10 |-> (k * i) % 12] : k \in {1, 7}}

MCAsks ==
    {FreeAsk, [FreeAsk EXCEPT !.id = <<"ours">>],
     [FreeAsk EXCEPT !.id = <<"theirs">>, !.os = {"Windows", "macOS"}, !.locale = {"en-US", "de-DE"}],
     [FreeAsk EXCEPT !.locale = {"de-DE"}, !.timezone = {"Tokyo"}]}

MCChains == {Nothing, [pin |-> Free]}

MCAuthored(kit, place) ==
    CASE kit = "none"   -> <<>>
      [] kit = "window" -> << [NoHooks EXCEPT !.plugin = "window",
                                    !.flags = << <<"--window-size", <<800, 600>> >> >>],
                              Clock(place[2]), Extension("a"), Extension("b") >>
      [] kit = "lang"   -> << [NoHooks EXCEPT !.plugin = "lang", !.flags = << <<"--lang", "fr-FR">> >>],
                              [NoHooks EXCEPT !.plugin = "odd",
                                    !.flags = << <<"--window-size", Nothing>>, <<"--lang", "fr-FR">> >>] >>
      [] kit = "dir"    -> << ProxyServer("http", <<"user", "secret">>, place[1]),
                              [NoHooks EXCEPT !.plugin = "dir", !.userDataDir = "dir"] >>

MCClamped == <<640, 480>>

MCFinds ==
    [kit \in {"none", "window", "lang", "dir"} |->
        IF kit # "window" THEN {<<>>}
        ELSE {<<>>, << << <<"chromeHeight", 90>> >>, << <<"viewport", <<640, 400>> >> >> >>,
              << << <<"chrome", Binary>>,
                    <<"userAgent", [UserAgent("Linux", Latest) EXCEPT !.headless = TRUE]>> >> >>}]

MCCaptured == Machine([FreeAsk EXCEPT !.id = <<"captured">>], [i \in 1..10 |-> IF i = 2 THEN 0 ELSE 9],
                      <<"captured">>, "corpus")
=============================================================================
