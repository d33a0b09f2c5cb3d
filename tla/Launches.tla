-------------------------------- MODULE Launches --------------------------------
(***************************************************************************)
(* What a browser process is started with: the merge of what the launch    *)
(* plugins contribute (src/src/launch.ts), core's own contribution         *)
(* (src/src/core/flags.ts) and the bundled plugins (src/plugins/launch/).  *)
(*                                                                         *)
(* Abstracted.  A flag or an environment variable is a name and a value.   *)
(* Of two flags of one name Chrome takes the last, so a command line is a  *)
(* function of names.  Of the baseline only the flags another plugin has   *)
(* to do with are kept.  A note is the name it is about and the plugin     *)
(* that caused it.                                                         *)
(***************************************************************************)
EXTENDS Machines, Functions

CONSTANT Nothing    \* a contribution that is absent

Reserved == {"--remote-debugging-port", "--remote-debugging-address", "--user-data-dir", "--headless"}
Warned   == {"--enable-automation", "--disable-gpu"}

(* What a plugin's setup returns. *)
NoHooks ==
    [plugin |-> Nothing, throws |-> FALSE, flags |-> <<>>, env |-> <<>>, extension |-> Nothing,
     userDataDir |-> Nothing, auth |-> Nothing]

Baseline == << <<"--use-gl", "angle">>, <<"--disable-extensions", "">> >>

(* flags.  The window is the viewport and the browser's own bars. *)
CoreFlags(row) ==
    [NoHooks EXCEPT !.plugin = "flags",
        !.flags = Baseline \o
            << <<"--lang", row.locale>>,
               <<"--window-size", <<row.viewport[1], row.viewport[2] + row.chromeHeight>> >> >>]

ProxyServer(url, user, locale) ==
    [NoHooks EXCEPT !.plugin = "proxy", !.throws = url = Nothing,
        !.flags = << <<"--proxy-server", url>>, <<"--lang", locale>> >>, !.auth = user]

Clock(timezone) == [NoHooks EXCEPT !.plugin = "clock", !.env = << <<"TZ", timezone>> >>]

Extension(path) ==
    [NoHooks EXCEPT !.plugin = "extension", !.throws = path = Nothing, !.extension = path]

(* Plugins that return lists of flags. *)
Contributions(plugins) ==
    /\ plugins \in Seq(Range(plugins))
    /\ \A p \in DOMAIN plugins : plugins[p].flags \in Seq(Range(plugins[p].flags))
-----------------------------------------------------------------------------
(* What the plugins returned, in the order the merge comes to it: claims is *)
(* the sequence of pairs of each plugin, and <<p, k>> the k-th of plugin p. *)
Places(claims) == UNION {{<<p, k>> : k \in DOMAIN claims[p]} : p \in DOMAIN claims}

Earlier(x, y) == x[1] < y[1] \/ (x[1] = y[1] /\ x[2] < y[2])

NameAt(claims, x)  == claims[x[1]][x[2]][1]
ValueAt(claims, x) == claims[x[1]][x[2]][2]

Naming(claims, name) == {x \in Places(claims) : NameAt(claims, x) = name}

(* byName, or env: the last to set a name has it. *)
LastOf(claims, name) == CHOOSE x \in Naming(claims, name) : \A y \in Naming(claims, name) : ~Earlier(x, y)

ByName(claims) ==
    [name \in {NameAt(claims, x) : x \in Places(claims)} |->
        ValueAt(claims, LastOf(claims, name))]

(* note: what sets a name to another value than it had.  Mutant: without a  *)
(* word.                                                                   *)
OverridesQuietly(claims) == {}

Overrides(claims) ==
    {x \in Places(claims) : \E y \in Naming(claims, NameAt(claims, x)) :
        /\ Earlier(y, x) /\ ValueAt(claims, y) # ValueAt(claims, x)
        /\ \A z \in Naming(claims, NameAt(claims, x)) : Earlier(z, x) => ~Earlier(y, z)}

(* A flag the runtime or the merge itself adds. *)
With(flags, name, value) ==
    [n \in DOMAIN flags \cup {name} |-> IF n = name THEN value ELSE flags[n]]

Empty ==
    [flags |-> <<>>, env |-> <<>>, extensions |-> {}, userDataDir |-> Nothing, auth |-> Nothing,
     conflicts |-> {}, failed |-> FALSE]

(* resolve.  All extensions become one flag.  A plugin that cannot set up,  *)
(* a flag that is the runtime's, two data dirs and two users are refused;   *)
(* of two passwords for one user the last is taken.                        *)
Resolve(plugins) ==
    LET flags  == [p \in DOMAIN plugins |-> plugins[p].flags]
        env    == [p \in DOMAIN plugins |-> plugins[p].env]
        loaded == {plugins[p].extension : p \in DOMAIN plugins} \ {Nothing}
        dirs   == {plugins[p].userDataDir : p \in DOMAIN plugins} \ {Nothing}
        keyed  == {p \in DOMAIN plugins : plugins[p].auth # Nothing}
    IN  [flags |-> IF loaded = {} THEN ByName(flags) ELSE With(ByName(flags), "--load-extension", loaded),
         env |-> ByName(env), extensions |-> loaded,
         userDataDir |-> IF dirs = {} THEN Nothing ELSE CHOOSE d \in dirs : TRUE,
         auth |-> IF keyed = {} THEN Nothing
                  ELSE plugins[CHOOSE p \in keyed : \A q \in keyed : q <= p].auth,
         conflicts |-> {<<NameAt(flags, x), plugins[x[1]].plugin>> :
                            x \in Overrides(flags) \cup {y \in Places(flags) : NameAt(flags, y) \in Warned}}
                       \cup {<<NameAt(env, x), plugins[x[1]].plugin>> : x \in Overrides(env)},
         failed |-> \/ \E p \in DOMAIN plugins : plugins[p].throws
                    \/ \E x \in Places(flags) : NameAt(flags, x) \in Reserved
                    \/ Cardinality(dirs) > 1
                    \/ Cardinality({plugins[p].auth[1] : p \in keyed}) > 1]

(* #flags: what the runtime owns comes last. *)
CommandLine(spec, port) == With(With(spec.flags, "--headless", "new"), "--remote-debugging-port", port)

(* onStart of flags: the viewport that the window on the command line      *)
(* leaves, where it is a size and the candidate says another one.          *)
Sizes == (Int \ {0}) \X (Int \ {0})

WindowOf(flags) == IF "--window-size" \in DOMAIN flags THEN flags["--window-size"] ELSE Nothing

CoreFinds(row, flags) ==
    LET window == WindowOf(flags)
        left   == <<window[1], window[2] - row.chromeHeight>>
    IN  IF window \in Sizes /\ left # row.viewport THEN << <<"viewport", left>> >> ELSE <<>>

(* What onStart hooks return, a list of fields and values for each plugin:  *)
(* any field but those that say which identity it is.                      *)
Correctable == Fields \ {"id", "seed", "source"}

Corrections(found) ==
    /\ found \in Seq(Range(found))
    /\ \A p \in DOMAIN found : found[p] \in Seq(Range(found[p]))
    /\ \A x \in Places(found) :
          /\ NameAt(found, x) \in Correctable
          /\ NameAt(found, x) = "chromeHeight" => ValueAt(found, x) \in Int
          /\ NameAt(found, x) = "userAgent" => DOMAIN ValueAt(found, x) = {"platform", "chrome", "headless"}

(* register folds them into the candidate, the last to name a field has it. *)
Corrected(row, found) ==
    [f \in DOMAIN row |-> IF f \in DOMAIN ByName(found) THEN ByName(found)[f] ELSE row[f]]
=============================================================================
