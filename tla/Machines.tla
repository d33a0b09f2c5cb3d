-------------------------------- MODULE Machines --------------------------------
(***************************************************************************)
(* What an identity claims and where the claim comes from: the tables and  *)
(* the draw of the terminal loader (src/src/core/generate.ts), the         *)
(* correction against the binary and the test of a constraint              *)
(* (src/src/profile.ts).                                                   *)
(*                                                                         *)
(* Abstracted.  A table keeps the values that differ in what a page can    *)
(* compare, not their shares: a random number in 0..Points-1 picks one in  *)
(* proportion to its place.  A font list, a device list and a codec list   *)
(* are named by the table that holds them, a place by its timezone, a      *)
(* hash by what is hashed.                                                 *)
(***************************************************************************)
EXTENDS Integers, Sequences, FiniteSets, TLC

CONSTANTS
    Points,     \* bound: the resolution of a random number
    Latest,     \* the newest Chrome major on the day of the draw
    Free         \* a constraint that says nothing about an axis

ASSUME MachinesAssumption == Points \in Nat \ {0} /\ Latest \in Nat \ (0..2)

OS == <<"Windows", "macOS", "Linux">>

OSVersion == [Windows |-> <<"19", "15", "10">>, macOS |-> <<"26", "15", "14">>, Linux |-> <<"">>]

Arch == [Windows |-> <<"x86", "arm">>, macOS |-> <<"arm", "x86">>, Linux |-> <<"x86", "arm">>]

Majors == <<Latest, Latest - 1, Latest - 2>>

UserAgent(os, major) == [platform |-> os, chrome |-> major, headless |-> FALSE]

(* The renderer string and the API behind it. *)
D3d(vendor)   == [vendor |-> vendor, angle |-> "D3D11"]
Metal         == [vendor |-> "Apple", angle |-> "Metal"]
Gl(vendor)    == [vendor |-> vendor, angle |-> "OpenGL"]

(* GPU, by platform.  Mutant: one of the platforms is forgotten.           *)
GPUWithoutArm ==
    [p \in {<<"Windows", "x86">>, <<"macOS", "x86">>, <<"Linux", "x86">>} |->
        CASE p[1] = "Windows" -> <<D3d("Intel"), D3d("NVIDIA"), D3d("AMD")>>
          [] p[1] = "macOS"   -> <<Gl("Intel"), Gl("AMD")>>
          [] OTHER            -> <<Gl("Intel"), Gl("AMD"), Gl("NVIDIA")>>]

GPU ==
    [p \in {<<os, arch>> : os \in {"Windows", "macOS", "Linux"}, arch \in {"x86", "arm"}} |->
        CASE p = <<"Windows", "x86">> -> <<D3d("Intel"), D3d("NVIDIA"), D3d("AMD")>>
          [] p = <<"Windows", "arm">> -> <<D3d("Qualcomm")>>
          [] p = <<"macOS", "arm">>   -> <<Metal>>
          [] p = <<"macOS", "x86">>   -> <<Gl("Intel"), Gl("AMD")>>
          [] p = <<"Linux", "x86">>   -> <<Gl("Intel"), Gl("AMD"), Gl("NVIDIA")>>
          [] p = <<"Linux", "arm">>   -> <<Gl("ARM")>>]

(* Width, height and scale. *)
Display ==
    [Windows |-> << <<1920, 1080>>, <<1536, 864>>, <<1366, 768>>, <<2560, 1440>>,
                    <<1600, 900>>, <<1920, 1200>>, <<3840, 2160>> >>,
     macOS   |-> << <<1512, 982>>, <<1470, 956>>, <<1728, 1117>>, <<2560, 1440>>, <<1920, 1080>> >>,
     Linux   |-> << <<1920, 1080>>, <<1366, 768>>, <<2560, 1440>>, <<3840, 2160>> >>]

ChromeHeight == [Windows |-> 105, macOS |-> 87, Linux |-> 100]
OSChrome     == [Windows |-> 48, macOS |-> 25, Linux |-> 27]

Cores ==
    [p \in DOMAIN GPU |->
        CASE p = <<"Windows", "x86">> -> <<4, 8, 12, 16, 20, 24>>
          [] p = <<"Windows", "arm">> -> <<8, 10, 12>>
          [] p = <<"macOS", "arm">>   -> <<8, 10, 12, 14>>
          [] p = <<"macOS", "x86">>   -> <<4, 8, 12>>
          [] p = <<"Linux", "x86">>   -> <<4, 8, 12, 16, 24>>
          [] OTHER                    -> <<4, 6, 8>>]

Memory == [Windows |-> <<16, 8, 32, 4>>, macOS |-> <<16, 8, 24, 32>>, Linux |-> <<16, 8, 32, 64>>]

(* LOCALE: the language and the place go together. *)
Locale ==
    << <<"en-US", "New_York">>, <<"en-US", "Chicago">>, <<"en-US", "Los_Angeles">>,
       <<"en-GB", "London">>, <<"de-DE", "Berlin">>, <<"fr-FR", "Paris">>,
       <<"es-ES", "Madrid">>, <<"pt-BR", "Sao_Paulo">>, <<"en-CA", "Toronto">>,
       <<"en-AU", "Sydney">>, <<"ja-JP", "Tokyo">>, <<"nl-NL", "Amsterdam">> >>

Codecs == "chrome"

Devices ==
    [Windows |-> <<"laptop", "usb audio", "webcam">>, macOS |-> <<"MacBook Pro", "Studio Display">>,
     Linux   |-> <<"audio", "audio and webcam">>]

Fonts == [os \in {"Windows", "macOS", "Linux"} |-> <<"fonts", os>>]

(* Chrome's GREASE: all three entries follow from the major version. *)
Brands(major) ==
    [chromium |-> major, chrome |-> major, grease |-> <<major % 11, (major + 1) % 11, major % 3>>,
     order |-> major % 6]
-----------------------------------------------------------------------------
(* pick: the row at a random number, of those a constraint leaves of a      *)
(* table.                                                                  *)
PickFrom(rows, kept, r) ==
    rows[CHOOSE i \in kept :
            Cardinality({j \in kept : j < i}) = (r * Cardinality(kept)) \div Points]

Pick(rows, r) == PickFrom(rows, DOMAIN rows, r)

(* allow: the places of a table whose value a constraint accepts.           *)
SystemsAllowed(c) == {i \in DOMAIN OS : c.os = Free \/ OS[i] \in c.os}
MajorsAllowed(c)  == {i \in DOMAIN Majors : c.minChrome = Free \/ Majors[i] >= c.minChrome}
LocalesAllowed(c) ==
    {i \in DOMAIN Locale :
        /\ c.locale = Free \/ Locale[i][1] \in c.locale
        /\ c.timezone = Free \/ Locale[i][2] \in c.timezone}

(* No table has a value for the constraint, on one axis or another: the     *)
(* draw throws.                                                            *)
Refuses(c) == {} \in {SystemsAllowed(c), MajorsAllowed(c), LocalesAllowed(c)}

(* identify: a name made of the seed and what it drew. *)
Identify(row) ==
    <<row.seed, row.os, row.osVersion, row.chrome, row.locale, row.timezone, row.gpu, row.screen>>

(* machine: every axis is sampled given the ones it depends on, in this     *)
(* order, so a table that a constraint narrows gives another value for the *)
(* same random number.                                                     *)
Machine(c, random, seed, source) ==
    LET os      == PickFrom(OS, SystemsAllowed(c), random[1])
        arch    == Pick(Arch[os], random[2])
        chrome  == PickFrom(Majors, MajorsAllowed(c), random[4])
        place   == PickFrom(Locale, LocalesAllowed(c), random[5])
        display == Pick(Display[os], random[6])
        row == [id |-> c.id, seed |-> seed, source |-> source, os |-> os, arch |-> arch,
                osVersion |-> Pick(OSVersion[os], random[3]),
                chrome |-> chrome, userAgent |-> UserAgent(os, chrome), brands |-> Brands(chrome),
                locale |-> place[1], timezone |-> place[2], screen |-> display,
                viewport |-> <<display[1], display[2] - OSChrome[os] - ChromeHeight[os]>>,
                chromeHeight |-> ChromeHeight[os],
                gpu |-> Pick(IF <<os, arch>> \in DOMAIN GPU THEN GPU[<<os, arch>>]
                             ELSE GPU[<<"Linux", "x86">>], random[7]),
                cores |-> Pick(IF <<os, arch>> \in DOMAIN Cores THEN Cores[<<os, arch>>]
                               ELSE Cores[<<"Linux", "x86">>], random[8]),
                memory |-> Pick(Memory[os], random[9]),
                fonts |-> Fonts[os], codecs |-> Codecs, devices |-> Pick(Devices[os], random[10])]
    IN  IF c.id = Free THEN [row EXCEPT !.id = Identify(row)] ELSE row
-----------------------------------------------------------------------------
(* reconcile: the binary's major, and a User-Agent that is not headless.    *)
Reconcile(row, major) ==
    [row EXCEPT !.chrome = major, !.brands = IF major = row.chrome THEN @ ELSE Brands(major),
                !.userAgent.chrome = IF major = row.chrome THEN @ ELSE major,
                !.userAgent.headless = FALSE]

(* satisfies. *)
Satisfies(row, c) ==
    /\ c.id = Free \/ c.id = row.id
    /\ c.os = Free \/ row.os \in c.os
    /\ c.locale = Free \/ row.locale \in c.locale
    /\ c.timezone = Free \/ row.timezone \in c.timezone
    /\ c.minChrome = Free \/ row.chrome >= c.minChrome
-----------------------------------------------------------------------------
Fields ==
    {"id", "seed", "source", "os", "arch", "osVersion", "chrome", "userAgent", "brands", "locale", "timezone",
     "screen", "viewport", "chromeHeight", "gpu", "cores", "memory", "fonts", "codecs", "devices"}

IsRow(row) ==
    /\ DOMAIN row = Fields /\ DOMAIN row.userAgent = {"platform", "chrome", "headless"}
    /\ row.chromeHeight \in Int

(* What of a row has to fit what else, if it is one machine's: the         *)
(* graphics and the fonts the platform, the brands and the User-Agent the   *)
(* version, the User-Agent the OS, the language the place.                  *)
FieldsOf ==
    [graphics |-> {"gpu", "os", "arch"}, version |-> {"chrome", "brands", "userAgent"},
     agent |-> {"userAgent", "os"}, fonts |-> {"fonts", "os"}, place |-> {"locale", "timezone"}]

Ties == DOMAIN FieldsOf

Holds(tie, row) ==
    \/ /\ tie = "graphics"
       /\ row.gpu.angle = "D3D11" <=> row.os = "Windows"
       /\ row.gpu.angle = "Metal" <=> row.os = "macOS" /\ row.arch = "arm"
       /\ row.gpu.vendor \in {"Intel", "AMD", "NVIDIA"} <=> row.arch = "x86"
    \/ tie = "version" /\ row.brands = Brands(row.chrome) /\ row.userAgent.chrome = row.chrome
    \/ tie = "agent" /\ row.userAgent.platform = row.os
    \/ tie = "fonts" /\ row.os \in DOMAIN Fonts /\ row.fonts = Fonts[row.os]
    \/ tie = "place" /\ <<row.locale, row.timezone>> \in {Locale[i] : i \in DOMAIN Locale}
=============================================================================
