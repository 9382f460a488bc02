----------------------------- MODULE MCHardware -----------------------------
(***************************************************************************)
(* A notebook, and what can become of it between two collections.          *)
(***************************************************************************)
EXTENDS Hardware

Module(slot, part) == [slot |-> slot, part |-> part, id |-> "8GB"]
Volume(device, kind, size, free) ==
    [device |-> device, fs |-> "NTFS", kind |-> kind, size |-> size, free |-> free]
Drive(device, model, serial, words) ==
    [device |-> device, model |-> model, serial |-> serial, words |-> words,
     status |-> "OK", size |-> 200]
Detail(name, mac, speed, code) ==
    [name |-> name, mac |-> mac, speed |-> speed, code |-> code]

Base ==
    [system |-> <<[name |-> "PC1", vendor |-> "V", model |-> "M", domain |-> "corp",
                   member |-> TRUE, user |-> "ann", ram |-> 101]>>,
     product |-> <<[uuid |-> "u1", name |-> "P", vendor |-> "V"]>>,
     enclosure |-> <<[tag |-> "t1", serial |-> "e1"]>>,
     bios |-> <<[id |-> "1.0", serial |-> "b1"]>>,
     board |-> <<"board">>,
     os |-> <<[id |-> "11", boot |-> 1, free |-> 60, total |-> 100]>>,
     zone |-> <<"UTC">>,
     processors |-> <<[id |-> "cpu", cores |-> 4, clock |-> 3]>>,
     memory |-> <<Module("A", "p"), Module("B", "p")>>,
     volumes |-> <<Volume("C:", 3, 100, 50), Volume("D:", 5, 0, 0)>>,
     drives |-> <<Drive("0", "d1", "s1", {"nvme", "ssd"}), Drive("1", "d2", "s2", {"hard"})>>,
     smart |-> <<FALSE>>,
     configs |-> <<[desc |-> "lan #2", mac |-> "m1", dhcp |-> TRUE, addr |-> "a1"]>>,
     details |-> <<Detail("lan", "m1", 10, 2), Detail("wifi", "m2", 0, 7),
                   Detail("tunnel", "", 0, 0)>>,
     monitors |-> <<[name |-> "mon", id |-> "x"], [name |-> "mon", id |-> "y"]>>,
     gpus |-> <<[name |-> "gpu", id |-> "31.0"]>>,
     tpm |-> <<[on |-> TRUE, spec |-> "2.0"]>>,
     secureBoot |-> <<TRUE>>, bitlocker |-> <<TRUE>>, defender |-> <<TRUE>>,
     antispyOff |-> <<>>, firewall |-> <<TRUE>>,
     lastUser |-> <<"ann">>, lastDisplayName |-> <<>>]

Used ==
    [Base EXCEPT !.system[1].user = "bob", !.os[1].boot = 2, !.os[1].free = 5,
                 !.volumes[1].free = 10, !.configs[1].addr = "a2",
                 !.details[2].code = 2, !.lastUser = <<>>]
Reordered ==
    [Base EXCEPT !.memory = Reverse(@), !.volumes = Reverse(@), !.details = Reverse(@)]
SharedMAC(first, second) ==
    [Base EXCEPT !.details = <<Detail(first, "m1", 10, 2), Detail(second, "m1", 10, 2)>>]

Notebook ==
    {Base, Used, Reordered,
     [Base EXCEPT !.monitors = Reverse(@)],
     [Base EXCEPT !.drives = Reverse(@)],
     [Base EXCEPT !.memory = Tail(@), !.os[1].total = 90, !.os[1].free = 50,
                  !.system[1].ram = 91],
     [Base EXCEPT !.volumes = Append(@, Volume("E:", 2, 100, 100))],
     [Base EXCEPT !.configs = <<>>],
     [Base EXCEPT !.configs[1].desc = "lan"], [Base EXCEPT !.configs[1].dhcp = FALSE],
     SharedMAC("lan", "bridge"), SharedMAC("bridge", "lan"),
     [Base EXCEPT !.bios[1].id = "1.1", !.gpus[1].id = "32.0"],
     [Base EXCEPT !.gpus[1].id = "32.0"],
     [Base EXCEPT !.firewall = <<FALSE>>, !.bitlocker = <<FALSE>>, !.antispyOff = <<TRUE>>]}

SomeFail ==
    {{}, {"os"}, {"system"}, {"enclosure"}, {"configs"}, {"details"}, {"drives"},
     {"bitlocker", "defender"}}

Kept == {[cpu |-> 20, latency |-> 300, status |-> "ONLINE"],
         [cpu |-> 20, latency |-> 1500, status |-> "ONLINE"],
         [cpu |-> -1, latency |-> -1, status |-> "PENDING"],
         [cpu |-> 95, latency |-> 1500, status |-> "OFFLINE"]}
=============================================================================
