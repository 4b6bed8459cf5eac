\* One tab and the poller; six jobs, or five and a failed one, or four and a fault; two requests.
SPECIFICATION AdilSpec
CONSTANTS
    s1 = s1
    Sekme = {s1}
    Zam = Zam
    Yok = Yok
    EnCokIs = 6
    EnCokAriza = 2
    EnCokBasma = 2
INVARIANTS TypeOK TekYon ListeBirKez DurumGercek
PROPERTIES SilmeDurmustan GecisBiter SilmeGelir
\* A cancelled record, a removed target and a finished way back stop for good.
CHECK_DEADLOCK FALSE
