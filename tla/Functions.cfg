CONSTANTS
    Words <- MCWords
    Reserved <- MCReserved
    Live <- MCLive
    Languages <- MCLanguages
    English = "en"
    DefaultId = "base"
    Blank <- MCBlank
    NoId = "none"
    Here = "here"
    Cleaned <- MCCleaned
    HostFile <- MCHostFile
    Unset = "unset"
    SlugOfTag <- MCSlugOfTag
    Window = 4
    Around = 1
    GoodIds <- MCGoodIds
    Repos <- MCRepos
    App <- MCApp
    Failed = Failed
    Limit = 3
    Quote = "q"
    Slash = "b"
    Comma = "c"
    NewLine = "n"
    Space = "s"
    GoodDates <- MCGoodDates
    Minute = 9
    Undated = 0
    SlugOfTitle <- MCSlugOfTitle
    IdWords <- MCIdWords
    Numeral <- MCNumeral
    BaseTheme = "base"
    SafeLinks <- MCSafeLinks
    HttpsLinks <- MCHttpsLinks
    Existing <- MCExisting
    Release <- MCRelease
    HeroPlace <- MCHeroPlace
    Unchosen = Unchosen
    OldNames <- MCOldNames
    NewName <- MCNewName
INIT Init
NEXT Next
INVARIANTS
    AddressesLead
    TextsLayered
    
    
    PagesCover
    SettingsSurvive
    OffersEnd
    
